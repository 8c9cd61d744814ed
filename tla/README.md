# TLA+ specifications of Galacticus

Galacticus (`source/`, Fortran) is a semi-analytic model of galaxy formation.
It builds merger trees, evolves the galaxies in them forward in time, and
writes what it finds at a list of output times.  Nearly all of its 1300 source
files are physics: real-valued functions and differential equations.  What can
be specified and model-checked is the machinery that drives them: a team of
OpenMP threads that shares out forests of trees, trees that are laid aside and
taken up again, nodes that move between trees, event lists that change while
they are walked, pointer structures that are rebuilt while a walk is on its
way through them, the locks under which threads and processes share tables and
files, and the solver of the nodes' differential equations: what it keeps from
step to step while steps fail, are interrupted, rejected and tried again.  This directory holds specifications of that machinery, their
TLC configurations, and theorems about them that TLAPS checks.

Line numbers below are those of the files under `source/`.

## 1. Inventory

| Component | Files | State it keeps | Operations | Interacts with |
|---|---|---|---|---|
| Evolve-forests task | `tasks.evolve_forests.F90` | two tree stacks, finish triggers, what evolved in the pass, the event time found last; per thread: tree, output index, target time, flags | fetch, resume, evolve loop, output, suspend, destroy, end of pass, deadlock report | work share, constructor, evolver, universe, outputter |
| Work share | `tasks.evolve_forests.work_share*.F90` | counter of forests handed out, or one number per worker | `forestNumber` | task |
| Universe | `objects.universe.functions.Inc` | list of trees, list of events, event ID counter | push, pop, create and remove event | task, event creators |
| Event creators | `universe.operators.intergalactic_medium_state_evolve.F90`, `radiation.intergalactic_background.internal.F90` | the properties of the universe at a grid of times | attach the first event; on each event, update and attach the next | universe; read the base nodes of its trees |
| Output times | `output.times.list.F90` | sorted list of times | `timeNext` with its index | task |
| Tree evolver | `merger_trees.evolver.standard.F90` | deadlock status, what evolved; else all in the tree | one call evolves a forest to a time: passes over all nodes, until one pass evolves none | node evolver, timesteps, node and tree events |
| Inter-tree transfers | `events.inter_tree.F90` | the global wait list and its size | push a node from a tree, pull it into another, final check | node events, task |
| Event lists of trees and nodes | `objects.merger_trees.functions.Inc`, `objects.nodes.F90` | linked lists, global event ID | create, remove, perform | evolver, transfers, promotion |
| Node structure | `objects.nodes.F90` | parent, first child, sibling, first satellite, merge target and mergee lists | remove from host, remove from mergee, walks, attach event | everything that changes a tree |
| Node evolver and merger | `merger_trees.node_evolver.standard.F90`, `merger_trees.node_merger.*.F90`, `satellites.promotion.F90`, `events.branch_jump.F90`, `events.subhalo_promotion.F90` | the node's properties, the ODE state | evolve, promote, merge, branch jump, subhalo promotion | node structure, hooks |
| Timesteps | `merger_trees.evolve.timesteps.*.F90` | limits on a node's step, and the task at its end | `timeEvolveTo` | evolver; the satellite timestep merges satellites |
| Tree walkers | `merger_trees.walkers.*.F90` | current node and tree | `next` | used by all of the above while trees change |
| Tree reading | `merger_trees.construct.read.F90` | the nodes of a forest read from a file | build a tree; attach branch-jump and promotion events; split forests | node structure |
| Suspension files | `merger_trees.construct.state_restore.F90` | one file per suspended tree | store, read back and delete | task |
| Tables under a lock | `stellar_populations.broad_band_luminosities.standard.F90`, `structure_formation.gravitational_lensing.Takahashi_2011.F90` | a table that grows, or is rebuilt, as it is asked for; a read/write lock | look up; fill in when missing | locks |
| Event hooks | `events.hooks.F90`, `numerical.sort.topological.F90` | list of hooked functions, count, read/write lock | attach, detach, call, order by dependencies | locks |
| BDF stepper | `gslODEInitVal2/msbdfactive.c` | the Nordsieck matrix and a backup of it, past steps and orders, Jacobian and matrix with their ages, the last failure | apply (retry, restore, predict, update, correct, choose the next order), reset, interpolate after a step | driver; the function that is integrated, which may fail or interrupt |
| ODE driver and step control | `gslODEInitVal2/driver2.c`, `gslODEInitVal2/cscal2.c`, `numerical.ODE_solver.ODEIV2.*`, `merger_trees.node_evolver.standard.F90` (551-670) | time, step, GSL's evolve object, the first interrupt, the trial | one solution: trials with smaller steps, calls of the driver up to the end or the first interrupt, steps, post-step changes, latent integration | stepper, node components |
| File locks | `utility.files.F90` (`File_Lock`), `flock.c` | a descriptor per lock; where the system's locks belong to the process an OpenMP lock and each thread's count of locks | lock, unlock | everything that tabulates to a file: threads and processes |
| Locks | `utility.locks.F90` | OpenMP locks, owner thread, next value | read/write lock, incremental lock | hooks, tables of physics |
| Outputter | `merger_trees.outputter.standard.F90` | buffers, an index row per tree and output | output, finalize, reduce | task, HDF5 |
| State store | `galacticus.state.F90` | state files | store, restore | all objects |
| MPI utilities | `utility.MPI.F90` | RMA counter, collectives | increment, gather, reduce | work share, posterior sampling |

Everything else (cosmology, halo structure, cooling, star formation, black
holes, radiative transfer, stellar populations, the hypergeometric function and other
numerical libraries, the wrappers of C and C++ libraries, HDF5 and XML, parameter files, posterior sampling, the Perl build system,
constraints, documentation) has no behaviour over time that TLC could explore
and is not modelled; `PROJECT.json` lists these parts with their reasons.

### How a run goes

The task opens a parallel region.  The master lets objects attach *universal
events* to the universe, then every thread loops: take the next forest of the
work share, or else pop a tree that was laid aside; evolve it to the nearer of
its next output time and the first universal event; write the output and go on,
or lay the tree aside on the *processed* stack if an event, or a node that has
to arrive from another forest, stands in the way.  A thread that finds nothing
meets the others at a barrier.  The master then looks for a universe that made
no progress, makes the processed trees the waiting ones, performs the event,
and sets a trigger that sends everybody round again.

### What is hard, and what makes it correct

| Component | Hard because | Correct when |
|---|---|---|
| Task | threads in any order; four barriers in a loop; flags shared or private; trees resumed by another thread; suspension to files; deadlock detection by flags | every forest is output at each of its output times once and in order; no tree is lost or held twice; barriers stay in step; an event finds all trees at its time; a live universe is never reported dead; the task ends |
| Single-forest mode | only the master runs most of the loop and leaves it by several exits; the others follow by triggers | the barriers match on every path; everybody leaves at the same time |
| Evolver | each node is limited by parent, host, satellites, mergees, siblings, events | some node can always move unless an event is missing; no node passes a limit |
| Transfers | the two trees are evolved by two threads in either order; lists of satellites and mergees go along | each node that leaves arrives once; no node has a dangling parent, sibling or merge target |
| Event lists | removed while walked; tasks that cannot be performed yet; the node may vanish in its own event | no event is lost or performed twice; IDs are unique |
| Node structure, walkers | promotion, merger and jumps rebuild the lists during a walk | the tree stays a tree; each node is visited once |
| Work shares | all threads ask at once; MPI and OpenMP workers | every forest is handed out to exactly one worker |
| Stepper and driver | a state of twenty parts that is restored, reset or kept depending on what the stepper guesses of the last call from its time; four ways for a step not to come to be, only one of which tells the stepper | each step starts from the solution where it starts; matrices are of this history; orders and steps change by little; a solution ends, at its end or at an interrupt |
| File locks | the kernel drops a process's locks when any descriptor of the file is closed, and reuses descriptors at once | one holder, or sharers only, over threads and processes; a lock lasts until it is given back |
| Locks, tables, hooks | upgrade of a read lock, in which it is given up; tables that grow while they are used; hooks changed while they are called, and sorted anew each time | one writer, no deadlock, no entry read before it is there or computed twice, no lost hook, dependencies kept |

`PROJECT.json` lists the hazards at their lines with the properties that cover them.
Smaller ones that it leaves out, none of them covered: the event task's view of
trees that have been freed
(`universe.operators.intergalactic_medium_state_evolve.F90` 495), the cyclic share
when the mode switches (97), the next event read past the end of its array
(`radiation.intergalactic_background.internal.F90` 584), a hook that triggers its
own event (`EventHooks.pm` 434), the owner that `ompLock` clears too late
(`utility.locks.F90` 216), mergees of a pushed node (`events.inter_tree.F90` 118),
and of the stepper and the file locks those that section 5 names at the end.

## 2. Plan

Order: the behaviour all others depend on first.

1. `ForestTask`, the task in multi-forest mode (**done**), with the abstract
   `ForestLedger` (**done**), checked as a refinement, and
   `ForestTask_proofs` (**type correctness, barriers, ownership, files: done**)
   and `ForestOutputs_proofs` (**outputs, events, the end, the refinement, no false
   deadlock of one thread: done**).
2. `SingleForest`: the barrier protocol of all threads on one forest.  Runs:
   two and three threads, forests that finish, that are limited by an event, and
   that fail; barriers aligned, everybody leaves.
3. `WorkShare`: first-come-first-served, cyclic and strided shares implement one
   abstract share (every number to one worker); proof that numbers are never
   handed out twice.
4. `ReadWriteLock` with the abstract `ReadersWriter` (**done, refinement
   proved**); on top of it `LuminosityTable` (**done, proved**) and `EventHooks`
   with `TopologicalSort` (**done, proved**).  Left: `LensingTable`, a table that is
   rebuilt for each redshift that is asked for, with its proofs; a function that triggers the event it is hooked to, and nested teams of threads.
5. `MsbdfActive` and `BdfCoefficients`, the stepper, and `OdeDriver` that
   composes it with the step control, the driver and the trials (**done; its safety
   proved**); `FileLock` (**done; exclusion and the refinement proved where locks
   belong to the process**).  Left: the cache of the derivatives
   within the function that is integrated (node evolver 790-830).
6. `InterTreeTransfer`: push and pull with the satellites and mergees that go
   along; one wait list, two trees.
7. `EventList`: event IDs, removal during a walk, performing of node and tree
   events.
8. `NodeTree`: the pointer structure with merge, promote, branch jump, subhalo
   promotion and satellite merger; `TreeWalker` over it.
9. `TimeEvolveTo`: the limits on one node's step over a tree of times; some node
   can move.

Each module takes its parameters as CONSTANTS with named assumptions, has one
action per operation, and declares no RECURSIVE operator; theorems live in a
`_proofs` module.

## 3. Modules

### ForestTask

One action per step of the loop of `evolveForestsPerform`, grained at what other
threads can see: an access to a variable shared by the team starts a new action,
what a thread does to its own variables joins the action before it.

| Actions | Code |
|---|---|
| `FetchNew`, `FetchNone` | work share and constructor, 456-462 |
| `Resume`, `ResumeNone` | `resumeTree`, 463-468 and 1009-1030 |
| `Plan` | next output of the tree, 497-516 |
| `Limit` | nearer of output and event, 525-545 |
| `EvolveBegin` ... `EvolveEnd` | one call of `standardEvolve`, `merger_trees.evolver.standard.F90` 176-591 |
| `Record` | what evolved, what limits, remnant removal, 685-737 |
| `FinalizeShort`, `FinalizeLimited`, `FinalizeOutput` | 738-793 |
| `Destroy`, `Suspend` | 807-841 and `suspendTree`, 965-1007 |
| `PassBarrier` | the barriers of 852, 910, 914 and the end of the region, one rule for all |
| `MasterStops`, `MasterTransfers`, `Decide`, `Reset` | 859-918 |

State: the variables of the team keep their names (`treeDidEvolve`,
`treesDidEvolve`, `treesCouldEvolve`, `deadlockReport`,
`universalEvolveToTime`, `triggerFinishUniverse`); thread-private ones
(`tree`, `finished`, `treeIsNew`, `treeIsFinished`, `iOutput`, `evolveToTime`,
`evolutionIsEventLimited`, `suspendTree`) are functions of the thread.  Which is
which follows the `threadprivate` directives of lines 346, 356, 359 and 361;
`treeDidEvolve` is in none of them.

Abstractions.  Of the steps before and after one that others can see, these are one
with it: the file of a suspended tree is written, and its nodes freed, before the
tree is pushed (985-1000), and read and deleted after it was popped (1023-1028),
both outside the critical sections; as the tree is the thread's own then, nobody can
tell.  No thread crashes between them.  `FetchNone` does not count: the work share's
number goes on past the last forest (`first_come_first_served` 74), and that a
constructor answers each such number with no tree is assumed.  `EvolveBegin` leaves
out the error if a tree ends before the target though all are expected not to
(evolver 243-250), and that a last time short by a rounding error is moved to the
target, or is an error if an event stands in the way (253-277): the times here are
integers.  The flag that it clears at the start (228) and sets when the tree is
ignored (307) is one assignment.  `EvolvePush` happens as soon as it is due:
`Node_Push_From_Tree` refuses a node that is not yet a satellite, or has mergees
behind it in time (`events.inter_tree.F90` 71-88), and is tried again in the next
pass over the tree; the model's forest has one time, that of the least advanced
node, and that such a node becomes ready within the call is assumed.
`MasterStops` is the one end of the deadlock report, where the code stops with one
of two messages (879, when nodes are left on the wait list, and 880).

A time is a natural, and a forest is the earliest time of its evolving nodes
(`time`), the time of its base node (`EndTime`), and whether its base node has been
removed (`emptied`).  A transfer is one node with the two forests and the time at
which it must leave the one and enter the other; the wait list is a set.  The event
creators are a sequence of times each.  The intergalactic medium's creator attaches
an event at the last time itself, moved to just before it; the model uses the strict
comparison of the radiation background for both, which loses no order of events.
Barriers are OpenMP's: a thread that meets *any* barrier counts, so a thread that
met a wrong one would be released into the wrong phase, and `BarriersAligned` is
there to say it is not.

The look-ups (`timeNext`, `firstOutput`) are pure operators.
Operators commented `mutant` are plausible bugs of the code (a stack that is not
popped, a comparison off by one, a reset at the wrong barrier); no action uses
them.  `PROJECT.json` says which property notices each.

### ForestLedger

The comment of lines 384-388 as a specification: a forest is unbuilt, evolving,
laid aside, waiting or complete; an output may be written only in turn and only
while the forest is evolving; a turn happens only when every forest is laid
aside or complete, and performs at most one event, an earliest one.
`KeepsLedger` maps the state of `ForestTask` to it: a forest is *evolving* when a
thread holds it, *aside* on the processed stack, *waiting* on the other.

### MCForestTask

The small instances: who starts and ends when, which events and transfers there
are.

### ReadWriteLock and ReadersWriter

`ompReadWriteLock` is an array of OpenMP locks, one for each thread.  `locks` says
who holds each of them, `at` and `slot` where each thread is in the routines, with
one action for each call of OpenMP (`SetRead`, `UnsetRead`, `SetWriteStart`,
`SetWriteStep`, `UnsetWriteStart`, `UnsetWriteStep`, `Reread`). The locks are not
recursive: a thread that asks for what it holds waits. `ReadersWriter` is what the
description of `setWrite` promises: the write lock is had when all read and write
locks are released, and while it is held no read lock can be had.  What the
description of `unsetWrite` adds, that a read lock held before is retained, it does
not say, and the code does not do (section 5): a writer that goes back to reading
is, in both, one that gives the lock back and later enters.  `ActsAsReadersWriter`
maps the readers and the writer to the places of the threads.

### LuminosityTable

`standardLuminosities`, `standardLuminosityTracks` and `standardTabulate`, extending
`ReadWriteLock`.  A table is the set of entries filled in and the index up to which
all of them are; entries have no values.  `computed` counts how often each was
computed (it is not in the code).  The writing under the write lock is one step, as
nobody else can see between; the errors with which the integration of a luminosity
may stop the program (523, 530) are left out, and so is that of an age beyond the
table (214).

The accelerators of the interpolations are members of the shared table too, and
written under the read lock (192, 220 of `standardLuminosities`).  `accelerator`
says whose search was the last in a population's table: `Locate` is a search, after
which the thread is at `located` until it uses the interval.  The two accelerators
of a table are one here, and a call searches at most once; that is enough for two
threads to cross.  `entryVars` are the rest of the table.

A call for tracks takes the read lock first (`OpenTracks`), as the code does, and
comes no further: only `TracksKeepLock.cfg` has such calls.

### TopologicalSort

`Sort_Topological` as an operator: the order, its inverse and the two indices
are a record that each dependency may change (`Consider`, `Swap`).  The loops over
the dependencies of a round and over the rounds are recursive functions of their
counters.  `MCEventHooks` compares the sort with the transitive closure for all
small graphs; that it sorts, and when it sorts all, is proved (section 6).

### EventHooks

The list of hooks of one event, with the threads of one team that hook their
functions (`StartAttach`, `Attach`), take them out (`AskAttached`, `IsAttached`,
`StartDetach`, `Detach`) and trigger the event (`Trigger`, `Call`, `Return`: the
code that `EventHooks.pm` puts in place of a directive).  The list is a sequence,
the pointer with which a thread walks it is the hook it stands on.  A regular
expression is the set of functions it matches.  `AskAttached` asks of any function,
hooked or not; to ask in vain counts as one of the thread's `Calls`.
`DependencyArray` lists the dependencies in the order of the code, as the sort's
result depends on it.  The lock is `ReadersWriter`, which `ReadWriteLock` is proved
to implement.

Two assumptions are about the functions.  What the master hooked before
the team began has been through `attach` too: it is in order (`OutsideAssumption`).
No function matches its own dependency (`HooksAssumption`), as none in the
repository does: with one thread it would do no harm, as the sort leaves out
what depends on itself, but with two it would make a circle.  That there is an
order that keeps all dependencies (`Satisfiable`) is not assumed: without it the
program stops with an error, as it should.

### MsbdfActive

`msbdfactive_state_t` is the record `state`, with the code's names; the
operators are the parts of `msbdfactive_apply` in their order, and the five ways
in which it ends are actions for `OdeDriver` to use.

| Operators | Code (`msbdfactive.c`) |
|---|---|
| `Rejected`, `Restored`, `AfterRejection`, `BackedUp`, `Begun`, `OrderAfter` | was the last step rejected or failed? restore or reset, else back up, 1181-1265 |
| `Started` | the first step, 1284-1352 |
| `NoOrderDecrease`, `StepSizeDecrease`, `MustLower`, `Stabilised`, `OrderToTake` | stability by lowering the order, 1081-1129 and 1354-1380 |
| `LargeOrderChange` | the sanity check, 1382-1391 |
| `Reordered`, `Rescaled`, `Predicted` | columns for the new order and step, prediction, 1393-1550 |
| `NeedsJacobian`, `NeedsM`, `Updated` | age of the matrices, 651-739 |
| `CorrectorFails`, `CorrectorSingular`, `CorrectorInterrupted` | 741-980: only the first calls `FailureHandler` (489-523) |
| `OutputFails`, `OutputInterrupted` | derivatives at the end of the step, 1599-1619 |
| `NextOrders`, `Taken`, `StepSucceeds` | order of the next step, counters, histories, 1677-1737 |

The numbers are left out.  A column says instead what it is a column *of*: the time
to which it was advanced last, the number of changes that the caller had made to the
solution by then, the step by which it is scaled, and whether it is its *own*, that
is, whether all that was added to it was of that step too (`TakesIn`). That is what
can go wrong with it: a column left over from another step, scaled for another, or
mixed with one.  `Reordered` takes the column that a raise adds, which is the last
correction whatever step it was of, into those from the second on (1442-1446), and
the column that a fall drops into those that stay (1486-1490).  Whether the
iteration converges, and whether a higher or lower order is better, is a choice.
The corrector is one action for all its iterations, as nothing is kept of them but
the last correction.

### BdfCoefficients

`msbdfactive_calccoeffs` in exact fractions, compared in `MCOdeDriver` with the
polynomial that it is to be (`IsLambda`: its value and derivative at the end of
the step, its zeros at the points before) for every order, steps of 1 to 3 and
every sequence of last steps of 1, 3 and 5.  `LeadingVanishes` tells when the code
would divide by zero: at order 3 exactly for a step five times the last
(`OrderThreeVanishes`), which is why `NoFivefoldIncrease` matters; at order 4 for
smaller steps as well (`OrderFourVanishesToo`, section 5).

### OdeDriver

Extends `MsbdfActive` with the callers of the stepper.

| Actions | Code |
|---|---|
| `Init`, `Retry` | the trials of `standardEvolve` in the node evolver, 555-657 |
| `Interrupts` | `ODEIV2_Solve` 268-277 with `standardODEs`' first interrupt |
| `EvolveBegin...`, `TryHalf`, `StepMade` | `gsl_odeiv2_evolve_apply` (GSL, external) |
| `Try`, `StepFails`, `StepSingular`, `StepInterrupted` | calls of the stepper |
| `ShrinkTo`, `GrowTo`, `Reject`, `Accept` | `sc2_control_hadjust`, `cscal2.c` 92-155 |
| `Finish`, `PostStep`, `LatentIntegrate` | `gsl_odeiv2_driver2_apply`, `driver2.c` 148-247 |

Time is a number of ticks from 0 to `EndTime`; a tick is the resolution of the time
variable, so that a step that cannot be halved any more is one tick.  `y` and the
derivatives are the points (time and number of changes) that they belong to.
`disturbed` is a history variable: the stepper was left, or the solution changed,
without word to the stepper.  `reraised` is another: since the stepper started, it
has raised an order above 2 anew after a step that did not come to be.  GSL itself
is not in the repository; its part is modelled from GSL's interface as `driver2.c`
uses it.

### FileLock

`File_Lock` and `File_Unlock` with `flock_C` and `funlock_C`.  `region` is what the
kernel knows, `fds` the files open at the numbers of each process.  The kernel's
rules (lowest free number, locks dropped by a close) are external.  `OFD` says
whether locks belong to the open file description (`OFDAVAIL`) or to the process. A
thread asks for locks of several files in one order only, as callers do that take
two (`l.file < file`), and for no file twice.  That the OpenMP lock is made once
(225-232, tested, then tested again in a critical section) comes before all this.
`File_Unlock` first opens, syncs and closes the data file (253-259); that is not the
file that is locked, which has the ending `.lock`, so that this close ends no lock.
`ReadersWriter` is the abstract lock here as well, one for each file
(`ActsAsFileLocks`).

### The proof modules

| Module | About |
|---|---|
| `ForestTask_proofs` | types, barriers, ownership and files of the task |
| `ForestOutputs_proofs` | its errors, outputs and events, its end, the refinement of `ForestLedger`, and that one thread reports no false deadlock |
| `ReadWriteLock_proofs` | the lock, and the refinement of `ReadersWriter` |
| `LuminosityTable_proofs` | the tables |
| `EventHooks_proofs` | the topological sort, the dependencies, and the list of an event |
| `OdeDriver_proofs` | types and orders of the stepper, the end of a solution |
| `OdeSteps_proofs` | step sizes, columns, the solution returned, and matrices |
| `FileLock_proofs` | the file locks, and the refinement of one `ReadersWriter` for each file |

Section 6 says what they prove.

## 4. Runs

Bounds of the task's runs: two outputs, times 0 to 5, at most three forests, two threads, three
events, three transfers.  Two threads are what every race in this code needs
(one that writes between another's write and read); three forests give a thread
a second forest while the other still works and a tree resumed by the other
thread; start and end times before, at and between the outputs exercise every
branch of the look-up.  The state spaces are finite without any further
bound.

| Run | Shows |
|---|---|
| `team_events` | forests that start and end at different times, three events of two creators: types, ownership, nothing lost, barriers, outputs in turn and at their times, events in step, refinement of `ForestLedger` |
| `team_transfers` | three nodes that move between three forests, trees suspended to files: files, complete at the end, termination |
| `one_thread_events` | one thread, events and a node that comes from a forest taken later: no false deadlock, and completion |
| `deadlocked_universe` | a node that never arrives, as its forest is not in the run (a strided share hands out only some): the deadlock is reported in every order of two threads |
| `luminosity_table` | three threads with one call each, two populations, entries asked for out of order: no entry is read that is missing, changed while one reads, or computed twice, every call ends; and of the lock below it that each thread holds its slots, nobody waits in a circle, refinement of `ReadersWriter` |
| `event_hooks` | two threads with three functions each and one of the master's, hooked, asked for, taken out and called: the list is what was hooked, in order; no hook is used after it was freed; each thread calls what is its own; before it starts TLC compares the sort with its definition on every list of up to three dependencies between up to four objects |
| `ode_driver` | one node's solution in which steps fail, are singular, interrupted, rejected and changed: the sanity check never fails, history and matrices are of this solution unless disturbed or raised anew, steps grow slowly, the right solution is returned, every solution ends; before it starts TLC checks the coefficients |
| `file_lock` | two threads of one process and one of another, two files, process locks: exclusion, locks last, refinement of one `ReadersWriter` for each file |
| `lost_did_evolve`, `interrupted_step`, `stale_context`, `unlocked_twice` | one property each that a comment of the code states and the code does not keep, section 5 |

`ReadWriteLock.cfg` (the lock alone), `SimultaneousEvents.cfg`, `LateForest.cfg`,
`RepeatedOutput.cfg`, `EarlyEvent.cfg` (with `MCForestTask`), `TracksKeepLock.cfg`,
`SharedAccelerator.cfg` (with `MCLuminosityTable`), `LostChange.cfg` and
`ReraisedOrder.cfg` (with `MCOdeDriver`) are further configurations, kept for the
disagreements of section 5; they are not among the runs of `PROJECT.json`.

Bounds of the other runs.  Three threads are the fewest with which a writer can
wait for one that waits for another, and with which the array has a slot that is
neither first nor last.  Two luminosities asked for in the wrong order make a gap
below the maximum.  The hooks have the labels and
dependencies of four of the components that are hooked to
`satelliteMergerEvent`; the numbers of calls (`Calls`) bound every thread, and
each thread hooks a function and takes it out once.  These bounds make every
step of `EventHooks` final, so that the absence of a deadlock is its liveness.

Bounds of `ode_driver`: orders up to 3 (`MaxOrder`, 5 in the code), so that there
is an order below, an order above and one to which the order rises again; the
Jacobian renewed after 2 steps instead of 50 and the matrix after 1 instead of
20, so that old and new matrices both occur; one failure of the iteration before
`failcount` acts; an end at 9 ticks; steps of 1, 2 and 5 ticks, between which a
step can shrink to a fifth, grow by 2.5, and want to grow fivefold; two trials
(4 in the code); at most two steps that do not come to be (`MaxTroubles`) and one
change of the solution in a trial (`MaxChanges`).  Two troubles are what a second
failure at the same order and time needs, which lowers the order, and what a
rejection after a failure needs.  The theorems of section 6 hold
without these bounds, up to the code's own order of 5.

Bounds of `file_lock`: two threads of one process are needed for a close by one to
end the other's lock, a thread of another process to find the lock gone; two
files and two locks a thread for a thread to give its locks back in either order.

Fairness.  `FairSpec` assumes weak fairness of each thread's next step, of the
master's and of the barrier: the operating system runs every thread, an OpenMP
critical section and a work-share lock are always released (their bodies contain no
wait), and a barrier releases its team.  No action needs strong fairness.  The Spec
of the safety runs has none.  `LuminosityTable` assumes weak fairness of each thread
that is in a call.  That is enough for `CallsEnd` because each thread's calls are
bounded: OpenMP's locks are not fair, and a writer could starve behind readers that
come for ever, of which the property says nothing. `OdeDriver`'s `FairSpec` is weak
fairness of `Next` as a whole: one thread that goes on as long as it can; the bound
on the troubles stands for the code's own limit, the tick below which no step is
halved, and the trials.

## 5. Where code and comments disagree

The first four are runs that TLC must find violated.

* **`lost_did_evolve`**.  `treeDidEvolve` is shared.  A thread's evolver sets it
  true, another thread's evolver sets it false at its start, and the first thread
  finds it false.  When the pass ends with nothing recorded the universe is taken
  for deadlocked, and the run stops after a reporting pass.
* **`interrupted_step`**.  When the function interrupts a step (`GSL_EBADFUNC`),
  `msbdfactive_apply` returns after the prediction without a call of its failure
  handler.  `ODEIV2_Solve` calls again from the same time, which is neither the
  start of the last step that succeeded nor the time of the last failure, so the
  predicted matrix is taken for the solution, backed up, and predicted again
  (`msbdfactive.c` 1187).  A singular matrix (820) has the same effect.
* **`stale_context`**.  What is integrated over the last step (`msbdfactive.c` 1797)
  uses as many columns as the *next* step's order says.  If it is to rise, the last
  column is of an older time and step, or empty.
* **`unlocked_twice`**.  `funlock_C` closes the file and only then sets its region
  to unlocked.  By then the number may be that of another thread's file, just opened
  and locked: with locks of the open file description that thread loses its lock.

These have a configuration and no run in `PROJECT.json`.

* **`SimultaneousEvents.cfg`**.  The loop over events exits after the first one at
  the time of the pass; a second event at the same time is found in the next pass,
  in which every tree is already at its time and none evolves.
* **`LateForest.cfg`**.  A pass without evolution is a deadlock only if some tree
  could evolve, that is, had a time before its target (544).  But `treesCouldEvolve`
  is cleared once, before the loop (415), and never for a further pass: when the
  forests that made it true have ended, and the one that is left begins only after
  the next event, its pass is reported as a deadlock (861).
* **`RepeatedOutput.cfg`**.  A forest that ended before an output time is output
  there; laid aside afterwards, it is resumed with an earliest time before that
  output and is written again.
* **`EarlyEvent.cfg`**.  A tree suspended for want of a node is on the stack that is
  passed to the event's task, at an earlier time than the event.
* **`TracksKeepLock.cfg`**.  `standardLuminosityTracks` takes the read lock and then
  calls `standardTabulate`, which takes it again: the lock is an OpenMP lock that is
  not recursive, and the thread waits for itself.  (Where the comment announces the
  release of the lock, line 292, a third call sets it again.)  The likelihood of
  fits to spectra (`models.likelihoods.SED_fit.F90`) calls it.  The configuration
  checks `CallsEnd` with such calls; `luminosity_table` has none, and its `CallsEnd`
  is about the others.
* **`SharedAccelerator.cfg`** (`OwnInterval`).  A search writes its interval to the
  accelerator of the table and reads it back from there, and the flag that asks for
  a new accelerator is cleared in the same way, all under the read lock (192, 220 of
  the luminosities, `numerical.interpolation.F90` 252-305).  Two threads that search
  in one table at once may return each other's interval, or one allocates anew the
  accelerator that the other is using.
* **`LostChange.cfg`**.  A post-step task that changes the solution resets GSL's
  object (`driver2.c` 212) and not the stepper, whose next step starts from its own
  columns: the change is lost.
* **`ReraisedOrder.cfg`**.  A step that is rejected is undone from the backup, but
  the order to which it was to rise is kept, and so is its correction (`abscor`),
  which has no backup.  If that order is above 2, the next try adds that correction
  as its last column and mixes it into those from the second on (`msbdfactive.c`
  1435-1446), as the rejected try did with the correction of the step before it.
  `HistoryUnlessDisturbed` says what remains: all columns but the added one are of
  this time and scaled with this step, and after a reset nothing foreign is left.

More are known from reading the code and have neither.  Of the task and the tables: a forest whose
earliest time is an output time, laid aside before it could be written, is not
new when it is resumed, and its output at that time is skipped (tasks 504); in the
pass that reports a deadlock, a forest whose base node is to be in place at
the output time is written before it has come to that time (740-748, where the
base node's time must *exceed* the target for the shortfall to be seen); with
trees suspended to files the event's task is given trees whose nodes have been
freed (996); and `LensingTable` of the plan, in which another thread may rebuild the
distribution between the release of the write lock and the return of the
read lock (568).

Of the lock: the description of `unsetWrite` says that with `haveReadLock` it is
ensured "that read locked is retained" (`utility.locks.F90` 104); the code releases
all locks and then asks for the read lock again (324-328), so that another writer
may come between.  The tables look things up again afterwards, or need only what no
writer takes away (`InterpolatesInEntries`).

Of the stepper: the matrix is not renewed after a rejection, though the comment of
701-706 says so (`update` is given the end of the step); a Jacobian that fails would
be recorded at the end of the step (689), but the only one in the repository never
fails; the leading coefficient can vanish at order 4 below the limit of 4.9 (steps
of 3 after 1 after 5, `OrderFourVanishesToo`), which the runs, up to order 3, do not
reach.  Of its callers: the first interrupt is kept from one trial to the next; the
cache of the derivatives is marked with the new point before they are known (node
evolver 811).  Of `flock.c`: where the system has no locks (`ENOSYS`) the file stays
open.

The passing runs of `ForestTask` are chosen so that these do not hide other faults:
`team_events` has no forest that begins at an output time after an event or that
is limited after it ended, and `NoUniverseDeadlock` is checked with one thread.

## 6. Proofs

`ForestTask_proofs` proves for every team of threads, every number of forests,
and all output times, events and transfers that meet the assumptions of
`ForestTask`:

| Theorem | States |
|---|---|
| `TypeCorrect` | `Spec => []TypeOK` |
| `TeamBarriersAligned` | `Spec => []BarriersAligned` |
| `OneOwnerAlways` | `Spec => []OneOwner` |
| `MasterSectionAlone` | `Spec => []MasterAlone` |
| `FilesTracked` | `Spec => []FilesAreSuspendedTrees` |

Assumptions: the master is in the team; start times do not exceed end times;
output times and each creator's times increase; there are finitely many
creators; the markers for no tree and no error are not forests or messages.

The argument is one inductive invariant in three layers.

* `TypeInv` adds to `TypeOK` that a thread inside the evolution of a tree holds a
  forest and an output index in range; without it the look-ups by the thread's
  tree have no type.
* `TeamInv` adds the phases of a pass (`InWork`, `InMaster`, `InDecide`,
  `InEnd`): the points at which the threads can be *together*.  `BarriersAligned`
  speaks only of threads that all wait; it is not inductive, because it
  does not say that a thread at `decide` implies that all others are past the
  work.  `Finished` ties the private flags to the trigger (all threads decide the
  same way), `Exhausted` says why a thread left the work.
* `OwnerInv` adds `Places`: what is held or suspended has been handed out, and only a
  thread inside the loop over a tree holds one.  It needs `TeamInv` for the
  master's transfer, where the waiting stack is overwritten.

Each layer has one lemma per action and one step per conjunct.  The layers above
the types share one lemma for the actions that move no tree (`OwnersKept`).
Lemmas about minima (`LeastIsLeast`), look-ups and sequences (`TailElements`,
`AppendElements`) come first.

`ForestOutputs_proofs` goes on from there:

| Theorem | States |
|---|---|
| `NoImpossibleErrorAlways` | `Spec => []NoImpossibleError` |
| `OutputsAtTheirTimes` | `EndsClear /\ Spec => OutputAtItsTime` |
| `EventsSynchronised` | `Transfers = {} /\ Spec => UniversalEventSynchronised` |
| `OutputsInTurn` | `OutputsClear /\ Spec => []EveryOutputInTurn` |
| `TreesKept` | `OutputsClear /\ Spec => []NoTreeLost` |
| `EndsComplete` | `OutputsClear /\ NodesMeet /\ Spec => []AllDoneIsComplete` |
| `ImplementsLedger` | `OutputsClear /\ Spec => KeepsLedger` |
| `NeverFalselyDeadlocked` | `OneThread /\ DistinctEvents /\ NodesMeet /\ NodesLeave /\ (\E f0 \in Forest : Lasts(f0)) /\ Spec => []NoUniverseDeadlock` |

Without their conditions all but the first are false of the code: section 5 names
what goes wrong.  The conditions speak of the constants only, and the instances of
the runs that check a property meet its conditions.

* `OutputsClear`: if a forest ends before an output, no event comes from that output
  on until the last; if one starts at an output that is not the last, no event comes
  before it; and no node moves at the time of an output but the last.  Otherwise an output is repeated
  (`RepeatedOutput.cfg`) or skipped (tasks 504).
* `EndsClear`: there are no transfers, or no base node is to be in place at the very
  time of an output.  It is needed in the pass that reports a deadlock.
* `Transfers = {}`: a tree that waits for a node is passed to an event's task too
  early (`EarlyEvent.cfg`).
* `NodesMeet`: a node that moves arrives in a forest of the run, within its times;
  `NodesLeave` says the same of the forest that it leaves.  Without them a universe is
  rightly reported as deadlocked (`deadlocked_universe`).
* `OneThread`: two threads share the result of the evolver and may lose it
  (`lost_did_evolve`).  `DistinctEvents`: no two creators attach an event at the same time
  (`SimultaneousEvents.cfg`).
* `Lasts(f0)`: a forest begins no later than the others, at the time of no event, and lasts
  to the last output (`LateForest.cfg` shows what happens when none does; at an event on
  the very start the first pass evolves nothing).

The invariants build on one another.  `EventsInv` says that no event lies before the
time found last and that each creator has one at most; `Explained` that a thread
that finds its tree short of its target knows why, and with them the two
impossible errors are excluded (`ErrorInv`).  `AimInv` relates a thread's target to the
output it goes to and the events before it.  `SyncInv` says that in a pass with an
event all that is laid aside has come to that event, because no thread can find
an earlier one.  `OutInv` is about the outputs: `Between` says of a forest that is laid
aside, waiting or just taken up again that its time is past every output that it has
written and before the next one, so that the look-up (`firstOutput`) finds just
that one (`PlanBetween`, `PlanFresh`); `Going` says the same of one that is being evolved
at each point of the loop.  `MeetInv` adds the transfers: what was to leave or to arrive
by the time of a forest has done so (`EndsComplete`).  The refinement has a lemma
for each step of the ledger and one that all others stutter (`PhaseMoves`,
`TurnsLedger`, `WritesLedger`).

`DeadlockInv` is what one thread needs.  `SentInOrder`, `Served` and `DoneSent` say that a
forest sends what it has to before it goes beyond that time, is written or is finished;
`TimesInv` that a forest is where it began or no event lies behind it; `LaidInv` why
a forest is laid aside, and `GoInv` that the event on whose account it was has been
performed when it is taken up again.  From them `StuckInv`: as long as nothing has evolved in
a pass (`Idle`), each forest laid aside waits for a node that has not been sent, or is at its
start and an event lies before it.  If all wait (`PassEvolves`), the one that waits for
a node at the least time would have it sent to it (`NoneWaitsForNode`), as the
forest that sends it is not stuck before that time; and one that waits for an event
shows that the forest that lasts is not finished, hence laid aside, hence at its start with
an event before it, though some forest could evolve (`Begun`).  So a pass that evolves
nothing lays nothing aside, and the report comes only when the team is about to leave
(`StepReport`).

For the event hooks, for every number of threads, all functions, dependencies and
bindings and any number of calls:

| Module | Theorem | States |
|---|---|---|
| `EventHooks_proofs` | `SortIsTopological` | for any objects and dependencies, the sort permutes the objects, and each that it counts as ordered comes after all that it waits for |
| | `SortIsComplete` | if no object waits for itself, at any remove, it orders all |
| | `TypeCorrect` | `Spec => []TypeOK` |
| | `ListHoldsWhatIsHooked` | `Spec => []ListIsWhatWasHooked` |
| | `InOrderUnlessStopped`, `AlwaysInOrder` | `Spec => [](error \/ DependenciesKept)`, `Satisfiable /\ Spec => []DependenciesKept` |
| | `GoesOn` | `Satisfiable /\ Spec => []NeverStops` |
| | `HookOfAWalkIsThere` | `Spec => []NoDanglingHook` |
| | `WalkCallsAll` | `Spec => []CallsAllThatIsHooked` |

The sort is a loop of swaps in a loop of rounds.  `InRound` is the invariant of the
inner one: what stands before the marker `j` stays, and what stands from there up to `k` has
been found, by the dependencies looked at so far, to wait for nothing behind `j`.  From it `Sorted`, the
invariant of the rounds, says that all before `k` are in order.  `RoundAdvances` says that
a round places something: of what is left, the object of the lowest rank is never swapped
(`Waitless`).  So `n + 1` rounds are enough, as the model assumes (`RoundsEnd`).
`ArrayOfDependencies` and `ResolvedList` carry this to lists of hooks: the list that
`resolveDependencies` leaves holds the same hooks and keeps all dependencies, and it stops the
program only if they cannot be kept.  The ranks of the hooks are those of their functions
(`Satisfiable`), so that the hooks of several threads under one label do no harm.

Of the event, `LockInv` says that who changes the list is alone with it, `AboutInv` that a
thread takes out only what it has hooked, `ListInv` that each hook is in the list once, and
`WalkedTo` what a walking thread has called at each place of the list: all the
active hooks before it, in order.  As no writer comes in while a thread walks
(`NobodyWalks`), its place and what it has called stay right.

For the lock and the tables, for every number of threads (at least one), all
populations, luminosities and calls:

| Module | Theorem | States |
|---|---|---|
| `ReadWriteLock_proofs` | `LockTypeCorrect` | `LockSpec => []LockTypeOK` |
| | `SlotsAsPlaces` | `LockSpec => []HoldsItsSlots` |
| | `WaitingInOrder` | `LockSpec => []WaitsInOrder` |
| | `IsReadersWriter` | `LockSpec => ActsAsReadersWriter` |
| `LuminosityTable_proofs` | `TablesStill` | `Spec => StillWhileRead`: of the entries and the array, not of the accelerators, for which it is false (`SharedAccelerator.cfg`) |
| | `TableTypeCorrect`, `EntriesThere`, `NeverTwice`, `ShortcutSound` | `Spec => []TypeOK`, `[]InterpolatesInEntries`, `[]ComputedOnce`, `[]MaximumIsFilled` |

The invariant of the lock (`LockInv`) says which slots each thread holds; that a
writer holds all of them and a reader its own gives the exclusion, and a
step of the array is a step or a stutter of the abstract lock.  The table's steps
are steps of the lock (`StepsOfLock`), so that the lock's invariant and the
lemma `WriterIsAlone` carry over; the table's own invariant (`TableInv`)
says what is in the table for a thread at each place of its call.

For the stepper and its callers, for every set of steps, end time, number of
trials, troubles and changes, waits and orders up to 5:

| Module | Theorem | States |
|---|---|---|
| `OdeDriver_proofs` | `TypeCorrect` | `Spec => []TypeOK` |
| | `OrderChangesAreSmall` | `Spec => []NoLargeOrderChange`: the sanity check never ends the run |
| | `SolvesUpToTheEnd` | `Spec => []EndsInTime`: time stays within the end of the call |
| `OdeSteps_proofs` | `StepsGrowSlowly` | `Spec => []NoFivefoldIncrease` |
| | `PredictsFromTheSolution` | `Spec => []HistoryUnlessDisturbed`: columns of the solution alone if the stepper was told of everything and raised no order anew; if it did raise one, columns of this time and step still, with something foreign in them |
| | `SolvesTheEquations` | `Spec => []ReturnsTheSolution` |
| | `MatricesAreOfThisHistory` | `Spec => []MatricesOfThisHistory` |

The invariant `IInv` adds two parts to the types.  `OrderPart` relates the order of
the next step, that of the last step and the one in the backup: the last order is
near the next one, and the backup's is near the lower of the two.  The sanity check
speaks of the first pair only, which a restore replaces by the order and the backup.
`StepPart` says where the time and the steps are at each place of the solution.
`GrowthInv` is about what the driver may hand out next: the step kept for later
(`h`), the step being tried and those in the history and its backup are in
proportion at each place, whichever of the two histories the stepper will take as
its own (`Past`). `HistoryInv` is about the columns: as long as the stepper was told
of everything, at each place of the solution the matrix, or the backup that the next
call will go back to (`WillStand`), is of the solution at that time, in every column
that its order calls for, and nothing else is in it unless an order was raised anew
(`foreign`).  For that, the last correction must be that of the step just made
whenever a raise is done for the first time (`CorrectionStands`), and a column that
falls away must be of the same step as those into which it goes (`ReorderedStands`).
The solution that is returned is then that at the end of the last step. `OwnInv`
follows the two marks of the matrices through restores and resets: a matrix that
would be used without being renewed is of this history.  A lemma for each kind of
record update (`Set...`, `With...`) keeps the steps short.

For the file locks, where they belong to the process (`~OFD`), for all threads,
processes and files:

| Module | Theorem | States |
|---|---|---|
| `FileLock_proofs` | `TypeCorrect` | `~OFD /\ Spec => []TypeOK` |
| | `LocksExclude` | `~OFD /\ Spec => []HoldersAgree` |
| | `LocksLast` | `~OFD /\ Spec => []HeldIsLocked` |
| | `AreReadersWriters` | `~OFD /\ Spec => ActsAsFileLocks` |

`OneInside` is the core of the invariant: a thread between the OpenMP lock and its
release, or with locks, is the one that has its process's OpenMP lock, and its
count is the number of its locks and the one in progress.  From it two threads
inside are of two processes (`Alone`), so that no close takes another's lock; and
no number is reused between a close and the unlock that follows it
(`StillClosed`).  With locks of the open file description the exclusion fails
(`unlocked_twice`), and there is no theorem.

`ActsAsFileLocks` then follows action by action (`Seen`): for each file the calls of
the system and of OpenMP that change who holds its lock are steps of a
`ReadersWriter` of its own, and all others leave it alone.

Only model-checked: the coefficients of the corrector, which TLC evaluates for all
orders and small steps; and whatever must happen at last (`Termination`,
`Completion`, `DeadlockReported`, `CallsEnd`, `Ends`), as fairness is out of the
prover's reach.  So is induction over data with the library's theorems, which take
an operator as their parameter; where a loop had to be followed
(`EventHooks_proofs`) the induction is one over a set of numbers, of which the
library's `WFMin` gives a least one.

## 7. Not modelled

* The single-forest mode, the `status` argument and the wall-time limit of the task:
  section 2.
* The inside of one evolver call beyond what the task sees: section 2.
* What a data race on the interpolation accelerators leaves in memory (`OwnInterval`
  speaks of the interval only); `ompLock`'s owner, which nothing asks for; the
  incremental lock, which only a test uses.
* Of the solver: the numbers, in the adjustment of the columns when the order
  changes as well; solvers without a Jacobian; the wall-time limit; memory (the
  stepper is not freed completely if an allocation fails, and a driver is left
  behind by each trial that fails).
* `lu.c`, of which nothing is called; `hyperg_2F1.c`, a series in floating point
  without state; the wrappers of C and C++ libraries, which hand their arguments on.
* File locks of systems that have none (`ENOSYS`).
* MPI: trees cannot be suspended under MPI (line 982), so the passes of the model do
  not arise there.
* Physics, numerics, input and output formats: real numbers and external libraries.
