------------------------------- MODULE OdeDriver -------------------------------
(***************************************************************************)
(* One solution of the differential equations of a node, from time 0 to    *)
(* EndTime: the trials of source/merger_trees.node_evolver.standard.F90,   *)
(* the loop of ODEIV2_Solve (source/numerical.ODE_solver.ODEIV2.F90), the  *)
(* driver's loop (source/gslODEInitVal2/driver2.c), the evolve object of   *)
(* GSL, the step control (cscal2.c) and the stepper of MsbdfActive.        *)
(*                                                                         *)
(* The function of the system may fail, or interrupt: the first time that  *)
(* the node's components ask for it, and again only for an earlier time.   *)
(* After a step the components may change the solution (postStep), and the *)
(* inactive properties are integrated over the step from what the stepper  *)
(* tells of it (latentIntegrator).                                         *)
(***************************************************************************)
EXTENDS MsbdfActive

CONSTANTS
  EndTime,     \* timeEnd, in ticks from the start
  StepSizes,   \* the steps that the node and the step control may suggest
  MaxTrials,   \* standardTrialCountMaximum
  Outcomes,    \* what may go wrong with a step, see Troubles
  MaxTroubles, \* bound: how many steps do not come to be
  MaxChanges   \* bound: how often a post-step task changes the solution

(* The function or the iteration fails; the matrix is singular; the function
   asks for an interrupt. *)
Troubles == {"fails", "singular", "interrupts"}

ASSUME DriverAssumption ==
  /\ EndTime \in Nat \ {0}
  /\ StepSizes \subseteq Nat \ {0} /\ StepSizes # {}
  /\ MaxTrials \in Nat \ {0}
  /\ MaxTroubles \in Nat /\ MaxChanges \in Nat
  /\ Outcomes \subseteq Troubles

VARIABLES
  pc,      \* where the solution is
  x, x1,   \* t and t1 of the driver: x and x1Internal
  h,       \* the driver's step, d->h
  h0,      \* the step being tried
  final,   \* final_step: whether it is to end at x1
  y, y0,   \* what the solution vector and its copy are the solution of
  dydtIn, dydtOut, \* what the derivatives are derivatives of
  count,   \* whether the evolve object has made a step since its reset
  timeStep, \* the step that the node suggests
  trial,   \* trialCount
  interrupt, \* timeInterruptFirst, NaN until there is one
  interrupted, \* whether it was found in this trial: x1 is that time
  troubles, \* the steps, so far, that did not come to be
  changes, \* history: how often the solution was changed in this trial
  disturbed, \* history: the stepper was left without word of what happened
  reraised \* history: since it started, an order above 2 was raised anew

solveVars == <<pc, x, x1, h, h0, final, y, y0, dydtIn, dydtOut, count, timeStep, trial,
               interrupt, interrupted, troubles, changes, disturbed, reraised>>

vars == <<stepperVars, solveVars>>

NoPoint == [at |-> NaN, change |-> 0]

Smaller(a, b) == IF a < b THEN a ELSE b

(* Each trial has a new driver and starts from the values saved; the first
   interrupt found is kept from one to the next. *)
Init ==
  /\ state = Allocated /\ ord = 1
  /\ pc = "loop"
  /\ x = 0 /\ x1 = EndTime
  /\ timeStep \in StepSizes /\ h = Smaller(timeStep, EndTime)
  /\ h0 = 0 /\ final = FALSE
  /\ y = [at |-> 0, change |-> 0] /\ y0 = y
  /\ dydtIn = NoPoint /\ dydtOut = NoPoint
  /\ count = FALSE
  /\ trial = 1
  /\ interrupt = NaN /\ interrupted = FALSE
  /\ troubles = 0
  /\ changes = 0 /\ disturbed = FALSE /\ reraised = FALSE

(* "Stepsize is reduced by half on each successive trial", to a tick here. *)
Halved(step, k) ==
  LET half == step \div 2^k IN IF half \in 1 .. step THEN half ELSE 1

Retry ==
  /\ pc = "failed" /\ trial < MaxTrials
  /\ state' = Allocated /\ ord' = 1
  /\ pc' = "loop"
  /\ x' = 0 /\ x1' = EndTime
  /\ h' = Smaller(Halved(timeStep, trial), EndTime)
  /\ y' = [at |-> 0, change |-> 0]
  /\ dydtIn' = NoPoint /\ dydtOut' = NoPoint
  /\ count' = FALSE
  /\ trial' = trial + 1
  /\ interrupted' = FALSE
  /\ changes' = 0 /\ disturbed' = FALSE /\ reraised' = FALSE
  /\ UNCHANGED <<h0, final, y0, timeStep, interrupt, troubles>>

(* standardODEs asks for an interrupt once, and again for an earlier time.
   ODEIV2_Solve then calls the driver anew with that time as the end.  It
   would start again from the values saved were x beyond it, but the function
   is never called for a time before x. *)
Interrupts(t) ==
  /\ "interrupts" \in Outcomes
  /\ interrupt # NaN => t < interrupt
  /\ interrupt' = t /\ interrupted' = TRUE /\ x1' = t
  /\ pc' = "loop"

Trouble == troubles < MaxTroubles /\ troubles' = troubles + 1

(* The driver has come to t1. *)
Finish ==
  /\ pc = "loop" /\ x >= x1
  /\ pc' = "done"
  /\ UNCHANGED <<stepperVars, x, x1, h, h0, final, y, y0, dydtIn, dydtOut, count,
                 timeStep, trial, interrupt, interrupted, troubles, changes, disturbed,
                 reraised>>

-----------------------------------------------------------------------------
(* gsl_odeiv2_evolve_apply: the derivatives at the start are calculated, or
   are those at the end of the last step; the step is cut at t1. *)
EvolveBeginUncut ==  \* mutant: the step is not cut
  /\ pc = "loop" /\ x < x1
  /\ y0' = y
  /\ dydtIn' = IF count THEN dydtOut ELSE y
  /\ h0' = h /\ final' = FALSE
  /\ pc' = "try"
  /\ UNCHANGED <<stepperVars, x, x1, h, y, dydtOut, count, timeStep, trial,
                 interrupt, interrupted, troubles, changes, disturbed, reraised>>
EvolveBegin ==
  /\ pc = "loop" /\ x < x1
  /\ y0' = y
  /\ dydtIn' = IF count THEN dydtOut ELSE y
  /\ h0' = Smaller(h, x1 - x) /\ final' = (h > x1 - x)
  /\ pc' = "try"
  /\ UNCHANGED <<stepperVars, x, x1, h, y, dydtOut, count, timeStep, trial,
                 interrupt, interrupted, troubles, changes, disturbed, reraised>>

(* The derivatives at the start cannot be had. *)
EvolveBeginInterrupted ==
  /\ pc = "loop" /\ x < x1 /\ ~count
  /\ Trouble
  /\ y0' = y
  /\ Interrupts(x)
  /\ UNCHANGED <<stepperVars, x, h, h0, final, y, dydtIn, dydtOut, count, timeStep,
                 trial, changes, disturbed, reraised>>

EvolveBeginFails ==
  /\ pc = "loop" /\ x < x1 /\ ~count
  /\ Trouble
  /\ "fails" \in Outcomes
  /\ y0' = y
  /\ pc' = "failed"
  /\ UNCHANGED <<stepperVars, x, x1, h, h0, final, y, dydtIn, dydtOut, count, timeStep,
                 trial, interrupt, interrupted, changes, disturbed, reraised>>

(* A raise is done again after the step that it was for did not come to be;
   the correction is then not that of the step before it. *)
RaisedAnew(s, o) == o > 2 /\ o = First(s.ordprev) + 1 /\ s.failcount > 0

(* The stepper is called; its sanity check ends the run. *)
Try ==
  /\ pc = "try"
  /\ Prepare(x, h0, y, dydtIn)
  /\ pc' = IF LargeOrderChange(state', ord') THEN "aborted" ELSE "predict"
  /\ reraised' = (state'.ni > 0 /\ (reraised \/ RaisedAnew(state', ord')))
  /\ UNCHANGED <<x, x1, h, h0, final, y, y0, dydtIn, dydtOut, count, timeStep, trial,
                 interrupt, interrupted, troubles, changes, disturbed>>

(* A step that failed is tried with half its size, as long as that is still a
   tick. *)
TryHalfToNothing ==  \* mutant: never mind the tick
  /\ h0' = h0 \div 2 /\ pc' = "try"
  /\ final' = FALSE
  /\ y' = y0
  /\ UNCHANGED <<x, x1, h, y0, dydtIn, count, timeStep, trial, interrupt, interrupted,
                 changes, reraised>>
TryHalf ==
  /\ IF h0 > 1 THEN h0' = h0 \div 2 /\ pc' = "try" /\ UNCHANGED h
     ELSE h' = 0 /\ pc' = "failed" /\ UNCHANGED h0
  /\ final' = FALSE
  /\ y' = y0
  /\ UNCHANGED <<x, x1, y0, dydtIn, count, timeStep, trial, interrupt, interrupted,
                 changes, reraised>>

StepFails ==
  /\ pc = "predict" /\ "fails" \in Outcomes
  /\ Trouble
  /\ \/ CorrectorFails(x, h0) /\ UNCHANGED dydtOut
     \/ OutputFails(x, h0) /\ dydtOut' = NoPoint
  /\ TryHalf
  /\ UNCHANGED disturbed

(* The stepper is not told that the step is to be tried again. *)
StepSingular ==
  /\ pc = "predict" /\ "singular" \in Outcomes
  /\ Trouble
  /\ CorrectorSingular(x, h0)
  /\ TryHalf
  /\ disturbed' = (disturbed \/ state.ni > 0)
  /\ UNCHANGED dydtOut

(* Neither is it when the function interrupts, which ends the call of the
   driver: what is left is as the step made it, unless the stepper is to start
   from y anyway. *)
StepInterrupted ==
  /\ pc = "predict"
  /\ Trouble
  /\ \/ CorrectorInterrupted(x, h0) /\ UNCHANGED dydtOut
     \/ OutputInterrupted(x, h0) /\ dydtOut' = NoPoint
  /\ Interrupts(x + h0)
  /\ disturbed' = (disturbed \/ state.ni > 0 \/ count)
  /\ UNCHANGED <<x, h, h0, final, y, y0, dydtIn, count, timeStep, trial, changes,
                 reraised>>

StepMade ==
  /\ pc = "predict"
  /\ StepSucceeds(x, h0)
  /\ y' = [at |-> state'.z[0].at, change |-> state'.z[0].change]
  /\ dydtOut' = y'
  /\ count' = TRUE
  /\ pc' = "judge"
  /\ UNCHANGED <<x, x1, h, h0, final, y0, dydtIn, timeStep, trial, interrupt,
                 interrupted, troubles, changes, disturbed, reraised>>

-----------------------------------------------------------------------------
(* sc2_control_hadjust: a step whose errors are too large is to shrink, to a
   fifth at most, *)
ShrinkTo(step) == {s \in StepSizes : s < step /\ 5 * s >= step}

(* and after a step with small errors the next may grow, to 4.9 times as much:
   "for an increase of precisely 5.0 the msbdf stepper algorithm can fail". *)
GrowToFivefold(step) ==  \* mutant: the limit of GSL
  {step} \cup {s \in StepSizes : s > step /\ s <= 5 * step}
GrowTo(step) == {step} \cup {s \in StepSizes : s > step /\ 10 * s <= 49 * step}

Reject ==
  /\ pc = "judge"
  /\ Trouble
  /\ \E step \in ShrinkTo(h0) : h0' = step
  /\ final' = FALSE
  /\ y' = y0
  /\ pc' = "try"
  /\ UNCHANGED <<stepperVars, x, x1, h, y0, dydtIn, dydtOut, count, timeStep, trial,
                 interrupt, interrupted, changes, disturbed, reraised>>

(* A fifth of two ticks does not change the time any more. *)
GiveUp ==
  /\ pc = "judge" /\ h0 <= 2
  /\ Trouble
  /\ h' = 0
  /\ pc' = "failed"
  /\ UNCHANGED <<stepperVars, x, x1, h0, final, y, y0, dydtIn, dydtOut, count, timeStep,
                 trial, interrupt, interrupted, changes, disturbed, reraised>>

(* The step is good.  One that was cut says nothing of the next one. *)
Accept ==
  /\ pc = "judge"
  /\ x' = IF final THEN x1 ELSE x + h0
  /\ IF final THEN UNCHANGED h ELSE h' \in GrowTo(h0)
  /\ pc' = "poststep"
  /\ UNCHANGED <<stepperVars, x1, h0, final, y, y0, dydtIn, dydtOut, count, timeStep,
                 trial, interrupt, interrupted, troubles, changes, disturbed, reraised>>

(* gsl_odeiv2_driver2_apply lets the components see the solution; if they
   change it the evolve object is reset, and not the stepper. *)
PostStep ==
  /\ pc = "poststep"
  /\ \E change \in BOOLEAN :
       IF change
       THEN /\ changes < MaxChanges
            /\ y' = [y EXCEPT !.change = @ + 1]
            /\ changes' = changes + 1
            /\ count' = FALSE
            /\ disturbed' = TRUE
       ELSE UNCHANGED <<y, changes, count, disturbed>>
  /\ pc' = "latent"
  /\ UNCHANGED <<stepperVars, x, x1, h, h0, final, y0, dydtIn, dydtOut, timeStep, trial,
                 interrupt, interrupted, troubles, reraised>>

(* The latent variables are integrated over the step, which only reads.  The
   limits that the driver then looks at (nmax, hmax, hmin) are never set. *)
LatentIntegrate ==
  /\ pc = "latent"
  /\ pc' = "loop"
  /\ UNCHANGED <<stepperVars, x, x1, h, h0, final, y, y0, dydtIn, dydtOut, count,
                 timeStep, trial, interrupt, interrupted, troubles, changes, disturbed,
                 reraised>>

Next ==
  \/ Finish \/ Retry
  \/ EvolveBegin \/ EvolveBeginInterrupted \/ EvolveBeginFails
  \/ Try \/ StepFails \/ StepSingular \/ StepInterrupted \/ StepMade
  \/ Reject \/ GiveUp \/ Accept
  \/ PostStep \/ LatentIntegrate

Spec == Init /\ [][Next]_vars

(* The program goes on as long as it can. *)
FairSpec == Spec /\ WF_vars(Next)

-----------------------------------------------------------------------------
StepperTypeOK == state \in States /\ ord \in Orders

SolveTypeOK ==
  /\ pc \in {"loop", "try", "predict", "judge", "poststep", "latent",
             "done", "failed", "aborted"}
  /\ x \in 0 .. EndTime /\ x1 \in 0 .. EndTime
  /\ h \in Nat /\ h0 \in Nat /\ final \in BOOLEAN
  /\ y \in Points /\ y0 \in Points /\ dydtIn \in Points /\ dydtOut \in Points
  /\ count \in BOOLEAN
  /\ timeStep \in StepSizes /\ trial \in 1 .. MaxTrials
  /\ interrupt \in Times /\ interrupted \in BOOLEAN
  /\ troubles \in 0 .. MaxTroubles /\ changes \in Nat
  /\ disturbed \in BOOLEAN /\ reraised \in BOOLEAN

TypeOK == StepperTypeOK /\ SolveTypeOK

(* The sanity check of msbdfactive_apply never fails: however steps fail, are
   rejected, restored and reset, the order to take is within one of the order
   of the last step that the matrix is for. *)
NoLargeOrderChange == pc # "aborted"

(* The column that a raise of the order adds. *)
Raised(j) == j = ord /\ ord = First(state.ordprev) + 1

(* Column j is of the solution here and now, in units of this step. *)
InHistory(j) ==
  /\ state.z[j].at = x
  /\ state.z[j].change = changes
  /\ j > 0 => state.z[j].step = h0

(* "previous state will be restored or the method will be reset": each step is
   predicted from the solution at the time where it starts, and nothing of a
   step that was given up. *)
HistoryOfTheSolution ==
  pc = "predict" =>
    \A j \in 0 .. ord :
      \/ InHistory(j) /\ state.z[j].own
      \/ Raised(j) /\ IsZero(state.z[j])

(* That is so as long as the stepper is told of what happens (no interrupt or
   singular matrix in a step after the first, no change of the solution) and
   does not raise its order anew after a step that did not come to be, which
   it does with the correction of that step.  If it does, until it starts anew,
   the columns are still those of this time and step, but for the one added,
   with something foreign in them (msbdfactive.c:1435-1446). *)
HistoryUnlessDisturbed ==
  pc = "predict" /\ ~disturbed =>
    \A j \in 0 .. ord :
      \/ InHistory(j) /\ (state.z[j].own \/ reraised)
      \/ Raised(j) /\ (IsZero(state.z[j]) \/ reraised)

(* The matrices that the corrector used were made from a Jacobian of this
   history, and not of one that was given up. *)
MatricesOfThisHistory == pc = "judge" => state.ownJacobian /\ state.ownM

(* A step is never five times the last one, or more: the leading coefficient
   of order 3 would vanish. *)
NoFivefoldIncrease ==
  pc = "predict" /\ state.ni > 0 => h0 < 5 * First(state.hprev)

(* What the solver returns: the solution at the end or at the first interrupt
   that this trial met, unless something went unnoticed. *)
ReturnsTheSolution ==
  /\ interrupted => x <= interrupt
  /\ pc = "done" =>
       /\ x = IF interrupted THEN interrupt ELSE EndTime
       /\ ~disturbed => y = [at |-> x, change |-> changes]

(* The latent variables are integrated with the solution of the step just
   made: the matrix "stores the coefficients of the Taylor expansion of the
   function around the current time". *)
ContextOfTheSolution ==
  pc = "latent" =>
    \A j \in 0 .. state.ord :
      \/ IsZero(state.z[j])
      \/ /\ state.z[j].at = x
         /\ j > 0 => state.z[j].step = First(state.hprev)

(* Every solution comes to an end. *)
Ends == <>(pc \in {"done", "failed"} /\ (pc = "failed" => trial = MaxTrials))
=============================================================================
