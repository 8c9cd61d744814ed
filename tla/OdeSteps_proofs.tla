---------------------------- MODULE OdeSteps_proofs ----------------------------
(***************************************************************************)
(* The stepper never takes a step of five times the last one, whatever was *)
(* rejected, failed or interrupted in between.  The step control sees only *)
(* the step that it accepted; what the stepper compares with is what it    *)
(* restored or kept.  The proof shows that the two agree: that a step that *)
(* is tried again is always told from the time, so that the steps behind   *)
(* it are put back.                                                        *)
(*                                                                         *)
(* The second part is about the columns.  A step is predicted from columns *)
(* that are all of the solution at the time where it starts, as long as    *)
(* the stepper was told of everything, and then what the driver returns is *)
(* the solution at the time that it was asked for.                         *)
(*                                                                         *)
(* The third part is about the matrices.  The corrector never uses a       *)
(* Jacobian, or a matrix made from one, that belongs to a history that was *)
(* given up: whatever restarts the stepper also sets the counters that ask *)
(* for new ones.                                                           *)
(***************************************************************************)
EXTENDS OdeDriver_proofs

(* What the stepper remembers is not of the future, *)
Past(s, t) == (s.tprev # NaN => s.tprev <= t) /\ (s.failt # NaN => s.failt <= t)

(* the step of the driver is less than five times the last one, *)
Bounded(step, a) == step < 5 * First(a)

(* if that is the one that the stepper will go back to, *)
WillBeBounded(s, t, step) ==
  IF Rejected(s, t) THEN s.ni = 2 => Bounded(step, s.hprevbackup)
  ELSE s.ni > 0 => Bounded(step, s.hprev)

(* or that it is at now. *)
IsBounded(s, step) ==
  s.ni > 0 => Bounded(step, s.hprev) /\ s.hprevbackup = s.hprev

GrowthInv ==
  /\ pc # "failed" => Past(state, x)
  /\ pc \in {"try", "predict", "judge"} => h0 <= h
  /\ pc \in {"loop", "poststep", "latent"} /\ x < x1 => WillBeBounded(state, x, h)
  /\ pc = "try" => WillBeBounded(state, x, h)
  /\ pc = "predict" => IsBounded(state, h)
  /\ pc = "judge" =>
       /\ state.ni > 0 /\ state.tprev = x /\ First(state.hprev) = h0
       /\ state.ni = 2 => Bounded(h, state.hprevbackup)

(* The types that the steps below use. *)
LEMMA Numbers ==
  ASSUME IInv
  PROVE  /\ state \in States /\ ord \in Orders
         /\ x \in Nat /\ x1 \in Nat /\ h \in Nat /\ h0 \in Nat /\ x <= x1
         /\ state.ni \in 0 .. 2 /\ state.tprev \in Times /\ state.failt \in Times
         /\ First(state.hprev) \in Nat /\ First(state.hprevbackup) \in Nat
<1>1. /\ state \in States /\ ord \in Orders
      /\ x \in Nat /\ x1 \in Nat /\ h \in Nat /\ h0 \in Nat /\ x <= x1
  BY DriverAssumption DEF IInv, SolveTypeOK, StepPart
<1>2. /\ state.ni \in 0 .. 2 /\ state.tprev \in Times /\ state.failt \in Times
      /\ state.hprev \in [Orders -> Nat] /\ state.hprevbackup \in [Orders -> Nat]
  BY <1>1, Zenon, Fields
<1> QED BY <1>1, <1>2, OrdersAreSmall DEF First

(* A stepper that starts anew is bounded by nothing. *)
LEMMA FreshIsBounded ==
  ASSUME NEW s, NEW t, NEW step, Fresh(s)
  PROVE  /\ Past(s, t) /\ WillBeBounded(s, t, step) /\ IsBounded(s, step)
BY DEF Fresh, Past, WillBeBounded, IsBounded, Rejected

(* A stepper that stands where its backup is goes back to where it is. *)
LEMMA IsThenWillBe ==
  ASSUME NEW s \in States, NEW t, NEW step, IsBounded(s, step)
  PROVE  WillBeBounded(s, t, step)
<1>1. s.ni \in 0 .. 2 BY Fields, Zenon
<1> QED BY <1>1 DEF IsBounded, WillBeBounded

LEMMA InitGrowth == Init => GrowthInv
<1> SUFFICES ASSUME Init PROVE GrowthInv
  OBVIOUS
<1>1. pc = "loop" /\ Fresh(state)
  BY DEF Init, Allocated, Fresh
<1> QED BY <1>1, FreshIsBounded DEF GrowthInv

LEMMA RetryGrowth == Retry => GrowthInv'
<1> SUFFICES ASSUME Retry PROVE GrowthInv'
  OBVIOUS
<1>1. pc' = "loop" /\ Fresh(state')
  BY DEF Retry, Allocated, Fresh
<1> QED BY <1>1, FreshIsBounded DEF GrowthInv

(* The actions of the driver that leave the time and its step. *)
LEMMA QuietGrowth ==
  ASSUME IInv, GrowthInv,
         \/ Finish \/ EvolveBeginInterrupted \/ EvolveBeginFails \/ GiveUp
         \/ PostStep \/ LatentIntegrate \/ UNCHANGED vars
  PROVE  GrowthInv'
<1>1. CASE Finish \/ EvolveBeginFails \/ GiveUp
  <2>1. state' = state /\ x' = x /\ pc' \in {"done", "failed"} /\ (Finish => pc = "loop")
        /\ (pc' = "done" => pc = "loop")
    BY <1>1 DEF Finish, EvolveBeginFails, GiveUp, stepperVars
  <2> QED BY <2>1 DEF GrowthInv
<1>2. CASE EvolveBeginInterrupted
  <2>1. state' = state /\ x' = x /\ x1' = x /\ pc' = "loop" /\ pc = "loop"
    BY <1>2 DEF EvolveBeginInterrupted, Interrupts, stepperVars
  <2> QED BY <2>1, Numbers DEF GrowthInv
<1>3. CASE PostStep \/ LatentIntegrate
  <2>1. /\ state' = state /\ x' = x /\ x1' = x1 /\ h' = h
        /\ pc \in {"poststep", "latent"} /\ pc' \in {"latent", "loop"}
    BY <1>3 DEF PostStep, LatentIntegrate, stepperVars
  <2> QED BY <2>1 DEF GrowthInv
<1>4. CASE UNCHANGED vars
  BY <1>4 DEF vars, stepperVars, solveVars, GrowthInv
<1> QED BY <1>1, <1>2, <1>3, <1>4

LEMMA BeginGrowth == IInv /\ GrowthInv /\ EvolveBegin => GrowthInv'
<1> SUFFICES ASSUME IInv, GrowthInv, EvolveBegin PROVE GrowthInv'
  OBVIOUS
<1>1. /\ state' = state /\ x' = x /\ h' = h /\ pc = "loop" /\ pc' = "try" /\ x < x1
      /\ h0' = Smaller(h, x1 - x)
  BY DEF EvolveBegin, stepperVars
<1>2. h0' <= h'
  BY <1>1, Numbers DEF Smaller
<1> QED BY <1>1, <1>2 DEF GrowthInv

(* The stepper goes back to the steps that it will be bounded by. *)
LEMMA TryGrowth == IInv /\ GrowthInv /\ Try => GrowthInv'
<1> SUFFICES ASSUME IInv, GrowthInv, Try PROVE GrowthInv'
  OBVIOUS
<1>1. Fresh(state') \/ Continues(state', state, x)
  <2>1. x \in Nat /\ h0 \in Nat /\ y \in Points /\ dydtIn \in Points
    BY Numbers DEF IInv, SolveTypeOK
  <2>2. state \in States /\ OrderInv(state) /\ Prepare(x, h0, y, dydtIn)
    BY DEF IInv, OrderPart, Try
  <2> QED BY <2>1, <2>2, PrepareOK
<1>2. /\ x' = x /\ h' = h /\ h0' = h0 /\ pc = "try" /\ pc' \in {"predict", "aborted"}
  BY DEF Try
<1>3. Past(state', x) /\ IsBounded(state', h)
  <2>1. CASE Fresh(state')
    BY <2>1, FreshIsBounded
  <2>2. CASE Continues(state', state, x)
    <3>1. Past(state, x) /\ WillBeBounded(state, x, h)
      BY <1>2 DEF GrowthInv
    <3>2. Past(state', x)
      BY <2>2, <3>1, Zenon DEF Continues, Past
    <3>3. IsBounded(state', h)
      BY <2>2, <3>1 DEF Continues, WillBeBounded, IsBounded
    <3> QED BY <3>2, <3>3
  <2> QED BY <1>1, <2>1, <2>2
<1> QED BY <1>2, <1>3 DEF GrowthInv

(* A rejected step is told from the start of the last step, *)
LEMMA RejectGrowth == IInv /\ GrowthInv /\ Reject => GrowthInv'
<1> SUFFICES ASSUME IInv, GrowthInv, Reject PROVE GrowthInv'
  OBVIOUS
<1>1. /\ state' = state /\ x' = x /\ h' = h /\ pc = "judge" /\ pc' = "try"
      /\ h0' \in StepSizes /\ h0' < h0
  BY Zenon DEF Reject, ShrinkTo, stepperVars
<1>2. h0' <= h'
  <2>1. h0' \in Nat BY <1>1, DriverAssumption
  <2>2. h0' < h0 /\ h0 <= h /\ h' = h BY <1>1 DEF GrowthInv
  <2>3. \A a, b, c \in Nat : a < b /\ b <= c => a <= c OBVIOUS
  <2> QED BY <2>1, <2>2, <2>3, Numbers
<1>3. Rejected(state, x) /\ (state.ni = 2 => Bounded(h, state.hprevbackup))
  BY <1>1 DEF GrowthInv, Rejected
<1>4. WillBeBounded(state, x, h)
  BY <1>3, Zenon DEF WillBeBounded
<1> QED BY <1>1, <1>2, <1>4 DEF GrowthInv

(* and the next one, at a later time, is not taken for it. *)
LEMMA AcceptGrowth == IInv /\ GrowthInv /\ Accept => GrowthInv'
<1> SUFFICES ASSUME IInv, GrowthInv, Accept PROVE GrowthInv'
  OBVIOUS
<1>1. /\ state' = state /\ x1' = x1 /\ pc = "judge" /\ pc' = "poststep"
      /\ x' = IF final THEN x1 ELSE x + h0
      /\ ~final => h' \in GrowTo(h0)
  BY DEF Accept, stepperVars
<1>2. h0 > 0 /\ x + h0 <= x1
  BY <1>1 DEF IInv, StepPart
<1>3. x' \in Nat /\ x' > x
  BY <1>1, <1>2, Numbers
<1>4. Past(state, x) /\ state.ni > 0 /\ First(state.hprev) = h0
  BY <1>1 DEF GrowthInv
<1>5. state.tprev # x' /\ state.failt # x' /\ Past(state, x')
  BY <1>3, <1>4, Numbers, StepperAssumption DEF Past, Times
<1>6. ASSUME x' < x1 PROVE WillBeBounded(state, x', h')
  <2>1. ~final
    BY <1>1, <1>6, Numbers
  <2>2. h' \in Nat /\ 10 * h' <= 49 * h0
    <3>1. h' = h0 \/ (h' \in StepSizes /\ 10 * h' <= 49 * h0)
      BY <1>1, <2>1, Zenon DEF GrowTo
    <3>2. CASE h' = h0
      BY <3>2, Numbers
    <3>3. CASE h' \in StepSizes /\ 10 * h' <= 49 * h0
      BY <3>3, DriverAssumption
    <3> QED BY <3>1, <3>2, <3>3
  <2>3. h' < 5 * h0
    BY <1>2, <2>2, Numbers
  <2> QED BY <1>4, <1>5, <2>3 DEF WillBeBounded, Bounded, Rejected
<1> QED BY <1>1, <1>5, <1>6 DEF GrowthInv

(* A step that does not come to be leaves the last steps as they were. *)
LEMMA FailureGrowth ==
  ASSUME IInv, GrowthInv, StepFails \/ StepSingular \/ StepInterrupted
  PROVE  GrowthInv'
<1> DEFINE c(updated) == Corrected(state, ord, x, h0, updated)
           d == Converged(state, ord, x, h0)
<1>1. /\ state \in States /\ ord \in Orders /\ x \in Nat /\ h0 \in Nat
      /\ OrderInv(state) /\ Ready(state) /\ pc = "predict"
      /\ Past(state, x) /\ IsBounded(state, h) /\ h0 <= h
  BY Numbers DEF IInv, OrderPart, GrowthInv, StepFails, StepSingular, StepInterrupted
<1>2. \A updated \in BOOLEAN :
        /\ c(updated) \in States /\ SameHistory(c(updated), state)
        /\ OrderInv(c(updated)) /\ Ready(c(updated))
  BY <1>1, CorrectedOK, SameInv
<1>3. d \in States /\ SameHistory(d, state) /\ OrderInv(d) /\ Ready(d)
  BY <1>1, ConvergedOK, SameInv
<1> DEFINE left == {c(TRUE), c(FALSE), d}
<1>4. \E s \in left :
        state' = s \/ state' = FailureHandler(s, x)
  <2>1. \/ CorrectorFails(x, h0) \/ OutputFails(x, h0) \/ CorrectorSingular(x, h0)
        \/ CorrectorInterrupted(x, h0) \/ OutputInterrupted(x, h0)
    BY Zenon DEF StepFails, StepSingular, StepInterrupted
  <2>2. \/ \E updated \in BOOLEAN : \/ state' = FailureHandler(c(updated), x)
                                    \/ state' = c(updated)
        \/ state' = FailureHandler(d, x)
        \/ state' = d
    BY <2>1, Zenon
    DEF CorrectorFails, OutputFails, CorrectorSingular, CorrectorInterrupted,
        OutputInterrupted
  <2> HIDE DEF c, d
  <2> QED BY <2>2
<1>5. \A s \in left : s \in States /\ SameHistory(s, state) /\ OrderInv(s) /\ Ready(s)
  <2> HIDE DEF c, d
  <2> QED BY <1>2, <1>3
<1> HIDE DEF left
<1>6. state' \in States /\ Past(state', x) /\ IsBounded(state', h)
  <2>1. PICK s \in left : state' = s \/ state' = FailureHandler(s, x)
    BY <1>4
  <2>2. s \in States /\ SameHistory(s, state) /\ OrderInv(s) /\ Ready(s)
    BY <1>5, <2>1
  <2>3. Past(s, x) /\ IsBounded(s, h)
    BY <1>1, <2>2, Zenon DEF SameHistory, Past, IsBounded
  <2>4. CASE state' = s
    BY <2>2, <2>3, <2>4
  <2>5. CASE state' = FailureHandler(s, x)
    <3> DEFINE f == FailureHandler(s, x)
    <3>1. /\ f \in States
          /\ \/ Fresh(f)
             \/ /\ f.ni = s.ni /\ f.hprev = s.hprev /\ f.hprevbackup = s.hprevbackup
                /\ f.tprev = s.tprev /\ f.failt = x
      BY <1>1, <2>2, FailureHandlerOK
    <3> HIDE DEF f
    <3>2. CASE Fresh(f)
      BY <2>5, <3>1, <3>2, FreshIsBounded DEF f
    <3>3. CASE ~Fresh(f)
      <4>1. Past(f, x)
        BY <1>1, <2>3, <3>1, <3>3 DEF Past
      <4>2. IsBounded(f, h)
        BY <2>3, <3>1, <3>3, Zenon DEF IsBounded
      <4> QED BY <2>5, <3>1, <4>1, <4>2 DEF f
    <3> QED BY <3>2, <3>3
  <2> QED BY <2>1, <2>4, <2>5
<1>7. WillBeBounded(state', x, h)
  BY <1>6, IsThenWillBe
<1>8. CASE StepInterrupted
  <2>1. pc' = "loop" /\ x' = x /\ h' = h
    BY <1>8 DEF StepInterrupted, Interrupts
  <2> QED BY <1>6, <1>7, <2>1 DEF GrowthInv
<1>9. CASE StepFails \/ StepSingular
  <2>1. TryHalf
    BY <1>9, Zenon DEF StepFails, StepSingular
  <2>2. /\ x' = x
        /\ \/ pc' = "try" /\ h' = h /\ h0' <= h
           \/ pc' = "failed"
    BY <1>1, <2>1, Numbers DEF TryHalf
  <2> QED BY <1>6, <1>7, <2>2 DEF GrowthInv
<1> QED BY <1>8, <1>9

LEMMA MadeGrowth == IInv /\ GrowthInv /\ StepMade => GrowthInv'
<1> SUFFICES ASSUME IInv, GrowthInv, StepMade PROVE GrowthInv'
  OBVIOUS
<1> DEFINE d == Converged(state, ord, x, h0)
<1>1. /\ state \in States /\ ord \in Orders /\ x \in Nat /\ h0 \in Nat
      /\ OrderInv(state) /\ Ready(state) /\ ord = state.ord /\ pc = "predict"
      /\ Past(state, x) /\ IsBounded(state, h) /\ h0 <= h /\ state.ni \in 0 .. 2
  BY Numbers DEF IInv, OrderPart, GrowthInv, StepMade
<1>2. d \in States /\ SameHistory(d, state) /\ OrderInv(d) /\ Ready(d) /\ d.ord = ord
  BY <1>1, ConvergedOK, SameInv DEF SameHistory
<1>3. StepSucceeds(x, h0) /\ pc' = "judge" /\ x' = x /\ h' = h /\ h0' = h0
  BY DEF StepMade
<1>4. PICK next \in NextOrders(d, d.ord) : state' = Taken(d, d.ord, x, h0, next)
  BY <1>2, <1>3, Zenon DEF StepSucceeds
<1> HIDE DEF d
<1>5. /\ First(state'.hprev) = h0 /\ state'.hprevbackup = state.hprevbackup
      /\ state'.tprev = x /\ state'.failt = state.failt
      /\ state'.ni = Counted(state.ni)
  <2>1. /\ First(state'.hprev) = h0 /\ state'.hprevbackup = d.hprevbackup
        /\ state'.tprev = x /\ state'.failt = d.failt
        /\ state'.ni = Counted(d.ni)
    BY <1>1, <1>2, <1>4, TakenOK
  <2> QED BY <1>2, <2>1, Zenon DEF SameHistory
<1>6. state'.ni > 0 /\ (state'.ni = 2 => state.ni > 0)
  BY <1>1, <1>5 DEF Counted
<1>7. state'.ni = 2 => Bounded(h, state'.hprevbackup)
  BY <1>1, <1>5, <1>6 DEF IsBounded
<1>8. Past(state', x)
  BY <1>1, <1>5 DEF Past
<1> QED BY <1>1, <1>3, <1>5, <1>6, <1>7, <1>8 DEF GrowthInv

LEMMA NextGrowth == IInv /\ GrowthInv /\ [Next]_vars => GrowthInv'
BY RetryGrowth, QuietGrowth, BeginGrowth, TryGrowth, RejectGrowth, AcceptGrowth,
   FailureGrowth, MadeGrowth, Zenon DEF Next

(* The promise of cscal2.c:135, "increase step, no more than factor of 4.9",
   holds of what the stepper takes, and not only of what the step control
   hands out: no step is five times the last one that the stepper has in its
   history, whatever came between them. *)
THEOREM StepsGrowSlowly == Spec => []NoFivefoldIncrease
<1>1. IInv /\ GrowthInv => NoFivefoldIncrease
  <2> SUFFICES ASSUME IInv, GrowthInv, pc = "predict", state.ni > 0
               PROVE  h0 < 5 * First(state.hprev)
    BY DEF NoFivefoldIncrease
  <2>1. h < 5 * First(state.hprev) /\ h0 <= h
    BY DEF GrowthInv, IsBounded, Bounded
  <2> QED BY <2>1, Numbers
<1> QED BY <1>1, InitInv, InitGrowth, NextStep, NextGrowth, PTL DEF Spec

-----------------------------------------------------------------------------
(* The history of the stepper is that of the solution. *)

(* Columns 0 to o of a matrix are of the solution at a time, after so many
   changes, and in units of a step, and nothing of another step is in them,
   unless something foreign was let in. *)
Holds(z, o, at, change, step, foreign) ==
  \A j \in 0 .. o :
    /\ z[j].at = at /\ z[j].change = change
    /\ j > 0 => z[j].step = step
    /\ z[j].own \/ foreign

(* The matrix of the stepper is such a matrix, or the one behind it is, *)
Stands(s, t, change, foreign) ==
  Holds(s.z, First(s.ordprev), t, change, First(s.hprev), foreign)

StandsBehind(s, t, change, foreign) ==
  Holds(s.zbackup, First(s.ordprevbackup), t, change, First(s.hprevbackup), foreign)

(* and the last correction is of the same step. *)
CorrectionStands(s, t, change, foreign) ==
  /\ s.abscor.at = t /\ s.abscor.change = change /\ s.abscor.step = First(s.hprev)
  /\ s.abscor.own \/ foreign

(* The next call starts from a matrix of the solution at that time, or from
   the solution itself. *)
WillStand(s, t, change, foreign) ==
  IF Rejected(s, t) THEN s.ni = 2 => StandsBehind(s, t, change, foreign)
  ELSE s.ni > 0 => Stands(s, t, change, foreign) /\ CorrectionStands(s, t, change, foreign)

(* What is not reset does not touch the backup of the matrix. *)
LEMMA BackupKept ==
  ASSUME NEW s \in States
  PROVE  /\ \A v : WithMatrix(s, v).zbackup = s.zbackup
         /\ \A v : WithCorrection(s, v).zbackup = s.zbackup
         /\ \A v : WithFailcount(s, v).zbackup = s.zbackup
         /\ \A v1, v2 : WithOrder(s, v1, v2).zbackup = s.zbackup
         /\ \A v1, v2, v3, v4 : WithUpdate(s, v1, v2, v3, v4).zbackup = s.zbackup
         /\ \A v1, v2, v3, v4 : WithFailure(s, v1, v2, v3, v4).zbackup = s.zbackup
         /\ \A v1, v2, v3, v4, v5, v6 :
              WithRestored(s, v1, v2, v3, v4, v5, v6).zbackup = s.zbackup
         /\ \A v1, v2, v3, v4, v5, v6, v7, v8, v9 :
              WithStep(s, v1, v2, v3, v4, v5, v6, v7, v8, v9).zbackup = s.zbackup
<1>1. /\ \A v : WithMatrix(s, v).zbackup = s.zbackup
      /\ \A v : WithCorrection(s, v).zbackup = s.zbackup
      /\ \A v : WithFailcount(s, v).zbackup = s.zbackup
  BY DEF States, WithMatrix, WithCorrection, WithFailcount
<1>2. /\ \A v1, v2 : WithOrder(s, v1, v2).zbackup = s.zbackup
      /\ \A v1, v2, v3, v4 : WithUpdate(s, v1, v2, v3, v4).zbackup = s.zbackup
      /\ \A v1, v2, v3, v4 : WithFailure(s, v1, v2, v3, v4).zbackup = s.zbackup
  BY DEF States, WithOrder, WithUpdate, WithFailure
<1>3. \A v1, v2, v3, v4, v5, v6 :
        WithRestored(s, v1, v2, v3, v4, v5, v6).zbackup = s.zbackup
  BY DEF States, WithRestored
<1>4. \A v1, v2, v3, v4, v5, v6, v7, v8, v9 :
        WithStep(s, v1, v2, v3, v4, v5, v6, v7, v8, v9).zbackup = s.zbackup
  BY DEF States, WithStep
<1> QED BY <1>1, <1>2, <1>3, <1>4, Zenon

(* The parts of a state that tell of its matrices of columns. *)
SameColumns(r, s) ==
  /\ r.z = s.z /\ r.ordprev = s.ordprev /\ r.hprev = s.hprev
  /\ r.zbackup = s.zbackup /\ r.ordprevbackup = s.ordprevbackup
  /\ r.hprevbackup = s.hprevbackup

LEMMA SameColumnsStand ==
  ASSUME NEW r, NEW s, NEW t, NEW change, NEW foreign, SameColumns(r, s)
  PROVE  /\ Stands(s, t, change, foreign) => Stands(r, t, change, foreign)
         /\ StandsBehind(s, t, change, foreign) => StandsBehind(r, t, change, foreign)
BY Zenon DEF SameColumns, Stands, StandsBehind

(* After a rejection the stepper stands where its backup is, and counts it. *)
LEMMA AfterRejectionStands ==
  ASSUME NEW s \in States, OrderInv(s), s.ni > 0, NEW t, NEW change, NEW foreign,
         s.ni = 2 => StandsBehind(s, t, change, foreign),
         AfterRejection(s).ni > 0
  PROVE  /\ Stands(AfterRejection(s), t, change, foreign)
         /\ StandsBehind(AfterRejection(s), t, change, foreign)
         /\ AfterRejection(s).failcount > 0
<1> DEFINE r == IF s.ni = 1 THEN Reset(s) ELSE Restored(s)
           c == [r EXCEPT !.failcount = @ + 1]
           a == AfterRejection(s)
<1>1. a = IF c.failcount > MaxFailCount /\ c.ni > 1 THEN Reset(c) ELSE c
  BY Zenon DEF AfterRejection
<1>2. s.ni \in 0 .. 2
  BY Fields, Zenon
<1>3. ASSUME s.ni = 1 PROVE FALSE
  <2>1. r = Reset(s) /\ r \in States /\ r.ni = 0
    BY <1>3, ResetOK DEF Fresh
  <2>2. c.ni = 0
    <3>1. r.failcount + 1 \in Nat BY <2>1, Fields
    <3> HIDE DEF r
    <3> QED BY <2>1, <3>1, UpdateFailcount DEF WithFailcount
  <2> HIDE DEF c
  <2>3. a = c
    BY <1>1, <2>2
  <2> QED BY <2>2, <2>3
<1>4. s.ni = 2
  BY <1>2, <1>3
<1> DEFINE f == Restored(s)
           lower == IF s.ord > First(s.ordprev) THEN First(s.ordprev) ELSE s.ord
<1>5. r = f
  BY <1>4
<1>6. f = WithRestored(s, lower, s.zbackup, s.hprevbackup, s.ordprevbackup,
                       s.ordwaitbackup, s.gammaprevbackup)
  BY Zenon DEF Restored, WithRestored
<1>7. lower \in Orders
  <2>1. s.ord \in Orders /\ s.ordprev[1] \in Orders BY Fields, Zenon
  <2> QED BY <2>1 DEF First
<1> HIDE DEF f, lower
<1>8. /\ f \in States
      /\ f.z = s.zbackup /\ f.ordprev = s.ordprevbackup /\ f.hprev = s.hprevbackup
      /\ f.zbackup = s.zbackup /\ f.ordprevbackup = s.ordprevbackup
      /\ f.hprevbackup = s.hprevbackup
  <2>1. /\ s.zbackup \in [0 .. MaxOrder -> Columns]
        /\ s.hprevbackup \in [Orders -> Nat]
        /\ s.ordprevbackup \in [Orders -> Orders]
        /\ s.ordwaitbackup \in Nat /\ s.gammaprevbackup \in Gammas
    BY Fields, Zenon
  <2>2. f.zbackup = s.zbackup
    <3>1. \A v1, v2, v3, v4, v5, v6 :
            WithRestored(s, v1, v2, v3, v4, v5, v6).zbackup = s.zbackup
      BY BackupKept
    <3> QED BY <1>6, <3>1
  <2> QED BY <1>6, <1>7, <2>1, <2>2, UpdateRestored
<1>9. Stands(f, t, change, foreign) /\ StandsBehind(f, t, change, foreign)
  BY <1>4, <1>8, Zenon DEF Stands, StandsBehind
<1>10. c \in States /\ SameColumns(c, f) /\ c.failcount > 0
  <2>1. c = WithFailcount(f, f.failcount + 1)
    BY <1>5, Zenon DEF WithFailcount
  <2>2. f.failcount + 1 \in Nat BY <1>8, Fields
  <2> HIDE DEF c
  <2>3. c.zbackup = f.zbackup
    <3>1. \A v : WithFailcount(f, v).zbackup = f.zbackup
      BY <1>8, BackupKept
    <3> QED BY <2>1, <3>1
  <2>4. f \in States
    BY <1>8
  <2>5. /\ c \in States
        /\ c.z = f.z /\ c.ordprev = f.ordprev /\ c.hprev = f.hprev
        /\ c.ordprevbackup = f.ordprevbackup /\ c.hprevbackup = f.hprevbackup
    BY <2>1, <2>2, <2>4, UpdateFailcount DEF WithFailcount
  <2>6. c.failcount > 0
    <3>1. c.failcount = f.failcount + 1
      BY <2>1, <2>4 DEF WithFailcount, States
    <3>2. f.failcount \in Nat
      BY <2>4, Fields
    <3> QED BY <3>1, <3>2
  <2> QED BY <2>3, <2>5, <2>6 DEF SameColumns
<1> HIDE DEF c
<1>11. a = c
  <2>1. c.failcount > MaxFailCount /\ c.ni > 1 => a.ni = 0
    BY <1>1, <1>10, ResetOK DEF Fresh
  <2> QED BY <1>1, <2>1
<1> QED BY <1>9, <1>10, <1>11, SameColumnsStand

LEMMA BegunStands ==
  ASSUME NEW s \in States, OrderInv(s), NEW t \in Nat, NEW change, NEW foreign,
         WillStand(s, t, change, foreign), Begun(s, t).ni > 0
  PROVE  /\ Stands(Begun(s, t), t, change, foreign)
         /\ StandsBehind(Begun(s, t), t, change, foreign)
         /\ Begun(s, t).failcount > 0 \/ CorrectionStands(Begun(s, t), t, change, foreign)
<1>1. CASE Rejected(s, t)
  <2>1. Begun(s, t) = AfterRejection(s) /\ s.ni > 0
    BY <1>1, Zenon DEF Begun, Rejected
  <2>2. s.ni = 2 => StandsBehind(s, t, change, foreign)
    BY <1>1, Zenon DEF WillStand
  <2> QED BY <2>1, <2>2, AfterRejectionStands
<1>2. CASE ~Rejected(s, t)
  <2> DEFINE b == Begun(s, t)
  <2>1. b = BackedUp(s)
    BY <1>2, Zenon DEF Begun
  <2>2. /\ b.ni = s.ni /\ b.z = s.z /\ b.ordprev = s.ordprev /\ b.hprev = s.hprev
        /\ b.zbackup = s.z /\ b.ordprevbackup = s.ordprev /\ b.hprevbackup = s.hprev
        /\ b.abscor = s.abscor
    BY <2>1 DEF BackedUp, States
  <2> HIDE DEF b
  <2>3. Stands(s, t, change, foreign) /\ CorrectionStands(s, t, change, foreign)
    <3>1. s.ni > 0
      BY <2>2 DEF b
    <3> QED BY <1>2, <3>1, Zenon DEF WillStand
  <2>4. Stands(b, t, change, foreign) /\ StandsBehind(b, t, change, foreign)
    BY <2>2, <2>3, Zenon DEF Stands, StandsBehind
  <2>5. CorrectionStands(b, t, change, foreign)
    BY <2>2, <2>3, Zenon DEF CorrectionStands
  <2> QED BY <2>4, <2>5 DEF b
<1> QED BY <1>1, <1>2

(* What becomes of the columns on the way to the step. *)
LEMMA StartedColumns ==
  ASSUME NEW s \in States, NEW step \in Nat, NEW p \in Points, NEW q \in Points
  PROVE  /\ s.ni > 0 => Started(s, step, p, q) = s
         /\ ~(s.ni > 0) => /\ Started(s, step, p, q).z[0] = Column(p, step)
                           /\ Started(s, step, p, q).z[1] = Column(q, step)
<1>1. CASE s.ni > 0
  BY <1>1 DEF Started
<1>2. CASE ~(s.ni > 0)
  <2> DEFINE a == Column(p, step)
             b == Column(q, step)
             m == [NoMatrix EXCEPT ![0] = a, ![1] = b]
             r == Started(s, step, p, q)
  <2>1. r = WithMatrix(s, m)
    BY <1>2, Zenon DEF Started, WithMatrix
  <2>2. 0 \in 0 .. MaxOrder /\ 1 \in 0 .. MaxOrder
    BY StepperAssumption
  <2> HIDE DEF a, b
  <2>3. m[0] = a /\ m[1] = b
    BY <2>2, EmptyMatrix
  <2> HIDE DEF m, r
  <2>4. r.z = m
    BY <2>1 DEF WithMatrix, States
  <2> QED BY <1>2, <2>3, <2>4 DEF r, a, b
<1> QED BY <1>1, <1>2

LEMMA StabilisedColumns ==
  ASSUME NEW s \in States, NEW o
  PROVE  /\ SameColumns(Stabilised(s, o), s)
         /\ Stabilised(s, o).abscor = s.abscor
         /\ Stabilised(s, o).failcount = s.failcount
<1>1. CASE MustLower(s, o)
  BY <1>1 DEF Stabilised, SameColumns, States
<1>2. CASE ~MustLower(s, o)
  BY <1>2 DEF Stabilised, SameColumns
<1> QED BY <1>1, <1>2

LEMMA ReorderedMatrix ==
  ASSUME NEW s \in States, NEW o \in Orders
  PROVE  /\ Reordered(s, o).zbackup = s.zbackup
         /\ Reordered(s, o).failcount = s.failcount
         /\ \A j \in 0 .. MaxOrder :
              Reordered(s, o).z[j] =
                IF o = First(s.ordprev) THEN s.z[j] ELSE ReorderedColumn(s, o, j)
<1>1. CASE o # First(s.ordprev)
  <2> DEFINE column(j) == ReorderedColumn(s, o, j)
             m == [j \in 0 .. MaxOrder |-> column(j)]
             r == Reordered(s, o)
  <2>1. r = WithMatrix(s, m)
    BY <1>1, Zenon DEF Reordered, WithMatrix
  <2> HIDE DEF column
  <2>2. \A j \in 0 .. MaxOrder : m[j] = column(j)
    OBVIOUS
  <2> HIDE DEF m, r
  <2>3. r.z = m /\ r.zbackup = s.zbackup /\ r.failcount = s.failcount
    BY <2>1 DEF WithMatrix, States
  <2> QED BY <1>1, <2>2, <2>3 DEF r, column
<1>2. CASE o = First(s.ordprev)
  BY <1>2 DEF Reordered
<1> QED BY <1>1, <1>2

(* A matrix whose order is raised or lowered by one takes in nothing foreign,
   unless the last correction is of another step. *)
LEMMA ReorderedStands ==
  ASSUME NEW s \in States, NEW o \in Orders, NEW t \in Nat, NEW change, NEW foreign,
         ~LargeOrderChange(s, o), Stands(s, t, change, foreign),
         s.failcount > 0 \/ CorrectionStands(s, t, change, foreign),
         NEW j \in 0 .. o
  PROVE  LET c == Reordered(s, o).z[j]
         IN \/ /\ c.at = t /\ c.change = change
               /\ j > 0 => c.step = First(s.hprev)
               /\ c.own \/ foreign \/ RaisedAnew(s, o)
            \/ /\ j = o /\ o = First(s.ordprev) + 1
               /\ c = NoColumn \/ RaisedAnew(s, o)
<1> DEFINE last == First(s.ordprev)
           c == Reordered(s, o).z[j]
<1>1. /\ s.ordprev[1] \in Orders /\ s.failcount \in Nat
      /\ s.abscor \in Columns
  BY Fields, Zenon
<1>2. /\ last \in 1 .. MaxOrder /\ o \in 1 .. MaxOrder /\ o \in {last - 1, last, last + 1}
      /\ j \in Nat /\ j <= o
  BY <1>1 DEF First, Orders, LargeOrderChange
<1>3. /\ j \in 0 .. MaxOrder
      /\ c = IF o = last THEN s.z[j] ELSE ReorderedColumn(s, o, j)
  <2>1. j \in 0 .. MaxOrder
    BY <1>2, StepperAssumption
  <2> QED BY <2>1, ReorderedMatrix
<1>4. ASSUME NEW i \in 0 .. last
      PROVE  /\ s.z[i] \in Columns
             /\ s.z[i].at = t /\ s.z[i].change = change
             /\ i > 0 => s.z[i].step = First(s.hprev)
             /\ s.z[i].own \/ foreign
  <2>1. i \in 0 .. MaxOrder
    BY <1>2, StepperAssumption
  <2> QED BY <2>1, MatrixOK DEF Stands, Holds
<1>5. CASE o = last
  BY <1>2, <1>3, <1>4, <1>5
<1>6. CASE o + 1 = last
  <2>1. c = IF j \in 2 .. o THEN TakesIn(s.z[j], s.z[last]) ELSE s.z[j]
    BY <1>2, <1>3, <1>6 DEF ReorderedColumn
  <2>2. j \in 0 .. last /\ last \in 0 .. last /\ last > 0
    BY <1>2, <1>6
  <2> QED BY <1>4, <2>1, <2>2 DEF TakesIn, SameStep, Columns
<1>7. CASE o = last + 1
  <2>1. c = IF j = o THEN Added(s, o)
            ELSE IF j \in 2 .. last THEN TakesIn(s.z[j], Added(s, o)) ELSE s.z[j]
    BY <1>2, <1>3, <1>7 DEF ReorderedColumn
  <2>2. CASE o > 2 /\ s.failcount > 0
    <3>1. RaisedAnew(s, o)
      BY <1>7, <2>2 DEF RaisedAnew
    <3>2. CASE j = o
      BY <1>7, <3>1, <3>2
    <3>3. CASE j # o
      <4>1. j \in 0 .. last
        BY <1>2, <1>7, <3>3
      <4>2. c = s.z[j] \/ c = TakesIn(s.z[j], Added(s, o))
        BY <2>1, <3>3
      <4>3. c.at = t /\ c.change = change /\ (j > 0 => c.step = First(s.hprev))
        BY <1>4, <4>1, <4>2 DEF TakesIn, Columns
      <4> QED BY <3>1, <4>3 DEF c
    <3> QED BY <3>2, <3>3
  <2>3. CASE o > 2 /\ ~(s.failcount > 0)
    <3>1. CorrectionStands(s, t, change, foreign)
      BY <2>3
    <3>2. 1 \in 0 .. last
      BY <1>2
    <3>3. /\ Added(s, o).at = t /\ Added(s, o).change = change
          /\ Added(s, o).step = First(s.hprev)
          /\ Added(s, o).own \/ foreign
      BY <1>1, <1>4, <2>3, <3>1, <3>2 DEF Added, TakesIn, SameStep, CorrectionStands, Columns
    <3>4. CASE j = o
      BY <2>1, <3>3, <3>4 DEF c
    <3>5. CASE j # o
      <4>1. j \in 0 .. last
        BY <1>2, <1>7, <3>5
      <4> QED BY <1>4, <2>1, <3>3, <3>5, <4>1 DEF TakesIn, SameStep, Columns, c
    <3> QED BY <3>4, <3>5
  <2>4. CASE ~(o > 2)
    <3>1. o = 2 /\ last = 1 /\ Added(s, o) = NoColumn
      BY <1>2, <1>7, <2>4 DEF Added
    <3>2. CASE j = o
      BY <1>7, <2>1, <3>1, <3>2 DEF c
    <3>3. CASE j # o
      <4>1. j \in 0 .. last /\ c = s.z[j]
        BY <1>2, <2>1, <3>1, <3>3
      <4> QED BY <1>4, <4>1 DEF c
    <3> QED BY <3>2, <3>3
  <2> QED BY <2>2, <2>3, <2>4
<1> QED BY <1>2, <1>5, <1>6, <1>7 DEF c

LEMMA RescaledColumns ==
  ASSUME NEW s \in States, NEW o \in Orders, NEW step \in Nat
  PROVE  /\ Rescaled(s, o, step).zbackup = s.zbackup
         /\ Rescaled(s, o, step).failcount = s.failcount
         /\ ~(s.ni > 0) => Rescaled(s, o, step) = s
         /\ \A j \in 0 .. MaxOrder :
              /\ Rescaled(s, o, step).z[j].own = s.z[j].own
              /\ Rescaled(s, o, step).z[j].at = s.z[j].at
              /\ Rescaled(s, o, step).z[j].change = s.z[j].change
              /\ s.ni > 0 /\ j \in 1 .. o /\ s.z[j].step = First(s.hprev) =>
                   Rescaled(s, o, step).z[j].step = step
<1>1. CASE s.ni > 0 /\ step # First(s.hprev)
  <2> DEFINE scale(j) == IF s.z[j].step = First(s.hprev) THEN step ELSE 0
             column(j) == IF j \in 1 .. o THEN [s.z[j] EXCEPT !.step = scale(j)]
                          ELSE s.z[j]
             m == [j \in 0 .. MaxOrder |-> column(j)]
             r == Rescaled(s, o, step)
  <2>1. r = WithMatrix(s, m)
    BY <1>1, Zenon DEF Rescaled, WithMatrix
  <2>2. ASSUME NEW j \in 0 .. MaxOrder
        PROVE  /\ column(j).own = s.z[j].own
               /\ column(j).at = s.z[j].at /\ column(j).change = s.z[j].change
               /\ j \in 1 .. o /\ s.z[j].step = First(s.hprev) => column(j).step = step
    <3>1. s.z[j] \in Columns
      BY MatrixOK
    <3> QED BY <3>1 DEF Columns
  <2> HIDE DEF column
  <2>3. \A j \in 0 .. MaxOrder : m[j] = column(j)
    OBVIOUS
  <2> HIDE DEF m, r
  <2>4. r.z = m /\ r.zbackup = s.zbackup /\ r.failcount = s.failcount
    BY <2>1 DEF WithMatrix, States
  <2> QED BY <1>1, <2>2, <2>3, <2>4 DEF r
<1>2. CASE ~(s.ni > 0 /\ step # First(s.hprev))
  BY <1>2 DEF Rescaled
<1> QED BY <1>1, <1>2

(* Whatever it starts from, the stepper predicts from a matrix of the solution
   at the time of the call, but for the column that a raise of the order adds,
   and can go back to one.  Something foreign is let in only by a raise that is
   done anew. *)
LEMMA PrepareStands ==
  ASSUME NEW t \in Nat, NEW step \in Nat, NEW change \in Nat, NEW p \in Points,
         NEW foreign, p.at = t, p.change = change,
         state \in States, OrderInv(state), WillStand(state, t, change, foreign),
         Prepare(t, step, p, p)
  PROVE  /\ state'.ni > 0 => StandsBehind(state', t, change, foreign)
         /\ \A j \in 0 .. ord' :
              LET lets == state'.ni > 0 /\ (foreign \/ RaisedAnew(state', ord'))
              IN \/ /\ state'.z[j].at = t /\ state'.z[j].change = change
                    /\ j > 0 => state'.z[j].step = step
                    /\ state'.z[j].own \/ lets
                 \/ /\ j = ord' /\ ord' = First(state'.ordprev) + 1
                    /\ IsZero(state'.z[j]) \/ lets
<1> DEFINE b == Begun(state, t)
           s == Started(b, step, p, p)
           l == Stabilised(s, s.ord)
           d == Reordered(l, l.ord)
           e == Rescaled(d, l.ord, step)
           o == l.ord
<1>1. /\ b \in States /\ OrderInv(b) /\ Ready(b) /\ OrderAfter(state, t) = b.ord
  BY BegunOK
<1>2. b.ni > 0 => /\ Stands(b, t, change, foreign)
                  /\ StandsBehind(b, t, change, foreign)
                  /\ b.failcount > 0 \/ CorrectionStands(b, t, change, foreign)
  BY BegunStands
<1>3. /\ s \in States /\ SameHistory(s, b) /\ OrderInv(s) /\ Ready(s) /\ s.ord = b.ord
      /\ s.ni = b.ni
      /\ b.ni > 0 => s = b
      /\ ~(b.ni > 0) => s.z[0] = Column(p, step) /\ s.z[1] = Column(p, step)
  <2> HIDE DEF b
  <2>1. s \in States /\ SameHistory(s, b)
    BY <1>1, StartedOK
  <2>2. /\ b.ni > 0 => s = b
        /\ ~(b.ni > 0) => s.z[0] = Column(p, step) /\ s.z[1] = Column(p, step)
    BY <1>1, StartedColumns
  <2> HIDE DEF s
  <2>3. s.ord = b.ord /\ s.ni = b.ni
    BY <2>1 DEF SameHistory
  <2> QED BY <1>1, <2>1, <2>2, <2>3, SameInv
<1>4. /\ l \in States /\ OrderInv(l) /\ Ready(l) /\ OrderToTake(s, s.ord) = l.ord
      /\ l.ni = s.ni /\ SameColumns(l, s)
      /\ l.abscor = s.abscor /\ l.failcount = s.failcount
  <2> HIDE DEF s
  <2> QED BY <1>3, StabilisedOK, StabilisedColumns DEF SameSteps
<1>5. ~LargeOrderChange(l, l.ord) /\ l.ord \in Orders
  <2> HIDE DEF l
  <2> QED BY <1>4, NearIsNotLarge, Fields
<1>6. /\ d \in States /\ SameHistory(d, l) /\ d.zbackup = l.zbackup
      /\ d.failcount = l.failcount
      /\ \A j \in 0 .. MaxOrder :
           d.z[j] = IF o = First(l.ordprev) THEN l.z[j] ELSE ReorderedColumn(l, o, j)
  <2> HIDE DEF l
  <2> QED BY <1>4, <1>5, ReorderedOK, ReorderedMatrix
<1>7. /\ e \in States /\ SameHistory(e, d) /\ e.zbackup = d.zbackup
      /\ e.failcount = d.failcount
      /\ ~(d.ni > 0) => e = d
      /\ \A j \in 0 .. MaxOrder :
           /\ e.z[j].at = d.z[j].at /\ e.z[j].change = d.z[j].change
           /\ e.z[j].own = d.z[j].own
           /\ d.ni > 0 /\ j \in 1 .. o /\ d.z[j].step = First(d.hprev) =>
                e.z[j].step = step
  <2> HIDE DEF l, d
  <2> QED BY <1>5, <1>6, RescaledOK, RescaledColumns
<1>8. ord' = o /\ state' = e
  BY <1>1, <1>3, <1>4, <1>5, Zenon DEF Prepare
<1>13. ASSUME NEW j \in 0 .. o, b.ni > 0
       PROVE  \/ /\ d.z[j].at = t /\ d.z[j].change = change
                 /\ j > 0 => d.z[j].step = First(l.hprev)
                 /\ d.z[j].own \/ foreign \/ RaisedAnew(l, o)
              \/ /\ j = o /\ o = First(l.ordprev) + 1
                 /\ d.z[j] = NoColumn \/ RaisedAnew(l, o)
  <2> HIDE DEF s, b
  <2>1. s = b
    BY <1>3, <1>13
  <2>2. Stands(l, t, change, foreign)
    BY <1>2, <1>4, <1>13, <2>1, SameColumnsStand
  <2>3. l.failcount > 0 \/ CorrectionStands(l, t, change, foreign)
    <3>1. l.hprev = s.hprev
      BY <1>4, Zenon DEF SameColumns
    <3> QED BY <1>2, <1>4, <1>13, <2>1, <3>1, Zenon DEF CorrectionStands
  <2> HIDE DEF l
  <2> QED BY <1>4, <1>5, <2>2, <2>3, ReorderedStands
<1> HIDE DEF e, d, l, s, b, o
<1>9. /\ e.ni = b.ni /\ e.ordprev = s.ordprev /\ d.hprev = s.hprev /\ d.ni = b.ni
      /\ e.ordprevbackup = s.ordprevbackup /\ e.hprevbackup = s.hprevbackup
      /\ e.zbackup = s.zbackup /\ l.ordprev = s.ordprev /\ l.hprev = s.hprev
  BY <1>3, <1>4, <1>6, <1>7, Zenon DEF SameHistory, SameColumns
<1>10. o \in Orders /\ o \in Nat /\ o <= MaxOrder /\ o <= First(s.ordprev) + 1
       /\ First(s.ordprev) \in Nat /\ First(s.ordprev) > 0
       /\ (~(b.ni > 0) => o = 1)
  <2>1. o \in Orders /\ o = l.ord
    BY <1>5 DEF o
  <2>2. o \in Nat /\ o <= MaxOrder
    BY <2>1, StepperAssumption DEF Orders
  <2>3. l.ordprev[1] \in Orders /\ l.ni \in 0 .. 2
    BY <1>4, Fields, Zenon
  <2>4. First(s.ordprev) \in Nat /\ First(s.ordprev) > 0
    <3>1. l.ordprev[1] \in Nat /\ l.ordprev[1] > 0
      BY <2>3 DEF Orders
    <3>2. l.ordprev = s.ordprev
      BY <1>9
    <3> QED BY <3>1, <3>2, Zenon DEF First
  <2>5. l.ord <= l.ordprev[1] + 1 /\ (l.ni <= 1 => l.ord = 1)
    BY <1>4 DEF OrderInv, Near
  <2>6. ~(b.ni > 0) => l.ni <= 1
    BY <1>3, <1>4, <2>3
  <2> QED BY <1>9, <2>1, <2>2, <2>4, <2>5, <2>6 DEF First
<1>11. e.ni > 0 => StandsBehind(e, t, change, foreign)
  <2> SUFFICES ASSUME e.ni > 0 PROVE StandsBehind(e, t, change, foreign)
    OBVIOUS
  <2>1. s = b /\ StandsBehind(b, t, change, foreign)
    BY <1>2, <1>3, <1>9
  <2> QED BY <1>9, <2>1, Zenon DEF StandsBehind
<1> DEFINE lets == e.ni > 0 /\ (foreign \/ RaisedAnew(e, o))
<1>12. ASSUME NEW j \in 0 .. o
       PROVE  \/ /\ e.z[j].at = t /\ e.z[j].change = change
                 /\ j > 0 => e.z[j].step = step
                 /\ e.z[j].own \/ lets
              \/ /\ j = o /\ o = First(e.ordprev) + 1
                 /\ IsZero(e.z[j]) \/ lets
  <2>1. j \in 0 .. MaxOrder /\ j \in Nat /\ j <= o
    BY <1>10, StepperAssumption
  <2>2. CASE b.ni > 0
    <3>1. RaisedAnew(l, o) => lets
      <4>1. RaisedAnew(l, o) => RaisedAnew(e, o)
        BY <1>6, <1>7, <1>9, Zenon DEF RaisedAnew
      <4> QED BY <1>9, <2>2, <4>1
    <3>2. foreign => lets
      BY <1>9, <2>2
    <3> HIDE DEF lets
    <3>3. j > 0 => j \in 1 .. o
      BY <2>1, <1>10
    <3>4. CASE /\ d.z[j].at = t /\ d.z[j].change = change
               /\ j > 0 => d.z[j].step = First(l.hprev)
               /\ d.z[j].own \/ foreign \/ RaisedAnew(l, o)
      <4>1. e.z[j].own \/ lets
        BY <1>7, <2>1, <3>1, <3>2, <3>4
      <4>2. j > 0 => e.z[j].step = step
        BY <1>7, <1>9, <2>1, <2>2, <3>3, <3>4
      <4>3. e.z[j].at = t /\ e.z[j].change = change
        BY <1>7, <2>1, <3>4
      <4> QED BY <4>1, <4>2, <4>3, Zenon
    <3>5. CASE /\ j = o /\ o = First(l.ordprev) + 1
               /\ d.z[j] = NoColumn \/ RaisedAnew(l, o)
      <4>1. d.z[j] = NoColumn => IsZero(e.z[j])
        BY <1>7, <2>1 DEF NoColumn, IsZero
      <4> QED BY <1>9, <3>1, <3>5, <4>1
    <3> QED BY <1>13, <2>2, <3>4, <3>5
  <2>3. CASE ~(b.ni > 0)
    <3>1. j = 0 \/ j = 1
      BY <1>10, <2>1, <2>3
    <3>2. d.z[j] = l.z[j]
      <4>1. o = 1 /\ First(l.ordprev) > 0 /\ First(l.ordprev) \in Nat
        BY <1>9, <1>10, <2>3
      <4>2. ReorderedColumn(l, o, j) = l.z[j]
        BY <3>1, <4>1 DEF ReorderedColumn
      <4> QED BY <1>6, <2>1, <4>2
    <3>3. l.z = s.z
      BY <1>4, Zenon DEF SameColumns
    <3>4. e.z[j] = Column(p, step)
      BY <1>3, <1>7, <1>9, <2>3, <3>1, <3>2, <3>3
    <3> QED BY <3>4 DEF Column
  <2> QED BY <2>2, <2>3
<1> QED BY <1>8, <1>11, <1>12

(* The prediction brings the columns of the step to its end, and the
   correction leaves them there. *)
LEMMA PredictedColumns ==
  ASSUME NEW s \in States, NEW o \in Orders, NEW step \in Nat
  PROVE  /\ Predicted(s, o, step).zbackup = s.zbackup
         /\ \A j \in 0 .. o :
              /\ (\A i \in 0 .. o : s.z[i].own) => Predicted(s, o, step).z[j].own
              /\ s.z[0].at # NaN => Predicted(s, o, step).z[j].at = s.z[0].at + step
              /\ Predicted(s, o, step).z[j].change = s.z[0].change
              /\ Predicted(s, o, step).z[j].step = s.z[1].step
<1> DEFINE at == IF s.z[0].at = NaN THEN NaN ELSE s.z[0].at + step
           moved(j) == [at |-> at, change |-> s.z[0].change, step |-> s.z[1].step,
                        own |-> \A i \in j .. o : s.z[i].own]
           column(j) == IF j <= o THEN moved(j) ELSE s.z[j]
           m == [j \in 0 .. MaxOrder |-> column(j)]
           r == Predicted(s, o, step)
<1>1. r = WithMatrix(s, m)
  BY Zenon DEF Predicted, WithMatrix
<1>2. ASSUME NEW j \in 0 .. o
      PROVE  /\ s.z[0].at # NaN => moved(j).at = s.z[0].at + step
             /\ moved(j).change = s.z[0].change /\ moved(j).step = s.z[1].step
             /\ (\A i \in 0 .. o : s.z[i].own) => moved(j).own
  <2>1. \A i \in j .. o : i \in 0 .. o
    BY DEF Orders
  <2> QED BY <2>1
<1> HIDE DEF moved
<1>3. ASSUME NEW j \in 0 .. o PROVE m[j] = moved(j)
  <2>1. j \in 0 .. MaxOrder /\ j <= o
    BY StepperAssumption DEF Orders
  <2> QED BY <2>1
<1> HIDE DEF m, r
<1>4. r.z = m /\ r.zbackup = s.zbackup
  BY <1>1 DEF WithMatrix, States
<1> QED BY <1>2, <1>3, <1>4 DEF r

LEMMA CorrectedColumns ==
  ASSUME NEW s \in States, NEW o \in Orders, NEW t \in Nat, NEW step \in Nat
  PROVE  /\ \A updated \in BOOLEAN :
              /\ Corrected(s, o, t, step, updated).zbackup = s.zbackup
              /\ Corrected(s, o, t, step, updated).z = Predicted(s, o, step).z
         /\ Converged(s, o, t, step).zbackup = s.zbackup
         /\ Converged(s, o, t, step).z = Predicted(s, o, step).z
         /\ Converged(s, o, t, step).abscor = Predicted(s, o, step).z[0]
<1> DEFINE p == Predicted(s, o, step)
           u == Updated(p, o, t, step)
           c == [u EXCEPT !.abscor = NoColumn]
           k(updated) == Corrected(s, o, t, step, updated)
           d == Converged(s, o, t, step)
<1>1. p \in States /\ p.zbackup = s.zbackup
  BY PredictedOK, PredictedColumns
<1>2. u \in States /\ u.zbackup = p.zbackup /\ u.z = p.z
  <2> HIDE DEF p
  <2>1. u.zbackup = p.zbackup /\ u.z = p.z
    BY <1>1 DEF Updated, States
  <2> QED BY <1>1, <2>1, UpdatedOK
<1>3. c.zbackup = u.zbackup /\ c.z = u.z
  <2> HIDE DEF u
  <2> QED BY <1>2 DEF States
<1>4. \A updated \in BOOLEAN : k(updated) = IF updated THEN c ELSE p
  BY Zenon DEF Corrected
<1> HIDE DEF c, u, p
<1>5. \A updated \in BOOLEAN : k(updated).zbackup = s.zbackup /\ k(updated).z = p.z
  BY <1>1, <1>2, <1>3, <1>4
<1>6. k(TRUE) \in States
  BY CorrectedOK
<1>7. d = [k(TRUE) EXCEPT !.abscor = k(TRUE).z[0]]
  BY Zenon DEF Converged
<1> HIDE DEF k, d
<1>8. d.zbackup = k(TRUE).zbackup /\ d.z = k(TRUE).z /\ d.abscor = k(TRUE).z[0]
  BY <1>6, <1>7 DEF States
<1> QED BY <1>5, <1>8 DEF k, d, p

(* A failure that does not start anew leaves the backup to go back to, *)
LEMMA FailureStands ==
  ASSUME NEW s \in States, NEW t \in Nat, OrderInv(s), Ready(s), NEW change, NEW foreign,
         s.ni > 0 => StandsBehind(s, t, change, foreign)
  PROVE  WillStand(FailureHandler(s, t), t, change, foreign)
<1> DEFINE f == FailureHandler(s, t)
<1>1. CASE Fresh(f)
  BY <1>1 DEF Fresh, WillStand, Rejected
<1>2. CASE ~Fresh(f)
  <2>1. /\ f \in States /\ f.ni = s.ni /\ s.ni = 2 /\ f.hprevbackup = s.hprevbackup
        /\ f.failt = t
    BY <1>2, FailureHandlerOK
  <2>2. s.ord # 1
    BY <1>2, ResetOK, Zenon DEF FailureHandler
  <2> DEFINE lower == IF s.ord = First(s.ordprev) /\ s.ord = s.failord /\ t = s.failt
                      THEN s.ord - 1 ELSE s.ord
  <2>3. f = WithFailure(s, lower, s.ord, t, Counted(s.ni))
    BY <2>2, Zenon DEF FailureHandler, WithFailure
  <2> HIDE DEF lower, f
  <2>4. f.zbackup = s.zbackup /\ f.ordprevbackup = s.ordprevbackup
    BY <2>3 DEF WithFailure, States
  <2>5. StandsBehind(s, t, change, foreign)
    BY <2>1
  <2>6. StandsBehind(f, t, change, foreign)
    BY <2>1, <2>4, <2>5, Zenon DEF StandsBehind
  <2>7. Rejected(f, t)
    BY <2>1 DEF Rejected
  <2> QED BY <2>6, <2>7, Zenon DEF WillStand, f
<1> QED BY <1>1, <1>2

(* and a step that succeeds stands at its end. *)
LEMMA TakenColumns ==
  ASSUME NEW s \in States, NEW o \in Orders, NEW t, NEW step \in Nat, NEW next
  PROVE  /\ Taken(s, o, t, step, next).z = s.z
         /\ Taken(s, o, t, step, next).abscor = s.abscor
         /\ Taken(s, o, t, step, next).zbackup = s.zbackup
         /\ First(Taken(s, o, t, step, next).ordprev) = o
         /\ First(Taken(s, o, t, step, next).hprev) = step
         /\ Taken(s, o, t, step, next).ordprevbackup = s.ordprevbackup
         /\ Taken(s, o, t, step, next).hprevbackup = s.hprevbackup
<1> DEFINE r == Taken(s, o, t, step, next)
           hs == Shift(s.hprev, step)
           os == Shift(s.ordprev, o)
<1>1. First(hs) = step /\ First(os) = o
  BY OrdersAreSmall DEF Shift, First
<1> HIDE DEF hs, os
<1>2. /\ r.z = s.z /\ r.abscor = s.abscor
      /\ r.zbackup = s.zbackup /\ r.ordprev = os /\ r.hprev = hs
      /\ r.ordprevbackup = s.ordprevbackup /\ r.hprevbackup = s.hprevbackup
  BY DEF Taken, States, hs, os
<1> HIDE DEF r
<1>3. First(r.ordprev) = o /\ First(r.hprev) = step
  BY <1>1, <1>2, Zenon
<1> QED BY <1>2, <1>3 DEF r

-----------------------------------------------------------------------------
Point(t) == [at |-> t, change |-> changes]

Predicts ==
  \A j \in 0 .. ord :
    \/ InHistory(j) /\ (state.z[j].own \/ reraised)
    \/ Raised(j) /\ (IsZero(state.z[j]) \/ reraised)

(* What holds as long as nothing went unnoticed: the vector is the solution at
   the time, which is also what the derivatives belong to, and so are the
   matrices that the stepper is at, will be at, or can go back to, and as long
   as no order was raised anew nothing foreign is in them. *)
SolutionPart ==
  /\ pc \in {"loop", "try", "predict", "poststep", "latent", "done"} => y = Point(x)
  /\ pc \in {"try", "predict", "judge"} => y0 = Point(x) /\ dydtIn = Point(x)
  /\ pc \in {"loop", "judge", "poststep", "latent"} /\ count => dydtOut = y
  /\ pc \in {"loop", "try", "poststep", "latent"} =>
       WillStand(state, x, changes, reraised)
  /\ pc = "predict" =>
       /\ state.ni > 0 => StandsBehind(state, x, changes, reraised)
       /\ Predicts
  /\ pc = "judge" =>
       /\ y = Point(x + h0)
       /\ Stands(state, x + h0, changes, reraised)
       /\ CorrectionStands(state, x + h0, changes, reraised)
       /\ state.ni = 2 => StandsBehind(state, x, changes, reraised)

HistoryInv ==
  /\ final /\ pc \in {"try", "predict", "judge"} => x + h0 = x1
  /\ ~disturbed => SolutionPart

(* A stepper that starts anew starts from the solution. *)
LEMMA FirstWillStand ==
  ASSUME NEW s, NEW t, NEW change, NEW foreign, s.ni = 0
  PROVE  WillStand(s, t, change, foreign)
BY DEF WillStand, Rejected

LEMMA InitHistory == Init => HistoryInv
<1> SUFFICES ASSUME Init PROVE HistoryInv
  OBVIOUS
<1>1. state.ni = 0
  BY DEF Init, Allocated
<1>2. WillStand(state, x, changes, reraised)
  BY <1>1, FirstWillStand
<1> QED BY <1>2 DEF Init, HistoryInv, SolutionPart, Point

LEMMA RetryHistory == Retry => HistoryInv'
<1> SUFFICES ASSUME Retry PROVE HistoryInv'
  OBVIOUS
<1>1. state'.ni = 0
  BY DEF Retry, Allocated
<1>2. WillStand(state', x', changes', reraised')
  BY <1>1, FirstWillStand
<1>3. /\ pc' = "loop" /\ x' = 0 /\ y' = [at |-> 0, change |-> 0] /\ count' = FALSE
      /\ changes' = 0
  BY DEF Retry
<1> QED BY <1>2, <1>3 DEF HistoryInv, SolutionPart, Point

(* The actions of the driver that leave the time. *)
LEMMA QuietHistory ==
  ASSUME HistoryInv,
         \/ Finish \/ EvolveBeginInterrupted \/ EvolveBeginFails \/ GiveUp
         \/ PostStep \/ LatentIntegrate \/ UNCHANGED vars
  PROVE  HistoryInv'
<1>1. CASE Finish \/ EvolveBeginFails \/ GiveUp
  <2>1. /\ x' = x /\ pc' \in {"done", "failed"} /\ (pc' = "done" => pc = "loop" /\ y' = y)
        /\ changes' = changes /\ disturbed' = disturbed
    BY <1>1 DEF Finish, EvolveBeginFails, GiveUp
  <2> QED BY <2>1 DEF HistoryInv, SolutionPart, Point
<1>2. CASE EvolveBeginInterrupted \/ LatentIntegrate
  <2>1. /\ state' = state /\ x' = x /\ pc \in {"loop", "latent"} /\ pc' = "loop"
        /\ y' = y /\ dydtOut' = dydtOut /\ count' = count
        /\ changes' = changes /\ disturbed' = disturbed /\ reraised' = reraised
    BY <1>2 DEF EvolveBeginInterrupted, LatentIntegrate, Interrupts, stepperVars
  <2> QED BY <2>1 DEF HistoryInv, SolutionPart, Point
<1>3. CASE PostStep
  <2>1. /\ state' = state /\ x' = x /\ pc = "poststep" /\ pc' = "latent"
        /\ dydtOut' = dydtOut /\ reraised' = reraised
        /\ \/ disturbed'
           \/ y' = y /\ changes' = changes /\ count' = count /\ disturbed' = disturbed
    BY <1>3 DEF PostStep, stepperVars
  <2> QED BY <2>1 DEF HistoryInv, SolutionPart, Point
<1>4. CASE UNCHANGED vars
  <2>1. /\ state' = state /\ ord' = ord
        /\ UNCHANGED <<pc, x, x1, h0, final, y, y0, dydtIn, dydtOut, count, changes,
                       disturbed, reraised>>
    BY <1>4 DEF vars, stepperVars, solveVars
  <2> QED BY <2>1 DEF HistoryInv, SolutionPart, Point, Predicts, InHistory, Raised
<1> QED BY <1>1, <1>2, <1>3, <1>4

(* A step that is cut ends at x1. *)
LEMMA BeginHistory == IInv /\ HistoryInv /\ EvolveBegin => HistoryInv'
<1> SUFFICES ASSUME IInv, HistoryInv, EvolveBegin PROVE HistoryInv'
  OBVIOUS
<1>1. /\ state' = state /\ x' = x /\ x1' = x1 /\ pc = "loop" /\ pc' = "try" /\ x < x1
      /\ h0' = Smaller(h, x1 - x)
      /\ y' = y /\ y0' = y /\ dydtIn' = IF count THEN dydtOut ELSE y
      /\ changes' = changes /\ disturbed' = disturbed /\ reraised' = reraised
  BY DEF EvolveBegin, stepperVars
<1>2. final' => x' + h0' = x1'
  <2>1. final' = (h > x1 - x)
    BY DEF EvolveBegin
  <2>2. ASSUME final' PROVE h > x1 - x
    BY <2>1, <2>2, Zenon
  <2>3. h > x1 - x => x + Smaller(h, x1 - x) = x1
    BY <1>1, Numbers DEF Smaller
  <2> QED BY <1>1, <2>2, <2>3
<1>3. ~disturbed' => SolutionPart'
  BY <1>1 DEF HistoryInv, SolutionPart, Point
<1> QED BY <1>2, <1>3 DEF HistoryInv

LEMMA TryHistory == IInv /\ HistoryInv /\ Try => HistoryInv'
<1> SUFFICES ASSUME IInv, HistoryInv, Try PROVE HistoryInv'
  OBVIOUS
<1>1. /\ x' = x /\ x1' = x1 /\ h0' = h0 /\ final' = final
      /\ pc = "try" /\ pc' \in {"predict", "aborted"}
      /\ y' = y /\ y0' = y0 /\ dydtIn' = dydtIn
      /\ changes' = changes /\ disturbed' = disturbed
      /\ Prepare(x, h0, y, dydtIn)
  BY DEF Try
<1>2. ASSUME ~disturbed'
      PROVE  /\ y = Point(x) /\ y0 = Point(x) /\ dydtIn = Point(x)
             /\ state'.ni > 0 => StandsBehind(state', x, changes, reraised')
             /\ Predicts'
  <2>1. /\ y = Point(x) /\ y0 = Point(x) /\ dydtIn = Point(x)
        /\ WillStand(state, x, changes, reraised)
    BY <1>1, <1>2 DEF HistoryInv, SolutionPart
  <2>2. /\ state \in States /\ OrderInv(state) /\ x \in Nat /\ h0 \in Nat
        /\ changes \in Nat /\ y \in Points
    BY Numbers DEF IInv, SolveTypeOK, OrderPart
  <2>3. y.at = x /\ y.change = changes /\ dydtIn = y
    BY <2>1 DEF Point
  <2>4. Prepare(x, h0, y, y)
    BY <1>1, <2>3
  <2>5. /\ state'.ni > 0 => StandsBehind(state', x, changes, reraised)
        /\ \A j \in 0 .. ord' :
             LET lets == state'.ni > 0 /\ (reraised \/ RaisedAnew(state', ord'))
             IN \/ /\ state'.z[j].at = x /\ state'.z[j].change = changes
                   /\ j > 0 => state'.z[j].step = h0
                   /\ state'.z[j].own \/ lets
                \/ /\ j = ord' /\ ord' = First(state'.ordprev) + 1
                   /\ IsZero(state'.z[j]) \/ lets
    BY <2>1, <2>2, <2>3, <2>4, PrepareStands
  <2>6. reraised' = (state'.ni > 0 /\ (reraised \/ RaisedAnew(state', ord')))
    BY DEF Try
  <2>7. Predicts'
    BY <1>1, <2>5, <2>6 DEF Predicts, InHistory, Raised, IsZero
  <2>8. state'.ni > 0 => StandsBehind(state', x, changes, reraised')
    <3>1. state'.ni > 0 /\ reraised => reraised'
      BY <2>6
    <3> QED BY <2>5, <3>1 DEF StandsBehind, Holds
  <2> QED BY <2>1, <2>7, <2>8
<1> QED BY <1>1, <1>2 DEF HistoryInv, SolutionPart, Point

(* A step that is given up is told from the time, *)
LEMMA RejectHistory == IInv /\ GrowthInv /\ HistoryInv /\ Reject => HistoryInv'
<1> SUFFICES ASSUME IInv, GrowthInv, HistoryInv, Reject PROVE HistoryInv'
  OBVIOUS
<1>1. /\ state' = state /\ x' = x /\ pc = "judge" /\ pc' = "try"
      /\ final' = FALSE /\ y' = y0 /\ y0' = y0 /\ dydtIn' = dydtIn
      /\ changes' = changes /\ disturbed' = disturbed /\ reraised' = reraised
  BY Zenon DEF Reject, stepperVars
<1>2. Rejected(state, x)
  BY <1>1 DEF GrowthInv, Rejected
<1>3. ~disturbed => WillStand(state, x, changes, reraised)
  BY <1>1, <1>2 DEF HistoryInv, SolutionPart, WillStand
<1> QED BY <1>1, <1>3 DEF HistoryInv, SolutionPart, Point

(* and the next one is not taken for it. *)
LEMMA AcceptHistory == IInv /\ GrowthInv /\ HistoryInv /\ Accept => HistoryInv'
<1> SUFFICES ASSUME IInv, GrowthInv, HistoryInv, Accept PROVE HistoryInv'
  OBVIOUS
<1>1. /\ state' = state /\ pc = "judge" /\ pc' = "poststep"
      /\ x' = IF final THEN x1 ELSE x + h0
      /\ y' = y /\ dydtOut' = dydtOut /\ count' = count
      /\ changes' = changes /\ disturbed' = disturbed /\ reraised' = reraised
  BY DEF Accept, stepperVars
<1>2. x' = x + h0
  BY <1>1 DEF HistoryInv
<1>3. x' \in Nat /\ x' > x
  BY <1>1, <1>2, Numbers DEF IInv, StepPart
<1>4. Past(state, x)
  BY <1>1 DEF GrowthInv
<1>5. ~Rejected(state, x')
  BY <1>3, <1>4, Numbers, StepperAssumption DEF Past, Times, Rejected
<1>6. ~disturbed => WillStand(state, x', changes, reraised)
  BY <1>1, <1>2, <1>5 DEF HistoryInv, SolutionPart, WillStand
<1> QED BY <1>1, <1>2, <1>6 DEF HistoryInv, SolutionPart, Point

(* A step that does not come to be leaves the backup, or the stepper is to
   start anew, or it is disturbed. *)
LEMMA FailureHistory ==
  ASSUME IInv, HistoryInv, StepFails \/ StepSingular \/ StepInterrupted
  PROVE  HistoryInv'
<1> DEFINE c(updated) == Corrected(state, ord, x, h0, updated)
           d == Converged(state, ord, x, h0)
<1>1. /\ state \in States /\ ord \in Orders /\ x \in Nat /\ h0 \in Nat
      /\ OrderInv(state) /\ Ready(state) /\ pc = "predict" /\ state.ni \in 0 .. 2
  BY Numbers DEF IInv, OrderPart, StepFails, StepSingular, StepInterrupted
<1>2. \A updated \in BOOLEAN :
        /\ c(updated) \in States /\ SameHistory(c(updated), state)
        /\ OrderInv(c(updated)) /\ Ready(c(updated))
        /\ c(updated).zbackup = state.zbackup
  <2> SUFFICES ASSUME NEW updated \in BOOLEAN
               PROVE  /\ c(updated) \in States /\ SameHistory(c(updated), state)
                      /\ OrderInv(c(updated)) /\ Ready(c(updated))
                      /\ c(updated).zbackup = state.zbackup
    OBVIOUS
  <2>1. c(updated) \in States /\ SameHistory(c(updated), state)
    BY <1>1, CorrectedOK
  <2>2. c(updated).zbackup = state.zbackup
    BY <1>1, CorrectedColumns
  <2> HIDE DEF c
  <2>3. OrderInv(c(updated)) /\ Ready(c(updated))
    BY <1>1, <2>1, SameInv, Zenon
  <2> QED BY <2>1, <2>2, <2>3
<1>3. /\ d \in States /\ SameHistory(d, state) /\ OrderInv(d) /\ Ready(d)
      /\ d.zbackup = state.zbackup
  <2>1. d \in States /\ SameHistory(d, state)
    BY <1>1, ConvergedOK
  <2>2. d.zbackup = state.zbackup
    BY <1>1, CorrectedColumns
  <2> HIDE DEF d
  <2>3. OrderInv(d) /\ Ready(d)
    BY <1>1, <2>1, SameInv, Zenon
  <2> QED BY <2>1, <2>2, <2>3
<1> DEFINE left == {c(TRUE), c(FALSE), d}
<1>4. \A s \in left : /\ s \in States /\ SameHistory(s, state) /\ OrderInv(s) /\ Ready(s)
                      /\ s.zbackup = state.zbackup
  <2> HIDE DEF c, d
  <2> QED BY <1>2, <1>3
<1>5. CASE StepFails
  <2>1. \E s \in left : state' = FailureHandler(s, x)
    <3>1. CorrectorFails(x, h0) \/ OutputFails(x, h0)
      BY <1>5, Zenon DEF StepFails
    <3>2. \/ \E updated \in BOOLEAN : state' = FailureHandler(c(updated), x)
          \/ state' = FailureHandler(d, x)
      BY <3>1, Zenon DEF CorrectorFails, OutputFails
    <3> HIDE DEF c, d
    <3> QED BY <3>2
  <2> HIDE DEF left
  <2>2. PICK s \in left : state' = FailureHandler(s, x)
    BY <2>1
  <2>3. /\ s \in States /\ SameHistory(s, state) /\ OrderInv(s) /\ Ready(s)
        /\ s.zbackup = state.zbackup
    BY <1>4, <2>2
  <2>4. TryHalf /\ disturbed' = disturbed
    BY <1>5, Zenon DEF StepFails
  <2>5. ASSUME ~disturbed
        PROVE  /\ y0 = Point(x) /\ dydtIn = Point(x)
               /\ WillStand(state', x, changes, reraised)
    <3>1. y0 = Point(x) /\ dydtIn = Point(x)
      BY <1>1, <2>5 DEF HistoryInv, SolutionPart
    <3>2. state.ni > 0 => StandsBehind(state, x, changes, reraised)
      BY <1>1, <2>5 DEF HistoryInv, SolutionPart
    <3>3. s.ni > 0 => StandsBehind(s, x, changes, reraised)
      BY <2>3, <3>2, Zenon DEF SameHistory, StandsBehind
    <3> QED BY <1>1, <2>2, <2>3, <3>1, <3>3, FailureStands
  <2> QED BY <2>4, <2>5 DEF HistoryInv, SolutionPart, Point, TryHalf
<1>6. ASSUME state' \in left, ~disturbed', StepSingular \/ StepInterrupted
      PROVE  ~disturbed /\ state.ni = 0 /\ WillStand(state', x, changes, reraised)
  <2> HIDE DEF left
  <2>1. ~disturbed /\ ~(state.ni > 0)
    BY <1>6, Zenon DEF StepSingular, StepInterrupted
  <2>2. state.ni = 0
    BY <1>1, <2>1
  <2>3. state'.ni = state.ni
    BY <1>4, <1>6, Zenon DEF SameHistory
  <2> QED BY <2>1, <2>2, <2>3, FirstWillStand
<1>7. CASE StepSingular
  <2>1. state' \in left
    BY <1>7, Zenon DEF StepSingular, CorrectorSingular
  <2> HIDE DEF left
  <2>2. TryHalf
    BY <1>7, Zenon DEF StepSingular
  <2>3. ASSUME ~disturbed'
        PROVE  /\ y0 = Point(x) /\ dydtIn = Point(x)
               /\ WillStand(state', x, changes, reraised)
    BY <1>1, <1>6, <1>7, <2>1, <2>3 DEF HistoryInv, SolutionPart
  <2> QED BY <2>2, <2>3 DEF HistoryInv, SolutionPart, Point, TryHalf
<1>8. CASE StepInterrupted
  <2>1. state' \in left
    <3>1. CorrectorInterrupted(x, h0) \/ OutputInterrupted(x, h0)
      BY <1>8, Zenon DEF StepInterrupted
    <3>2. \/ \E updated \in BOOLEAN : state' = c(updated)
          \/ state' = d
      BY <3>1, Zenon DEF CorrectorInterrupted, OutputInterrupted
    <3> HIDE DEF c, d
    <3> QED BY <3>2
  <2> HIDE DEF left
  <2>2. /\ pc' = "loop" /\ x' = x /\ y' = y /\ changes' = changes /\ count' = count
        /\ reraised' = reraised
    BY <1>8, Zenon DEF StepInterrupted, Interrupts
  <2>3. ~disturbed' => ~count
    BY <1>8, Zenon DEF StepInterrupted
  <2>4. ASSUME ~disturbed'
        PROVE  y = Point(x) /\ WillStand(state', x, changes, reraised)
    BY <1>1, <1>6, <1>8, <2>1, <2>4 DEF HistoryInv, SolutionPart
  <2> QED BY <2>2, <2>3, <2>4 DEF HistoryInv, SolutionPart, Point
<1> QED BY <1>5, <1>7, <1>8

(* A step that is made brings the solution and the matrix to its end. *)
LEMMA MadeHistory == IInv /\ HistoryInv /\ StepMade => HistoryInv'
<1> SUFFICES ASSUME IInv, HistoryInv, StepMade PROVE HistoryInv'
  OBVIOUS
<1> DEFINE d == Converged(state, ord, x, h0)
           p == Predicted(state, ord, h0)
<1>1. /\ state \in States /\ ord \in Orders /\ x \in Nat /\ h0 \in Nat
      /\ OrderInv(state) /\ Ready(state) /\ ord = state.ord /\ pc = "predict"
      /\ state.ni \in 0 .. 2 /\ changes \in Nat
  BY Numbers DEF IInv, SolveTypeOK, OrderPart, StepMade
<1>2. /\ d \in States /\ SameHistory(d, state) /\ OrderInv(d) /\ Ready(d) /\ d.ord = ord
      /\ d.zbackup = state.zbackup /\ d.z = p.z /\ d.abscor = p.z[0]
  <2>1. d \in States /\ SameHistory(d, state)
    BY <1>1, ConvergedOK
  <2>2. d.zbackup = state.zbackup /\ d.z = p.z /\ d.abscor = p.z[0]
    BY <1>1, CorrectedColumns
  <2> HIDE DEF d, p
  <2>3. OrderInv(d) /\ Ready(d)
    BY <1>1, <2>1, SameInv
  <2>4. d.ord = state.ord
    BY <2>1, Zenon DEF SameHistory
  <2> QED BY <1>1, <2>1, <2>2, <2>3, <2>4
<1>3. /\ StepSucceeds(x, h0) /\ pc' = "judge" /\ x' = x /\ x1' = x1 /\ h0' = h0
      /\ final' = final /\ y0' = y0 /\ dydtIn' = dydtIn
      /\ y' = [at |-> state'.z[0].at, change |-> state'.z[0].change] /\ dydtOut' = y'
      /\ changes' = changes /\ disturbed' = disturbed /\ reraised' = reraised
  BY DEF StepMade
<1>4. PICK next \in NextOrders(d, d.ord) : state' = Taken(d, d.ord, x, h0, next)
  BY <1>2, <1>3, Zenon DEF StepSucceeds
<1> HIDE DEF d
<1>5. /\ state'.z = p.z /\ state'.abscor = p.z[0] /\ state'.zbackup = state.zbackup
      /\ First(state'.ordprev) = ord /\ First(state'.hprev) = h0
      /\ state'.ordprevbackup = state.ordprevbackup
      /\ state'.hprevbackup = state.hprevbackup
      /\ state'.ni = Counted(state.ni)
  <2>1. state'.ni = Counted(d.ni)
    BY <1>1, <1>2, <1>4, TakenOK
  <2>2. /\ state'.z = d.z /\ state'.abscor = d.abscor /\ state'.zbackup = d.zbackup
        /\ First(state'.ordprev) = d.ord /\ First(state'.hprev) = h0
        /\ state'.ordprevbackup = d.ordprevbackup
        /\ state'.hprevbackup = d.hprevbackup
    BY <1>1, <1>2, <1>4, TakenColumns
  <2> QED BY <1>2, <2>1, <2>2, Zenon DEF SameHistory
<1>6. ASSUME ~disturbed
      PROVE  /\ Stands(state', x + h0, changes, reraised)
             /\ CorrectionStands(state', x + h0, changes, reraised)
             /\ y' = Point(x + h0)
             /\ state'.ni = 2 => StandsBehind(state', x, changes, reraised)
             /\ y0 = Point(x) /\ dydtIn = Point(x)
  <2>1. /\ y0 = Point(x) /\ dydtIn = Point(x)
        /\ state.ni > 0 => StandsBehind(state, x, changes, reraised)
        /\ Predicts
    BY <1>1, <1>6 DEF HistoryInv, SolutionPart
  <2>2. 0 \in 0 .. ord /\ 1 \in 0 .. ord /\ First(state.ordprev) > 0
        /\ First(state.ordprev) \in Nat
    <3>1. state.ordprev[1] \in Orders
      BY <1>1, Fields, Zenon
    <3> QED BY <1>1, <3>1 DEF Orders, First
  <2>3. ~Raised(0) /\ ~Raised(1)
    BY <2>2 DEF Raised
  <2>4. /\ state.z[0].at = x /\ state.z[0].change = changes /\ state.z[1].step = h0
    BY <2>1, <2>2, <2>3 DEF Predicts, InHistory
  <2>10. reraised \/ \A j \in 0 .. ord : state.z[j].own
    BY <2>1 DEF Predicts, IsZero
  <2>5. x # NaN
    BY <1>1, StepperAssumption
  <2>6. \A j \in 0 .. ord :
          /\ p.z[j].at = x + h0 /\ p.z[j].change = changes /\ p.z[j].step = h0
          /\ p.z[j].own \/ reraised
    <3>1. \A j \in 0 .. ord :
            /\ (\A i \in 0 .. ord : state.z[i].own) => p.z[j].own
            /\ state.z[0].at # NaN => p.z[j].at = state.z[0].at + h0
            /\ p.z[j].change = state.z[0].change
            /\ p.z[j].step = state.z[1].step
      BY <1>1, PredictedColumns
    <3> HIDE DEF p
    <3> QED BY <2>4, <2>5, <2>10, <3>1
  <2> HIDE DEF p
  <2>7. Stands(state', x + h0, changes, reraised)
    BY <1>5, <2>6 DEF Stands, Holds
  <2>11. CorrectionStands(state', x + h0, changes, reraised)
    BY <1>5, <2>2, <2>6 DEF CorrectionStands
  <2>8. y' = Point(x + h0)
    BY <1>3, <1>5, <2>2, <2>6 DEF Point
  <2>9. state'.ni = 2 => StandsBehind(state', x, changes, reraised)
    <3>1. state'.ni = 2 => state.ni > 0
      BY <1>1, <1>5 DEF Counted
    <3> QED BY <1>5, <2>1, <3>1, Zenon DEF StandsBehind
  <2> QED BY <2>1, <2>7, <2>8, <2>9, <2>11
<1> QED BY <1>1, <1>3, <1>6 DEF HistoryInv, SolutionPart, Point

LEMMA NextHistory == IInv /\ GrowthInv /\ HistoryInv /\ [Next]_vars => HistoryInv'
BY RetryHistory, QuietHistory, BeginHistory, TryHistory, RejectHistory, AcceptHistory,
   FailureHistory, MadeHistory, Zenon DEF Next

LEMMA HistoryInvariance == Spec => [](IInv /\ GrowthInv /\ HistoryInv)
BY InitInv, InitGrowth, InitHistory, NextStep, NextGrowth, NextHistory, PTL DEF Spec

(* "Previous state will be restored or the method will be reset"
   (msbdfactive.c:1183): each step is predicted from the solution at the time
   where it starts, scaled with its size, however many steps failed, were
   rejected or tried again before it, unless a step was interrupted or its
   matrix singular, or a component changed the solution, of which the stepper
   is not told.  Nothing of a step that was given up is in any of its columns,
   until an order above 2 is raised anew after a step that did not come to be:
   the correction of that step is then added (msbdfactive.c:1435-1446), and
   from there on the columns below the one added are only known to be of the
   time and the step. *)
THEOREM PredictsFromTheSolution == Spec => []HistoryUnlessDisturbed
<1>1. HistoryInv => HistoryUnlessDisturbed
  BY DEF HistoryInv, SolutionPart, Predicts, HistoryUnlessDisturbed
<1> QED BY <1>1, HistoryInvariance, PTL

(* What ODEIV2_Solve returns is the solution at the end, or at the interrupt
   that the last trial met, unless something went unnoticed. *)
THEOREM SolvesTheEquations == Spec => []ReturnsTheSolution
<1>1. IInv /\ HistoryInv => ReturnsTheSolution
  BY DEF IInv, StepPart, HistoryInv, SolutionPart, ReturnsTheSolution, Point
<1> QED BY <1>1, HistoryInvariance, PTL

-------------------------------------------------------------------------------
(* The matrices *)

(* A matrix that is counted is one of this history. *)
Own(s) == (s.nJ > 0 => s.ownJacobian) /\ (s.nM > 0 => s.ownM)

(* What an operation that makes no matrices does to them. *)
Leaves(r, s) ==
  \/ r.nJ = 0 /\ r.nM = 0
  \/ /\ r.nJ = s.nJ /\ r.nM = s.nM
     /\ r.ownJacobian = s.ownJacobian /\ r.ownM = s.ownM

LEMMA LeavesOwn ==
  /\ \A r, s, q : Leaves(r, s) /\ Leaves(s, q) => Leaves(r, q)
  /\ \A r, s : Leaves(r, s) /\ Own(s) => Own(r)
BY DEF Leaves, Own

LEMMA ResetLeaves == \A s, q : Leaves(Reset(s), q)
<1>1. \A s : Reset(s).nJ = 0 /\ Reset(s).nM = 0
  BY DEF Reset, Allocated
<1> QED BY <1>1 DEF Leaves

LEMMA FailureLeaves ==
  ASSUME NEW s \in States, NEW t
  PROVE  Leaves(FailureHandler(s, t), s)
<1>1. CASE s.ord = 1
  BY <1>1, ResetLeaves, Zenon DEF FailureHandler
<1>2. CASE s.ord # 1
  <2> DEFINE lower == IF s.ord = First(s.ordprev) /\ s.ord = s.failord /\ t = s.failt
                      THEN s.ord - 1 ELSE s.ord
  <2>1. FailureHandler(s, t) = WithFailure(s, lower, s.ord, t, Counted(s.ni))
    BY <1>2, Zenon DEF FailureHandler, WithFailure
  <2>2. \A a, b, c, d : Leaves(WithFailure(s, a, b, c, d), s)
    BY DEF WithFailure, Leaves, States
  <2> QED BY <2>1, <2>2, Zenon
<1> QED BY <1>1, <1>2

LEMMA BegunLeaves ==
  ASSUME NEW s \in States, NEW t
  PROVE  Leaves(Begun(s, t), s)
<1>1. Leaves(Restored(s), s) /\ Leaves(BackedUp(s), s)
  BY DEF Restored, BackedUp, Leaves, States
<1> DEFINE r == IF s.ni = 1 THEN Reset(s) ELSE Restored(s)
           c == [r EXCEPT !.failcount = @ + 1]
<1>2. Leaves(r, s)
  BY <1>1, ResetLeaves
<1>3. Leaves(c, r)
  <2>1. CASE s.ni = 1
    BY <2>1 DEF Reset, Allocated, Leaves
  <2>2. CASE s.ni # 1
    BY <2>2 DEF Restored, Leaves, States
  <2> QED BY <2>1, <2>2
<1>4. AfterRejection(s) = IF c.failcount > MaxFailCount /\ c.ni > 1 THEN Reset(c) ELSE c
  BY Zenon DEF AfterRejection
<1> HIDE DEF c, r
<1>5. Leaves(AfterRejection(s), s)
  BY <1>2, <1>3, <1>4, ResetLeaves, LeavesOwn
<1> QED BY <1>1, <1>5, Zenon DEF Begun

LEMMA PrepareLeaves ==
  ASSUME NEW t \in Nat, NEW step \in Nat, NEW p \in Points, NEW q \in Points,
         state \in States, OrderInv(state), Prepare(t, step, p, q)
  PROVE  Leaves(state', state)
<1> DEFINE b == Begun(state, t)
           s == Started(b, step, p, q)
           o == OrderAfter(state, t)
           l == Stabilised(s, o)
           d == Reordered(l, ord')
           e == Rescaled(d, ord', step)
<1>1. b \in States /\ Leaves(b, state) /\ o = b.ord /\ OrderInv(b) /\ Ready(b)
  BY BegunOK, BegunLeaves
<1>2. s \in States /\ SameHistory(s, b) /\ Leaves(s, b)
  <2>1. b \in States BY <1>1
  <2> HIDE DEF b
  <2>2. s \in States /\ SameHistory(s, b)
    BY <2>1, StartedOK
  <2>3. Leaves(s, b)
    BY <2>1 DEF Started, Leaves, States
  <2> QED BY <2>2, <2>3
<1>3. s.ord = o /\ OrderInv(s) /\ Ready(s)
  <2> HIDE DEF b, s, o
  <2> QED BY <1>1, <1>2, SameInv DEF SameHistory
<1>4. l \in States /\ Leaves(l, s) /\ ord' \in Orders
  <2>1. s \in States BY <1>2
  <2> HIDE DEF s, o
  <2>2. Leaves(l, s)
    BY <2>1 DEF Stabilised, Leaves, States
  <2>3. l \in States
    BY <1>2, <1>3, StabilisedOK
  <2>4. ord' \in Orders
    BY PrepareOK
  <2> QED BY <2>2, <2>3, <2>4
<1>5. d \in States /\ Leaves(d, l)
  <2>1. l \in States BY <1>4
  <2> HIDE DEF l
  <2>2. d \in States BY <1>4, ReorderedOK
  <2>3. Leaves(d, l) BY <2>1 DEF Reordered, Leaves, States
  <2> QED BY <2>2, <2>3
<1>6. Leaves(e, d)
  <2>1. d \in States BY <1>5
  <2> HIDE DEF d
  <2> QED BY <2>1 DEF Rescaled, Leaves, States
<1>7. state' = l \/ state' = e
  BY Zenon DEF Prepare
<1> HIDE DEF e, d, l, o, s, b
<1> QED BY <1>1, <1>2, <1>4, <1>5, <1>6, <1>7, LeavesOwn

(* Once the matrices are updated they are of this history, and until then they
   are what they were. *)
LEMMA CorrectedOwn ==
  ASSUME NEW s \in States, NEW o \in Orders, NEW t \in Nat, NEW step \in Nat,
         NEW updated \in BOOLEAN, Own(s)
  PROVE  /\ Own(Corrected(s, o, t, step, updated))
         /\ updated => /\ Corrected(s, o, t, step, updated).ownJacobian
                       /\ Corrected(s, o, t, step, updated).ownM
<1> DEFINE p == Predicted(s, o, step)
           u == Updated(p, o, t, step)
           c == [u EXCEPT !.abscor = NoColumn]
<1>1. p \in States /\ Leaves(p, s)
  <2>1. \A m : Leaves(WithMatrix(s, m), s)
    BY DEF WithMatrix, Leaves, States
  <2>2. \E m : p = WithMatrix(s, m)
    BY Zenon DEF Predicted, WithMatrix
  <2> HIDE DEF p
  <2>3. Leaves(p, s)
    BY <2>1, <2>2, Zenon
  <2> QED BY <2>3, PredictedOK DEF p
<1>2. Own(p)
  <2> HIDE DEF p
  <2> QED BY <1>1, LeavesOwn
<1>3. u \in States
  <2> HIDE DEF p
  <2> QED BY <1>1, UpdatedOK
<1>4. u.ownJacobian /\ u.ownM
  <2> DEFINE g == [step |-> step, order |-> o]
             evaluated == NeedsJacobian(p, t + step, step, g)
             made == NeedsM(p, t + step, g)
             nJ == IF evaluated THEN 0 ELSE p.nJ
             nM == IF made THEN 0 ELSE p.nM
             ownJ == evaluated \/ p.ownJacobian
             ownM == IF made THEN ownJ ELSE p.ownM
  <2>1. u = WithUpdate(p, nJ, nM, ownJ, ownM)
    BY Zenon DEF Updated, WithUpdate
  <2>2. p.nJ \in Nat /\ p.nM \in Nat /\ p.ownJacobian \in BOOLEAN /\ p.ownM \in BOOLEAN
    <3> HIDE DEF p
    <3> QED BY <1>1, Fields, Zenon
  <2>3. (~evaluated => p.nJ > 0) /\ (~made => p.nM > 0)
    <3> HIDE DEF p, g
    <3>1. (~evaluated => p.nJ # 0) /\ (~made => p.nM # 0)
      BY Zenon DEF NeedsJacobian, NeedsM
    <3> QED BY <2>2, <3>1
  <2> HIDE DEF p, evaluated, made
  <2>4. ownJ /\ ownM
    BY <1>2, <2>3, Zenon DEF Own
  <2> HIDE DEF nJ, nM, ownJ, ownM, u
  <2>5. \A a, b, d, e : /\ WithUpdate(p, a, b, d, e).ownJacobian = d
                        /\ WithUpdate(p, a, b, d, e).ownM = e
    BY <1>1 DEF WithUpdate, States
  <2> QED BY <2>1, <2>4, <2>5, ZenonT(40)
<1> HIDE DEF u
<1>5. c.ownJacobian = u.ownJacobian /\ c.ownM = u.ownM
  BY <1>3 DEF States
<1>6. Corrected(s, o, t, step, updated) = IF updated THEN c ELSE p
  BY Zenon DEF Corrected, u
<1> HIDE DEF c, p
<1>7. Own(c)
  BY <1>4, <1>5, Zenon DEF Own
<1> QED BY <1>2, <1>4, <1>5, <1>6, <1>7, Zenon

LEMMA ConvergedOwn ==
  ASSUME NEW s \in States, NEW o \in Orders, NEW t \in Nat, NEW step \in Nat, Own(s)
  PROVE  /\ Converged(s, o, t, step) \in States
         /\ Converged(s, o, t, step).ownJacobian /\ Converged(s, o, t, step).ownM
<1> DEFINE c == Corrected(s, o, t, step, TRUE)
           d == [c EXCEPT !.abscor = c.z[0]]
<1>1. c \in States /\ c.ownJacobian /\ c.ownM
  BY CorrectedOK, CorrectedOwn
<1>2. Converged(s, o, t, step) = d
  BY Zenon DEF Converged
<1> HIDE DEF c
<1>3. d.ownJacobian = c.ownJacobian /\ d.ownM = c.ownM
  BY <1>1 DEF States
<1> QED BY <1>1, <1>2, <1>3, ConvergedOK, Zenon

LEMMA TakenOwn ==
  ASSUME NEW s \in States, NEW o, NEW t, NEW step, NEW next
  PROVE  /\ Taken(s, o, t, step, next).ownJacobian = s.ownJacobian
         /\ Taken(s, o, t, step, next).ownM = s.ownM
<1>1. ASSUME NEW v1, NEW v2, NEW v3, NEW v4, NEW v5, NEW v6, NEW v7, NEW v8, NEW v9
      PROVE  /\ WithStep(s, v1, v2, v3, v4, v5, v6, v7, v8, v9).ownJacobian = s.ownJacobian
             /\ WithStep(s, v1, v2, v3, v4, v5, v6, v7, v8, v9).ownM = s.ownM
  BY SMT DEF WithStep, States
<1> DEFINE wait == NextWait(s, o, next) - 1
           g == [step |-> step, order |-> o]
           nJ == s.nJ + 1
           nM == s.nM + 1
<1>2. Taken(s, o, t, step, next) =
        WithStep(s, next, wait, Shift(s.hprev, step), Shift(s.ordprev, o), t,
                 Counted(s.ni), g, nJ, nM)
  BY Zenon DEF Taken, WithStep
<1> HIDE DEF wait, g, nJ, nM
<1> QED BY <1>1, <1>2, Zenon

-----------------------------------------------------------------------------
OwnInv ==
  /\ Own(state)
  /\ pc = "judge" => state.ownJacobian /\ state.ownM

LEMMA InitOwn == Init => OwnInv
<1>1. Own(Allocated)
  BY DEF Own, Allocated
<1> QED BY <1>1 DEF Init, OwnInv

LEMMA DriverOwn ==
  ASSUME OwnInv,
         \/ Finish \/ EvolveBegin \/ EvolveBeginInterrupted \/ EvolveBeginFails
         \/ Reject \/ GiveUp \/ Accept \/ PostStep \/ LatentIntegrate \/ UNCHANGED vars
  PROVE  OwnInv'
<1>1. state' = state /\ (pc' = "judge" => pc = "judge")
  BY DEF Finish, EvolveBegin, EvolveBeginInterrupted, EvolveBeginFails, Interrupts,
         Reject, GiveUp, Accept, PostStep, LatentIntegrate, stepperVars, vars, solveVars
<1> QED BY <1>1 DEF OwnInv

LEMMA StepperOwn ==
  ASSUME IInv, OwnInv,
         \/ Retry \/ Try \/ StepFails \/ StepSingular \/ StepInterrupted \/ StepMade
  PROVE  OwnInv'
<1>1. CASE Retry
  <2>1. state' = Allocated /\ pc' = "loop" BY <1>1 DEF Retry
  <2>2. Own(Allocated) BY DEF Own, Allocated
  <2> QED BY <2>1, <2>2 DEF OwnInv
<1>2. CASE Try
  <2>1. x \in Nat /\ h0 \in Nat /\ y \in Points /\ dydtIn \in Points
    BY DriverAssumption DEF IInv, SolveTypeOK
  <2>2. state \in States /\ OrderInv(state) /\ Prepare(x, h0, y, dydtIn)
    BY <1>2 DEF IInv, OrderPart, Try
  <2>3. Leaves(state', state) BY <2>1, <2>2, PrepareLeaves
  <2>4. pc' # "judge" BY <1>2 DEF Try
  <2> QED BY <2>3, <2>4, LeavesOwn DEF OwnInv
<1> DEFINE c(updated) == Corrected(state, ord, x, h0, updated)
           d == Converged(state, ord, x, h0)
<1>3. /\ state \in States /\ ord \in Orders /\ x \in Nat /\ h0 \in Nat /\ Own(state)
  BY DriverAssumption DEF IInv, SolveTypeOK, OwnInv
<1>4. /\ \A updated \in BOOLEAN : c(updated) \in States /\ Own(c(updated))
      /\ d \in States /\ d.ownJacobian /\ d.ownM
  BY <1>3, CorrectedOK, CorrectedOwn, ConvergedOwn
<1>5. Own(d)
  BY <1>4, Zenon DEF Own
<1>6. CASE StepFails \/ StepSingular \/ StepInterrupted
  <2>1. \/ CorrectorFails(x, h0) \/ OutputFails(x, h0) \/ CorrectorSingular(x, h0)
        \/ CorrectorInterrupted(x, h0) \/ OutputInterrupted(x, h0)
    BY <1>6, Zenon DEF StepFails, StepSingular, StepInterrupted
  <2>2. \/ \E updated \in BOOLEAN : \/ state' = FailureHandler(c(updated), x)
                                    \/ state' = c(updated)
        \/ state' = FailureHandler(d, x)
        \/ state' = d
    BY <2>1, Zenon
    DEF CorrectorFails, OutputFails, CorrectorSingular, CorrectorInterrupted,
        OutputInterrupted
  <2> HIDE DEF c, d
  <2>3. Own(state')
    BY <1>4, <1>5, <2>2, FailureLeaves, LeavesOwn
  <2>4. pc' # "judge"
    BY <1>6 DEF StepFails, StepSingular, StepInterrupted, TryHalf, Interrupts
  <2> QED BY <2>3, <2>4 DEF OwnInv
<1>7. CASE StepMade
  <2>1. \E next \in NextOrders(d, ord) : state' = Taken(d, ord, x, h0, next)
    BY <1>7, Zenon DEF StepMade, StepSucceeds
  <2> HIDE DEF d
  <2>2. \A o, t, step, next : /\ Taken(d, o, t, step, next).ownJacobian = d.ownJacobian
                              /\ Taken(d, o, t, step, next).ownM = d.ownM
    BY <1>4, TakenOwn
  <2>3. state'.ownJacobian /\ state'.ownM
    BY <1>4, <2>1, <2>2, Zenon
  <2> QED BY <2>3, Zenon DEF OwnInv, Own
<1> QED BY <1>1, <1>2, <1>6, <1>7

LEMMA NextOwn == IInv /\ OwnInv /\ [Next]_vars => OwnInv'
BY DriverOwn, StepperOwn, Zenon DEF Next

(* What the corrector of an accepted step solved with was made from a Jacobian
   that was evaluated since the stepper was last reset, by failures, by
   rejections of a first step, or after too many of them. *)
THEOREM MatricesAreOfThisHistory == Spec => []MatricesOfThisHistory
<1>1. OwnInv => MatricesOfThisHistory BY DEF OwnInv, MatricesOfThisHistory
<1> QED BY <1>1, Invariance, InitOwn, NextOwn, PTL DEF Spec
===============================================================================
