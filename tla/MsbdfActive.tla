----------------------------- MODULE MsbdfActive -----------------------------
(***************************************************************************)
(* The BDF stepper with which Galacticus integrates the properties of a    *)
(* node (source/gslODEInitVal2/msbdfactive.c).  It keeps the solution as a *)
(* Nordsieck matrix z: column j is the j-th derivative at the current time *)
(* times h^j/j!.  To take a step it advances the columns (prediction) and  *)
(* corrects them by a Newton iteration; it varies its order and keeps one  *)
(* backup, to which it returns if a step is retried.                       *)
(*                                                                         *)
(* Numbers in the columns are left out.  A column carries instead what it  *)
(* is a column of: the time it was last advanced to, the step it is scaled *)
(* with, how many times the caller had changed the solution by then, and   *)
(* whether a column or a correction of another step has gone into it.      *)
(* Whether an iteration converges, a matrix is singular and the order      *)
(* should change is decided by the numbers, so it is a choice here.  Times *)
(* and steps are counted in ticks, the resolution of the time variable,    *)
(* and time goes forward.                                                  *)
(***************************************************************************)
EXTENDS Naturals, FiniteSets

CONSTANTS
  MaxOrder,     \* MSBDFACTIVE_MAX_ORD
  JacobianWait, \* MSBDFACTIVE_JAC_WAIT
  MatrixWait,   \* MSBDFACTIVE_M_WAIT
  MaxFailCount, \* max_failcount of msbdfactive_apply
  NaN           \* the time that is no time

ASSUME StepperAssumption ==
  /\ MaxOrder \in 2 .. 5
  /\ JacobianWait \in Nat /\ MatrixWait \in Nat /\ MaxFailCount \in Nat
  /\ NaN \notin Nat

VARIABLES
  state,  \* msbdfactive_state_t
  ord     \* the order of the step in progress, a local of msbdfactive_apply

stepperVars == <<state, ord>>

Times == Nat \cup {NaN}

Orders == 1 .. MaxOrder

(* What a vector belongs to: the solution at a time, after so many changes. *)
Points == [at : Times, change : Nat]

(* A column is its own as long as all that was added to it is of its step. *)
Columns == [at : Times, change : Nat, step : Nat, own : BOOLEAN]

(* Zeros, which a column is as long as it is of no time and its own. *)
NoColumn == [at |-> NaN, change |-> 0, step |-> 0, own |-> TRUE]

IsZero(c) == c.at = NaN /\ c.own

Column(p, h) == [at |-> p.at, change |-> p.change, step |-> h, own |-> TRUE]

SameStep(c, d) == c.at = d.at /\ c.change = d.change /\ c.step = d.step

(* What a column is after another one was added to it. *)
TakesIn(c, d) == [c EXCEPT !.own = @ /\ d.own /\ SameStep(c, d)]

NoMatrix == [z \in 0 .. MaxOrder |-> NoColumn]

(* gamma is h / l[1], and l[1] is always 1 + 1/2 + ... + 1/ord, here times 60;
   a step of 0 stands for the gammaprev of 1.0 that reset sets. *)
Gammas == [step : Nat, order : Orders]

Sixty(o) == <<60, 90, 110, 125, 137>>[o]

(* ni is counted up to 2: the code asks for 0, for 1 and for more. *)
Counted(ni) == IF ni = 2 THEN 2 ELSE ni + 1

States ==
  [ni : 0 .. 2,               \* stepper calls
   ord : Orders,              \* order for the next step
   ordwait : Nat,             \* steps until the order is considered again
   ordwaitbackup : Nat,
   failord : 0 .. MaxOrder,   \* order and time of the last failure
   failt : Times,
   tprev : Times,             \* start of the last step that succeeded
   gammaprev : Gammas,
   gammaprevbackup : Gammas,
   nJ : Nat, nM : Nat,        \* steps since the Jacobian and M were made
   failcount : Nat,
   hprev : [Orders -> Nat],   \* the last steps, the latest first
   hprevbackup : [Orders -> Nat],
   ordprev : [Orders -> Orders],
   ordprevbackup : [Orders -> Orders],
   z : [0 .. MaxOrder -> Columns],
   zbackup : [0 .. MaxOrder -> Columns],
   abscor : Columns,          \* the last correction
   ownJacobian : BOOLEAN,     \* history: evaluated since the last reset
   ownM : BOOLEAN]            \* history: made from such a Jacobian

First(a) == a[1]

Shift(a, v) == [i \in Orders |-> IF i = 1 THEN v ELSE a[i - 1]]

-----------------------------------------------------------------------------
(* What msbdfactive_alloc returns: it ends with a reset. *)
Allocated ==
  [ni |-> 0, ord |-> 1, ordwait |-> 2, ordwaitbackup |-> 2,
   failord |-> 0, failt |-> NaN, tprev |-> NaN,
   gammaprev |-> [step |-> 0, order |-> 1],
   gammaprevbackup |-> [step |-> 0, order |-> 1],
   nJ |-> 0, nM |-> 0, failcount |-> 0,
   hprev |-> [i \in Orders |-> 0], hprevbackup |-> [i \in Orders |-> 0],
   ordprev |-> [i \in Orders |-> 1], ordprevbackup |-> [i \in Orders |-> 1],
   z |-> NoMatrix, zbackup |-> NoMatrix, abscor |-> NoColumn,
   ownJacobian |-> FALSE, ownM |-> FALSE]

(* The state that msbdfactive_reset leaves is the same, but for abscor, which
   it does not touch.  The matrices keep their elements, and nJ and nM ask for
   new ones. *)
ResetKeepsMatrices(s) ==  \* mutant: the counters of the matrices stay
  [Allocated EXCEPT !.abscor = s.abscor, !.nJ = s.nJ, !.nM = s.nM]
Reset(s) == [Allocated EXCEPT !.abscor = s.abscor]

(* "Decrease order if this is the second time a failure has occurred at this
   order and point"; at the lowest order, start anew. *)
FailureHandler(s, t) ==
  LET second == /\ s.ord = First(s.ordprev)
                /\ s.ord = s.failord
                /\ t = s.failt
  IN IF s.ord = 1 THEN Reset(s)
     ELSE [s EXCEPT !.ord = IF second THEN s.ord - 1 ELSE s.ord,
                    !.failord = s.ord, !.failt = t, !.ni = Counted(@)]

-----------------------------------------------------------------------------
(* msbdfactive_apply begins: "calculation of previous step failed or the step
   was rejected" is told from the time of the call. *)
Rejected(s, t) == s.ni > 0 /\ t \in {s.tprev, s.failt}

Restored(s) ==
  [s EXCEPT !.ord = IF s.ord > First(s.ordprev) THEN First(s.ordprev) ELSE @,
            !.z = s.zbackup, !.hprev = s.hprevbackup,
            !.ordprev = s.ordprevbackup, !.ordwait = s.ordwaitbackup,
            !.gammaprev = s.gammaprevbackup]

(* An order suggested by a step that was rejected is not put back. *)
AfterRejection(s) ==
  LET r == IF s.ni = 1 THEN Reset(s) ELSE Restored(s)
      c == [r EXCEPT !.failcount = @ + 1]
  IN IF c.failcount > MaxFailCount /\ c.ni > 1 THEN Reset(c) ELSE c

BackedUpNotOrders(s) ==  \* mutant: the order history is not saved
  [s EXCEPT !.zbackup = s.z, !.hprevbackup = s.hprev,
            !.ordwaitbackup = s.ordwait,
            !.gammaprevbackup = s.gammaprev, !.failcount = 0]
BackedUp(s) ==
  [s EXCEPT !.zbackup = s.z, !.hprevbackup = s.hprev,
            !.ordprevbackup = s.ordprev, !.ordwaitbackup = s.ordwait,
            !.gammaprevbackup = s.gammaprev, !.failcount = 0]

Begun(s, t) == IF Rejected(s, t) THEN AfterRejection(s) ELSE BackedUp(s)

(* The local ord is read on entry, and again after some of the changes. *)
OrderAfter(s, t) ==
  IF Rejected(s, t) /\ s.ni > 1 THEN AfterRejection(s).ord ELSE s.ord

(* On the first call the matrix is started from y and its derivative. *)
Started(s, h, y, dydt) ==
  IF s.ni > 0 THEN s
  ELSE [s EXCEPT !.z = [NoMatrix EXCEPT ![0] = Column(y, h), ![1] = Column(dydt, h)]]

(* msbdfactive_check_no_order_decrease *)
NoOrderDecrease(a) == \A i \in 2 .. MaxOrder : a[i] <= a[i - 1]

(* msbdfactive_check_step_size_decrease *)
StepSizeDecrease(a) == \E i \in 2 .. MaxOrder : 2 * First(a) < a[i]

(* "Stability enhancement heuristic for msbdfactive" *)
MustLower(s, o) ==
  /\ o > 1
  /\ o = First(s.ordprev)
  /\ NoOrderDecrease(s.ordprev)
  /\ StepSizeDecrease(s.hprev)

Stabilised(s, o) ==
  IF MustLower(s, o) THEN [s EXCEPT !.ord = @ - 1, !.ordwait = o + 2] ELSE s

OrderToTake(s, o) == IF MustLower(s, o) THEN s.ord - 1 ELSE o

(* "msbdfactive_apply too large order change" *)
LargeOrderChange(s, o) == o > First(s.ordprev) + 1 \/ o + 1 < First(s.ordprev)

(* The matrix for the order to take.  Column 2, if it is the one to be added,
   is zero.  A later one is the last correction, of whatever step that was,
   and is taken into those between; a column less is taken into those left. *)
Added(s, o) == IF o > 2 THEN TakesIn(s.abscor, s.z[1]) ELSE NoColumn

ReorderedColumn(s, o, j) ==
  LET last == First(s.ordprev)
  IN CASE o = last + 1 /\ j = o -> Added(s, o)
       [] o = last + 1 /\ j \in 2 .. last -> TakesIn(s.z[j], Added(s, o))
       [] o + 1 = last /\ j \in 2 .. o -> TakesIn(s.z[j], s.z[last])
       [] OTHER -> s.z[j]

Reordered(s, o) ==
  IF o = First(s.ordprev) THEN s
  ELSE [s EXCEPT !.z = [j \in 0 .. MaxOrder |-> ReorderedColumn(s, o, j)]]

(* The matrix for the step to take: columns from 1 on that are scaled with
   the last step are now scaled with this one, others with none. *)
RescaledShort(s, o, h) ==  \* mutant: one column too few
  IF s.ni > 0 /\ h # First(s.hprev)
  THEN [s EXCEPT !.z =
         [j \in 0 .. MaxOrder |->
            IF j \in 1 .. (o - 1) THEN
              [s.z[j] EXCEPT !.step = IF @ = First(s.hprev) THEN h ELSE 0]
            ELSE s.z[j]]]
  ELSE s
Rescaled(s, o, h) ==
  IF s.ni > 0 /\ h # First(s.hprev)
  THEN [s EXCEPT !.z =
         [j \in 0 .. MaxOrder |->
            IF j \in 1 .. o THEN
              [s.z[j] EXCEPT !.step = IF @ = First(s.hprev) THEN h ELSE 0]
            ELSE s.z[j]]]
  ELSE s

(* All that msbdfactive_apply does to take a step of h from t before it first
   calls the function of the system. *)
Prepare(t, h, y, dydt) ==
  LET s == Started(Begun(state, t), h, y, dydt)
      o == OrderAfter(state, t)
      p == Stabilised(s, o)
  IN /\ ord' = OrderToTake(s, o)
     /\ state' = IF LargeOrderChange(p, ord') THEN p
                 ELSE Rescaled(Reordered(p, ord'), ord', h)
-----------------------------------------------------------------------------
(* The prediction: each column up to ord takes in those above it, which
   brings the whole from t to t + h, whatever time it was at. *)
Predicted(s, o, h) ==
  [s EXCEPT !.z =
     [j \in 0 .. MaxOrder |->
        IF j <= o
        THEN [at |-> IF s.z[0].at = NaN THEN NaN ELSE s.z[0].at + h,
              change |-> s.z[0].change, step |-> s.z[1].step,
              own |-> \A i \in j .. o : s.z[i].own]
        ELSE s.z[j]]]

(* gamma / gammaprev is 0.2 or more away from 1 *)
GammaChanged(g, gprev) ==
  LET new == g.step * Sixty(gprev.order)
      old == gprev.step * Sixty(g.order)
  IN 5 * new >= 6 * old \/ 5 * new <= 4 * old

(* msbdfactive_update, which is given t + h as its time. *)
NeedsJacobian(s, at, h, g) ==
  \/ s.nJ = 0
  \/ s.nJ > JacobianWait
  \/ at = s.failt /\ (~GammaChanged(g, s.gammaprev) \/ h < First(s.hprev))

NeedsM(s, at, g) ==
  \/ s.nM = 0
  \/ s.nM > MatrixWait
  \/ GammaChanged(g, s.gammaprev)
  \/ at \in {s.tprev, s.failt}

Updated(s, o, t, h) ==
  LET g == [step |-> h, order |-> o]
      evaluated == NeedsJacobian(s, t + h, h, g)
      made == NeedsM(s, t + h, g)
  IN [s EXCEPT !.nJ = IF evaluated THEN 0 ELSE @,
               !.nM = IF made THEN 0 ELSE @,
               !.ownJacobian = evaluated \/ @,
               !.ownM = IF made THEN evaluated \/ s.ownJacobian ELSE @]

(* Where msbdfactive_corrector stands when it ends: before the update of the
   matrices, that is at its first call of the function, or after it. *)
Corrected(s, o, t, h, updated) ==
  IF updated
  THEN [Updated(Predicted(s, o, h), o, t, h) EXCEPT !.abscor = NoColumn]
  ELSE Predicted(s, o, h)

(* It fails: the iteration diverges or runs out, or the function fails. *)
CorrectorFails(t, h) ==
  /\ \E updated \in BOOLEAN :
       state' = FailureHandler(Corrected(state, ord, t, h, updated), t)
  /\ UNCHANGED ord

(* It stops: the function returns GSL_EBADFUNC. *)
CorrectorInterrupted(t, h) ==
  /\ \E updated \in BOOLEAN : state' = Corrected(state, ord, t, h, updated)
  /\ UNCHANGED ord

(* It gives up on a singular matrix, without a word to the failure handler. *)
CorrectorSingular(t, h) ==
  /\ state' = Corrected(state, ord, t, h, TRUE)
  /\ UNCHANGED ord

(* It converges, and the correction goes into the columns. *)
Converged(s, o, t, h) ==
  LET c == Corrected(s, o, t, h, TRUE) IN [c EXCEPT !.abscor = c.z[0]]

(* The derivatives at the end of the step then fail. *)
OutputFails(t, h) ==
  /\ state' = FailureHandler(Converged(state, ord, t, h), t)
  /\ UNCHANGED ord

OutputInterrupted(t, h) ==
  /\ state' = Converged(state, ord, t, h)
  /\ UNCHANGED ord

(* msbdfactive_eval_order is called when it is time, unless the order was
   changed elsewhere, and may go up or down by one. *)
EvaluatesOrder(s, o) == s.ordwait = 0 /\ o = First(s.ordprev)

NextOrders(s, o) ==
  IF EvaluatesOrder(s, o) THEN {o - 1, o, o + 1} \cap Orders ELSE {s.ord}

NextWaitUnlessChanged(s, o, next) ==  \* mutant: no wait if changed elsewhere
  IF EvaluatesOrder(s, o) THEN next + 2 ELSE s.ordwait
NextWait(s, o, next) ==
  IF EvaluatesOrder(s, o) THEN next + 2
  ELSE IF s.ordwait = 0 THEN 2 ELSE s.ordwait

(* The bookkeeping of a step that succeeded. *)
Taken(s, o, t, h, next) ==
  [s EXCEPT !.ord = next, !.ordwait = NextWait(s, o, next) - 1,
            !.hprev = Shift(@, h), !.ordprev = Shift(@, o),
            !.tprev = t, !.ni = Counted(@),
            !.gammaprev = [step |-> h, order |-> o],
            !.nJ = @ + 1, !.nM = @ + 1]

StepSucceeds(t, h) ==
  LET c == Converged(state, ord, t, h)
  IN /\ \E next \in NextOrders(c, ord) : state' = Taken(c, ord, t, h, next)
     /\ UNCHANGED ord
=============================================================================
