--------------------------- MODULE OdeDriver_proofs ---------------------------
(***************************************************************************)
(* What holds of every solution, however long, for every set of step sizes *)
(* and every number of troubles and changes: the types, and that the order *)
(* of the stepper never runs away from that of its matrix.                 *)
(***************************************************************************)
EXTENDS OdeDriver, TLAPS

Near(a, b) == a <= b + 1 /\ b <= a + 1

(* The order for the next step is near that of the matrix, and, after a
   rejection, near that of the backup.  It is 1 as long as no step stands. *)
OrderInv(s) ==
  /\ Near(s.ord, s.ordprev[1])
  /\ Near(Smaller(s.ord, s.ordprev[1]), s.ordprevbackup[1])
  /\ s.ni <= 1 => s.ord = 1
  /\ s.ni = 0 => s.ordwait = 2

(* What the start of a step brings about. *)
Ready(s) == s.ordprev[1] = s.ordprevbackup[1]

LEMMA OrdersAreSmall == Orders \subseteq Nat \ {0} /\ 1 \in Orders /\ 2 \in Orders
BY StepperAssumption DEF Orders

LEMMA EmptyMatrix == NoMatrix \in [0 .. MaxOrder -> Columns] /\ NoColumn \in Columns
BY DEF NoMatrix, NoColumn, Columns, Times

LEMMA AllocatedOK == Allocated \in States /\ OrderInv(Allocated) /\ Ready(Allocated)
<1>1. Allocated \in States
  BY OrdersAreSmall, EmptyMatrix, StepperAssumption
  DEF Allocated, States, Times, Gammas
<1>2. OrderInv(Allocated) /\ Ready(Allocated)
  BY OrdersAreSmall DEF Allocated, OrderInv, Ready, Near, Smaller
<1> QED BY <1>1, <1>2

(* A field of the state may be given any value of its type. *)
LEMMA SetNi == \A s \in States, v \in 0 .. 2 : [s EXCEPT !.ni = v] \in States
BY DEF States
LEMMA SetOrd == \A s \in States, v \in Orders : [s EXCEPT !.ord = v] \in States
BY DEF States
LEMMA SetOrdwait == \A s \in States, v \in Nat : [s EXCEPT !.ordwait = v] \in States
BY DEF States
LEMMA SetOrdwaitbackup == \A s \in States, v \in Nat : [s EXCEPT !.ordwaitbackup = v] \in States
BY DEF States
LEMMA SetFailord == \A s \in States, v \in 0 .. MaxOrder : [s EXCEPT !.failord = v] \in States
BY DEF States
LEMMA SetFailt == \A s \in States, v \in Times : [s EXCEPT !.failt = v] \in States
BY DEF States
LEMMA SetTprev == \A s \in States, v \in Times : [s EXCEPT !.tprev = v] \in States
BY DEF States
LEMMA SetGammaprev == \A s \in States, v \in Gammas : [s EXCEPT !.gammaprev = v] \in States
BY DEF States
LEMMA SetGammaprevbackup == \A s \in States, v \in Gammas : [s EXCEPT !.gammaprevbackup = v] \in States
BY DEF States
LEMMA SetNJ == \A s \in States, v \in Nat : [s EXCEPT !.nJ = v] \in States
BY DEF States
LEMMA SetNM == \A s \in States, v \in Nat : [s EXCEPT !.nM = v] \in States
BY DEF States
LEMMA SetFailcount == \A s \in States, v \in Nat : [s EXCEPT !.failcount = v] \in States
BY DEF States
LEMMA SetHprev == \A s \in States, v \in [Orders -> Nat] : [s EXCEPT !.hprev = v] \in States
BY DEF States
LEMMA SetHprevbackup == \A s \in States, v \in [Orders -> Nat] : [s EXCEPT !.hprevbackup = v] \in States
BY DEF States
LEMMA SetOrdprev == \A s \in States, v \in [Orders -> Orders] : [s EXCEPT !.ordprev = v] \in States
BY DEF States
LEMMA SetOrdprevbackup == \A s \in States, v \in [Orders -> Orders] : [s EXCEPT !.ordprevbackup = v] \in States
BY DEF States
LEMMA SetZ == \A s \in States, v \in [0 .. MaxOrder -> Columns] : [s EXCEPT !.z = v] \in States
BY DEF States
LEMMA SetZbackup == \A s \in States, v \in [0 .. MaxOrder -> Columns] : [s EXCEPT !.zbackup = v] \in States
BY DEF States
LEMMA SetAbscor == \A s \in States, v \in Columns : [s EXCEPT !.abscor = v] \in States
BY DEF States
LEMMA SetOwnJacobian == \A s \in States, v \in BOOLEAN : [s EXCEPT !.ownJacobian = v] \in States
BY DEF States
LEMMA SetOwnM == \A s \in States, v \in BOOLEAN : [s EXCEPT !.ownM = v] \in States
BY DEF States

(* And each field has its type. *)
LEMMA Fields ==
  ASSUME NEW s \in States
  PROVE  /\ s.ni \in 0 .. 2 /\ s.ord \in Orders /\ s.ordwait \in Nat
         /\ s.ordwaitbackup \in Nat /\ s.failord \in 0 .. MaxOrder /\ s.failt \in Times
         /\ s.tprev \in Times /\ s.gammaprev \in Gammas /\ s.gammaprevbackup \in Gammas
         /\ s.nJ \in Nat /\ s.nM \in Nat /\ s.failcount \in Nat
         /\ s.hprev \in [Orders -> Nat] /\ s.hprevbackup \in [Orders -> Nat]
         /\ s.ordprev \in [Orders -> Orders] /\ s.ordprevbackup \in [Orders -> Orders]
         /\ s.ordprev[1] \in Orders /\ s.ordprevbackup[1] \in Orders
         /\ s.z \in [0 .. MaxOrder -> Columns] /\ s.zbackup \in [0 .. MaxOrder -> Columns]
         /\ s.abscor \in Columns /\ s.ownJacobian \in BOOLEAN /\ s.ownM \in BOOLEAN
<1>1. s.ordprev \in [Orders -> Orders] /\ s.ordprevbackup \in [Orders -> Orders]
  BY DEF States
<1>2. s.ordprev[1] \in Orders /\ s.ordprevbackup[1] \in Orders
  BY <1>1, OrdersAreSmall
<1> QED BY <1>1, <1>2 DEF States

(* So may several, as the operations of the stepper do. *)
WithFailure(s, v1, v2, v3, v4) ==
  [s EXCEPT !.ord = v1, !.failord = v2, !.failt = v3, !.ni = v4]
LEMMA UpdateFailed ==
  ASSUME NEW s \in States, NEW v1 \in Orders, NEW v2 \in 0 .. MaxOrder,
         NEW v3 \in Times, NEW v4 \in 0 .. 2,
         NEW r, r = WithFailure(s, v1, v2, v3, v4)
  PROVE  /\ r \in States
         /\ r.ord = v1 /\ r.ni = v4 /\ r.ordwait = s.ordwait
         /\ r.ordprev = s.ordprev /\ r.ordprevbackup = s.ordprevbackup /\ r.z = s.z
         /\ r.failcount = s.failcount
         /\ r.hprev = s.hprev /\ r.hprevbackup = s.hprevbackup
         /\ r.tprev = s.tprev /\ r.failt = v3
<1>1. [s EXCEPT !.ord = v1, !.failord = v2, !.failt = v3, !.ni = v4] \in States
  BY Zenon, SetOrd, SetFailord, SetFailt, SetNi
<1>2. r \in States BY <1>1, Zenon DEF WithFailure
<1>3. /\ r.ord = v1 /\ r.ni = v4 /\ r.ordwait = s.ordwait
      /\ r.ordprev = s.ordprev /\ r.ordprevbackup = s.ordprevbackup /\ r.z = s.z
      /\ r.failcount = s.failcount
      /\ r.hprev = s.hprev /\ r.hprevbackup = s.hprevbackup
      /\ r.tprev = s.tprev /\ r.failt = v3
  BY SMT DEF States, WithFailure
<1> QED BY <1>2, <1>3

WithRestored(s, v1, v2, v3, v4, v5, v6) ==
  [s EXCEPT !.ord = v1, !.z = v2, !.hprev = v3, !.ordprev = v4, !.ordwait = v5,
            !.gammaprev = v6]
LEMMA UpdateRestored ==
  ASSUME NEW s \in States, NEW v1 \in Orders,
         NEW v2 \in [0 .. MaxOrder -> Columns], NEW v3 \in [Orders -> Nat],
         NEW v4 \in [Orders -> Orders], NEW v5 \in Nat, NEW v6 \in Gammas,
         NEW r, r = WithRestored(s, v1, v2, v3, v4, v5, v6)
  PROVE  /\ r \in States
         /\ r.ord = v1 /\ r.z = v2 /\ r.ordprev = v4
         /\ r.ordwait = v5 /\ r.ni = s.ni /\ r.ordprevbackup = s.ordprevbackup
         /\ r.failcount = s.failcount
         /\ r.hprev = v3 /\ r.hprevbackup = s.hprevbackup
         /\ r.tprev = s.tprev /\ r.failt = s.failt
<1>1. [s EXCEPT !.ord = v1, !.z = v2, !.hprev = v3, !.ordprev = v4,
                !.ordwait = v5, !.gammaprev = v6] \in States
  BY Zenon, SetOrd, SetZ, SetHprev, SetOrdprev, SetOrdwait, SetGammaprev
<1>2. r \in States BY <1>1, Zenon DEF WithRestored
<1>3. /\ r.ord = v1 /\ r.z = v2 /\ r.ordprev = v4
      /\ r.ordwait = v5 /\ r.ni = s.ni /\ r.ordprevbackup = s.ordprevbackup
      /\ r.failcount = s.failcount
      /\ r.hprev = v3 /\ r.hprevbackup = s.hprevbackup
      /\ r.tprev = s.tprev /\ r.failt = s.failt
  BY SMT DEF States, WithRestored
<1> QED BY <1>2, <1>3

WithBackup(s, v1, v2, v3, v4, v5) ==
  [s EXCEPT !.zbackup = v1, !.hprevbackup = v2, !.ordprevbackup = v3,
            !.ordwaitbackup = v4, !.gammaprevbackup = v5, !.failcount = 0]
LEMMA UpdateBackedUp ==
  ASSUME NEW s \in States, NEW v1 \in [0 .. MaxOrder -> Columns],
         NEW v2 \in [Orders -> Nat], NEW v3 \in [Orders -> Orders],
         NEW v4 \in Nat, NEW v5 \in Gammas,
         NEW r, r = WithBackup(s, v1, v2, v3, v4, v5)
  PROVE  /\ r \in States
         /\ r.ordprevbackup = v3 /\ r.failcount = 0 /\ r.ni = s.ni
         /\ r.ord = s.ord /\ r.ordwait = s.ordwait /\ r.ordprev = s.ordprev
         /\ r.z = s.z
         /\ r.hprev = s.hprev /\ r.hprevbackup = v2
         /\ r.tprev = s.tprev /\ r.failt = s.failt
<1>1. [s EXCEPT !.zbackup = v1, !.hprevbackup = v2, !.ordprevbackup = v3,
                !.ordwaitbackup = v4, !.gammaprevbackup = v5, !.failcount = 0] \in States
  <2>1. 0 \in Nat OBVIOUS
  <2> QED
  BY <2>1, Zenon, SetZbackup, SetHprevbackup, SetOrdprevbackup, SetOrdwaitbackup,
            SetGammaprevbackup, SetFailcount
<1>2. r \in States BY <1>1, Zenon DEF WithBackup
<1>3. /\ r.ordprevbackup = v3 /\ r.failcount = 0 /\ r.ni = s.ni
      /\ r.ord = s.ord /\ r.ordwait = s.ordwait /\ r.ordprev = s.ordprev
      /\ r.z = s.z
      /\ r.hprev = s.hprev /\ r.hprevbackup = v2
      /\ r.tprev = s.tprev /\ r.failt = s.failt
  BY SMT DEF States, WithBackup
<1> QED BY <1>2, <1>3

WithFailcount(s, v1) ==
  [s EXCEPT !.failcount = v1]
LEMMA UpdateFailcount ==
  ASSUME NEW s \in States, NEW v1 \in Nat,
         NEW r, r = WithFailcount(s, v1)
  PROVE  /\ r \in States
         /\ r.failcount = v1 /\ r.ni = s.ni /\ r.ord = s.ord
         /\ r.ordwait = s.ordwait /\ r.ordprev = s.ordprev /\ r.ordprevbackup = s.ordprevbackup
         /\ r.z = s.z
         /\ r.hprev = s.hprev /\ r.hprevbackup = s.hprevbackup
         /\ r.tprev = s.tprev /\ r.failt = s.failt
<1>1. WithFailcount(s, v1) \in States
  BY Zenon, SetFailcount DEF WithFailcount
<1>2. r \in States BY <1>1, Zenon
<1>3. /\ r.failcount = v1 /\ r.ni = s.ni /\ r.ord = s.ord
      /\ r.ordwait = s.ordwait /\ r.ordprev = s.ordprev /\ r.ordprevbackup = s.ordprevbackup
      /\ r.z = s.z
      /\ r.hprev = s.hprev /\ r.hprevbackup = s.hprevbackup
      /\ r.tprev = s.tprev /\ r.failt = s.failt
  BY SMT DEF States, WithFailcount
<1> QED BY <1>2, <1>3

WithMatrix(s, v1) ==
  [s EXCEPT !.z = v1]
LEMMA UpdateMatrix ==
  ASSUME NEW s \in States, NEW v1 \in [0 .. MaxOrder -> Columns],
         NEW r, r = WithMatrix(s, v1)
  PROVE  /\ r \in States
         /\ r.z = v1 /\ r.ni = s.ni /\ r.ord = s.ord
         /\ r.ordwait = s.ordwait /\ r.ordprev = s.ordprev /\ r.ordprevbackup = s.ordprevbackup
         /\ r.failcount = s.failcount
         /\ r.hprev = s.hprev /\ r.hprevbackup = s.hprevbackup
         /\ r.tprev = s.tprev /\ r.failt = s.failt
<1>1. WithMatrix(s, v1) \in States
  BY Zenon, SetZ DEF WithMatrix
<1>2. r \in States BY <1>1, Zenon
<1>3. /\ r.z = v1 /\ r.ni = s.ni /\ r.ord = s.ord
      /\ r.ordwait = s.ordwait /\ r.ordprev = s.ordprev /\ r.ordprevbackup = s.ordprevbackup
      /\ r.failcount = s.failcount
      /\ r.hprev = s.hprev /\ r.hprevbackup = s.hprevbackup
      /\ r.tprev = s.tprev /\ r.failt = s.failt
  BY SMT DEF States, WithMatrix
<1> QED BY <1>2, <1>3

WithCorrection(s, v1) ==
  [s EXCEPT !.abscor = v1]
LEMMA UpdateCorrection ==
  ASSUME NEW s \in States, NEW v1 \in Columns,
         NEW r, r = WithCorrection(s, v1)
  PROVE  /\ r \in States
         /\ r.ni = s.ni /\ r.ord = s.ord /\ r.ordwait = s.ordwait
         /\ r.ordprev = s.ordprev /\ r.ordprevbackup = s.ordprevbackup /\ r.z = s.z
         /\ r.failcount = s.failcount
         /\ r.hprev = s.hprev /\ r.hprevbackup = s.hprevbackup
         /\ r.tprev = s.tprev /\ r.failt = s.failt
<1>1. WithCorrection(s, v1) \in States
  BY Zenon, SetAbscor DEF WithCorrection
<1>2. r \in States BY <1>1, Zenon
<1>3. /\ r.ni = s.ni /\ r.ord = s.ord /\ r.ordwait = s.ordwait
      /\ r.ordprev = s.ordprev /\ r.ordprevbackup = s.ordprevbackup /\ r.z = s.z
      /\ r.failcount = s.failcount
      /\ r.hprev = s.hprev /\ r.hprevbackup = s.hprevbackup
      /\ r.tprev = s.tprev /\ r.failt = s.failt
  BY SMT DEF States, WithCorrection
<1> QED BY <1>2, <1>3

WithOrder(s, v1, v2) ==
  [s EXCEPT !.ord = v1, !.ordwait = v2]
LEMMA UpdateLowered ==
  ASSUME NEW s \in States, NEW v1 \in Orders, NEW v2 \in Nat,
         NEW r, r = WithOrder(s, v1, v2)
  PROVE  /\ r \in States
         /\ r.ord = v1 /\ r.ordwait = v2 /\ r.ni = s.ni
         /\ r.ordprev = s.ordprev /\ r.ordprevbackup = s.ordprevbackup /\ r.z = s.z
         /\ r.failcount = s.failcount
         /\ r.hprev = s.hprev /\ r.hprevbackup = s.hprevbackup
         /\ r.tprev = s.tprev /\ r.failt = s.failt
<1>1. WithOrder(s, v1, v2) \in States
  BY Zenon, SetOrd, SetOrdwait DEF WithOrder
<1>2. r \in States BY <1>1, Zenon
<1>3. /\ r.ord = v1 /\ r.ordwait = v2 /\ r.ni = s.ni
      /\ r.ordprev = s.ordprev /\ r.ordprevbackup = s.ordprevbackup /\ r.z = s.z
      /\ r.failcount = s.failcount
      /\ r.hprev = s.hprev /\ r.hprevbackup = s.hprevbackup
      /\ r.tprev = s.tprev /\ r.failt = s.failt
  BY SMT DEF States, WithOrder
<1> QED BY <1>2, <1>3

WithUpdate(s, v1, v2, v3, v4) ==
  [s EXCEPT !.nJ = v1, !.nM = v2, !.ownJacobian = v3, !.ownM = v4]
LEMMA UpdateMatrices ==
  ASSUME NEW s \in States, NEW v1 \in Nat, NEW v2 \in Nat, NEW v3 \in BOOLEAN,
         NEW v4 \in BOOLEAN,
         NEW r, r = WithUpdate(s, v1, v2, v3, v4)
  PROVE  /\ r \in States
         /\ r.ni = s.ni /\ r.ord = s.ord /\ r.ordwait = s.ordwait
         /\ r.ordprev = s.ordprev /\ r.ordprevbackup = s.ordprevbackup /\ r.z = s.z
         /\ r.failcount = s.failcount
         /\ r.hprev = s.hprev /\ r.hprevbackup = s.hprevbackup
         /\ r.tprev = s.tprev /\ r.failt = s.failt
<1>1. [s EXCEPT !.nJ = v1, !.nM = v2, !.ownJacobian = v3, !.ownM = v4] \in States
  BY Zenon, SetNJ, SetNM, SetOwnJacobian, SetOwnM
<1>2. r \in States BY <1>1, Zenon DEF WithUpdate
<1>3. /\ r.ni = s.ni /\ r.ord = s.ord /\ r.ordwait = s.ordwait
      /\ r.ordprev = s.ordprev /\ r.ordprevbackup = s.ordprevbackup /\ r.z = s.z
      /\ r.failcount = s.failcount
      /\ r.hprev = s.hprev /\ r.hprevbackup = s.hprevbackup
      /\ r.tprev = s.tprev /\ r.failt = s.failt
  BY SMT DEF States, WithUpdate
<1> QED BY <1>2, <1>3

WithStep(s, v1, v2, v3, v4, v5, v6, v7, v8, v9) ==
  [s EXCEPT !.ord = v1, !.ordwait = v2, !.hprev = v3, !.ordprev = v4,
            !.tprev = v5, !.ni = v6, !.gammaprev = v7, !.nJ = v8, !.nM = v9]
LEMMA UpdateTaken ==
  ASSUME NEW s, NEW v1, NEW v2, NEW v3, NEW v4, NEW v5, NEW v6, NEW v7, NEW v8, NEW v9,
         s \in States, v1 \in Orders, v2 \in Nat, v3 \in [Orders -> Nat],
         v4 \in [Orders -> Orders], v5 \in Times, v6 \in 0 .. 2, v7 \in Gammas,
         v8 \in Nat, v9 \in Nat,
         NEW r, r = WithStep(s, v1, v2, v3, v4, v5, v6, v7, v8, v9)
  PROVE  /\ r \in States
         /\ r.ord = v1 /\ r.ordwait = v2 /\ r.ordprev = v4
         /\ r.ni = v6 /\ r.ordprevbackup = s.ordprevbackup /\ r.z = s.z
         /\ r.failcount = s.failcount
         /\ r.hprev = v3 /\ r.hprevbackup = s.hprevbackup
         /\ r.tprev = v5 /\ r.failt = s.failt
<1>1. [s EXCEPT !.ord = v1, !.ordwait = v2, !.hprev = v3, !.ordprev = v4,
                !.tprev = v5, !.ni = v6, !.gammaprev = v7, !.nJ = v8,
                !.nM = v9] \in States
  BY Zenon, SetOrd, SetOrdwait, SetHprev, SetOrdprev, SetTprev, SetNi,
            SetGammaprev, SetNJ, SetNM
<1>2. r \in States BY <1>1, Zenon DEF WithStep
<1>3. /\ r.ord = v1 /\ r.ordwait = v2 /\ r.ordprev = v4
      /\ r.ni = v6 /\ r.ordprevbackup = s.ordprevbackup /\ r.z = s.z
      /\ r.failcount = s.failcount
      /\ r.hprev = v3 /\ r.hprevbackup = s.hprevbackup
      /\ r.tprev = v5 /\ r.failt = s.failt
  BY SMT DEF States, WithStep
<1> QED BY <1>2, <1>3

-----------------------------------------------------------------------------
(* The parts of a state that tell of the steps, and not of the matrices. *)
SameHistory(r, s) ==
  /\ r.ni = s.ni /\ r.ord = s.ord /\ r.ordwait = s.ordwait
  /\ r.ordprev = s.ordprev /\ r.ordprevbackup = s.ordprevbackup
  /\ r.hprev = s.hprev /\ r.hprevbackup = s.hprevbackup
  /\ r.tprev = s.tprev /\ r.failt = s.failt

(* The stepper is to start from the solution that it is given. *)
Fresh(s) == s.ni = 0 /\ s.tprev = NaN /\ s.failt = NaN

LEMMA ResetOK ==
  ASSUME NEW s \in States
  PROVE  /\ Reset(s) \in States /\ OrderInv(Reset(s)) /\ Ready(Reset(s))
         /\ Reset(s).ord = 1 /\ Fresh(Reset(s))
<1>1. Allocated \in States /\ s.abscor \in Columns
  BY AllocatedOK, Fields
<1>2. /\ Reset(s) \in States
      /\ Reset(s).ord = Allocated.ord /\ Reset(s).ni = Allocated.ni
      /\ Reset(s).ordwait = Allocated.ordwait
      /\ Reset(s).ordprev = Allocated.ordprev
      /\ Reset(s).ordprevbackup = Allocated.ordprevbackup
      /\ Reset(s).tprev = Allocated.tprev /\ Reset(s).failt = Allocated.failt
  BY <1>1, UpdateCorrection DEF Reset, WithCorrection
<1>3. Allocated.ord = 1 /\ Fresh(Allocated)
  BY DEF Allocated, Fresh
<1> QED BY <1>2, <1>3, AllocatedOK, Zenon DEF OrderInv, Ready, Fresh

(* A failure leaves the order where it is, or one lower, or starts anew. *)
LEMMA FailureHandlerOK ==
  ASSUME NEW s \in States, NEW t \in Nat, OrderInv(s), Ready(s)
  PROVE  /\ FailureHandler(s, t) \in States
         /\ OrderInv(FailureHandler(s, t))
         /\ \/ Fresh(FailureHandler(s, t))
            \/ /\ FailureHandler(s, t).ni = s.ni /\ s.ni = 2
               /\ FailureHandler(s, t).hprev = s.hprev
               /\ FailureHandler(s, t).hprevbackup = s.hprevbackup
               /\ FailureHandler(s, t).tprev = s.tprev
               /\ FailureHandler(s, t).failt = t
<1>1. CASE s.ord = 1
  BY <1>1, ResetOK, Zenon DEF FailureHandler
<1>2. CASE s.ord # 1
  <2> DEFINE lower == IF s.ord = First(s.ordprev) /\ s.ord = s.failord /\ t = s.failt
                      THEN s.ord - 1 ELSE s.ord
             f == FailureHandler(s, t)
  <2>1. f = WithFailure(s, lower, s.ord, t, Counted(s.ni))
    BY <1>2, Zenon DEF FailureHandler, WithFailure
  <2>2. /\ s.ord \in Orders /\ s.ordprev[1] \in Orders /\ s.ordprevbackup[1] \in Orders
        /\ s.ni \in 0 .. 2
    BY Fields, Zenon
  <2>3. /\ s.ord \in 0 .. MaxOrder /\ s.ord \in Nat /\ s.ord > 1
        /\ s.ordprev[1] \in Nat /\ s.ordprevbackup[1] \in Nat
    BY <1>2, <2>2, StepperAssumption DEF Orders
  <2>4. Counted(s.ni) = 2 /\ s.ni = 2
    BY <1>2, <2>2 DEF OrderInv, Counted
  <2>5. \/ lower = s.ord
        \/ lower = s.ord - 1 /\ s.ord = s.ordprev[1]
    BY DEF First
  <2>6. lower \in Orders
    BY <2>2, <2>3, <2>5, StepperAssumption DEF Orders
  <2>7. t \in Times
    BY DEF Times
  <2> HIDE DEF lower, f
  <2>8. /\ f \in States
        /\ f.ord = lower /\ f.ni = 2 /\ f.ordprev = s.ordprev
        /\ f.ordprevbackup = s.ordprevbackup
        /\ f.hprev = s.hprev /\ f.hprevbackup = s.hprevbackup
        /\ f.tprev = s.tprev /\ f.failt = t
    <3>1. 2 \in 0 .. 2 OBVIOUS
    <3> QED BY <2>1, <2>3, <2>4, <2>6, <2>7, <3>1, UpdateFailed
  <2>9. OrderInv(f)
    BY <2>3, <2>5, <2>8 DEF OrderInv, Ready, Near, Smaller
  <2> QED BY <2>4, <2>8, <2>9 DEF f
<1> QED BY <1>1, <1>2

(* The order is that of the matrix that is left, or near it. *)
LEMMA AfterRejectionOK ==
  ASSUME NEW s \in States, OrderInv(s), s.ni > 0
  PROVE  /\ AfterRejection(s) \in States
         /\ OrderInv(AfterRejection(s)) /\ Ready(AfterRejection(s))
         /\ s.ni = 1 => AfterRejection(s).ord = s.ord
         /\ \/ Fresh(AfterRejection(s))
            \/ /\ AfterRejection(s).ni = s.ni /\ s.ni = 2
               /\ AfterRejection(s).hprev = s.hprevbackup
               /\ AfterRejection(s).hprevbackup = s.hprevbackup
               /\ AfterRejection(s).tprev = s.tprev
               /\ AfterRejection(s).failt = s.failt
<1> DEFINE r == IF s.ni = 1 THEN Reset(s) ELSE Restored(s)
           c == [r EXCEPT !.failcount = @ + 1]
           kept(q) == /\ q.ni = s.ni /\ s.ni = 2
                      /\ q.hprev = s.hprevbackup /\ q.hprevbackup = s.hprevbackup
                      /\ q.tprev = s.tprev /\ q.failt = s.failt
<1>1. /\ r \in States /\ OrderInv(r) /\ Ready(r)
      /\ s.ni = 1 => r.ni = 0 /\ r.ord = s.ord
      /\ Fresh(r) \/ kept(r)
  <2>1. CASE s.ni = 1
    BY <2>1, ResetOK DEF OrderInv, Fresh
  <2>2. CASE s.ni # 1
    <3> DEFINE f == Restored(s)
               lower == IF s.ord > First(s.ordprev) THEN First(s.ordprev) ELSE s.ord
    <3>1. f = WithRestored(s, lower, s.zbackup, s.hprevbackup, s.ordprevbackup,
                           s.ordwaitbackup, s.gammaprevbackup)
      BY Zenon DEF Restored, WithRestored
    <3>2. /\ s.ord \in Orders /\ s.ordprev[1] \in Orders
          /\ s.ordprevbackup[1] \in Orders /\ s.ni \in 0 .. 2
      BY Fields, Zenon
    <3>3. /\ s.ord \in Nat /\ s.ordprev[1] \in Nat /\ s.ordprevbackup[1] \in Nat
      BY <3>2 DEF Orders
    <3>4. lower = Smaller(s.ord, s.ordprev[1]) /\ lower \in Orders /\ lower \in Nat
      BY <3>2, <3>3 DEF First, Smaller
    <3> HIDE DEF f, lower
    <3>5. /\ f \in States
          /\ f.ord = lower /\ f.ordprev = s.ordprevbackup
          /\ f.ni = s.ni /\ f.ordprevbackup = s.ordprevbackup
          /\ f.hprev = s.hprevbackup /\ f.hprevbackup = s.hprevbackup
          /\ f.tprev = s.tprev /\ f.failt = s.failt
      <4>1. /\ s.zbackup \in [0 .. MaxOrder -> Columns]
            /\ s.hprevbackup \in [Orders -> Nat]
            /\ s.ordprevbackup \in [Orders -> Orders]
            /\ s.ordwaitbackup \in Nat /\ s.gammaprevbackup \in Gammas
        BY Fields, Zenon
      <4> QED BY <3>1, <3>4, <4>1, UpdateRestored
    <3>6. s.ni = 2 BY <2>2, <3>2
    <3>7. OrderInv(f) /\ Ready(f)
      BY <3>3, <3>4, <3>5, <3>6 DEF OrderInv, Ready, Near, Smaller
    <3> QED BY <2>2, <3>5, <3>6, <3>7 DEF f
  <2> QED BY <2>1, <2>2
<1> HIDE DEF r
<1>2. c \in States /\ SameHistory(c, r)
  <2>1. r.failcount + 1 \in Nat BY <1>1, Fields
  <2> QED BY <1>1, <2>1, UpdateFailcount DEF WithFailcount, SameHistory
<1> HIDE DEF c
<1>3. OrderInv(c) /\ Ready(c) /\ (Fresh(c) \/ kept(c))
  BY <1>1, <1>2, Zenon DEF SameHistory, OrderInv, Ready, Fresh
<1>7. s.ni = 1 => c.ni = 0 /\ c.ord = s.ord
  BY <1>1, <1>2, Zenon DEF SameHistory
<1>4. AfterRejection(s) = IF c.failcount > MaxFailCount /\ c.ni > 1 THEN Reset(c) ELSE c
  BY Zenon DEF AfterRejection, r, c
<1>5. CASE c.failcount > MaxFailCount /\ c.ni > 1
  BY <1>2, <1>4, <1>5, <1>7, ResetOK
<1>6. CASE ~(c.failcount > MaxFailCount /\ c.ni > 1)
  BY <1>2, <1>3, <1>4, <1>6, <1>7
<1> QED BY <1>5, <1>6

(* The step goes on from those before, of which the last is backed up: the one
   in hprev, or, after a rejection, the one before it. *)
Continues(r, s, t) ==
  /\ r.ni = s.ni /\ r.tprev = s.tprev /\ r.failt = s.failt
  /\ r.hprev = IF Rejected(s, t) THEN s.hprevbackup ELSE s.hprev
  /\ r.hprevbackup = r.hprev
  /\ Rejected(s, t) => s.ni = 2

(* Whatever came before, the history of the orders is backed up, and the order
   with which the step starts is that of the state. *)
LEMMA BegunOK ==
  ASSUME NEW s \in States, NEW t \in Nat, OrderInv(s)
  PROVE  /\ Begun(s, t) \in States /\ OrderInv(Begun(s, t)) /\ Ready(Begun(s, t))
         /\ OrderAfter(s, t) = Begun(s, t).ord
         /\ Fresh(Begun(s, t)) \/ Continues(Begun(s, t), s, t)
<1>1. CASE Rejected(s, t)
  <2>1. s.ni > 0 /\ s.ni \in 0 .. 2 BY <1>1, Fields DEF Rejected
  <2>2. Begun(s, t) = AfterRejection(s) BY <1>1, Zenon DEF Begun
  <2>3. CASE s.ni = 1
    BY <1>1, <2>1, <2>2, <2>3, AfterRejectionOK DEF OrderAfter, Continues
  <2>4. CASE s.ni > 1
    BY <1>1, <2>1, <2>2, <2>4, AfterRejectionOK DEF OrderAfter, Continues
  <2> QED BY <2>1, <2>3, <2>4
<1>2. CASE ~Rejected(s, t)
  <2> DEFINE b == Begun(s, t)
  <2>1. b = WithBackup(s, s.z, s.hprev, s.ordprev, s.ordwait, s.gammaprev)
    BY <1>2, Zenon DEF Begun, BackedUp, WithBackup
  <2> HIDE DEF b
  <2>3. /\ b \in States /\ b.ordprevbackup = s.ordprev /\ b.ni = s.ni
        /\ b.ord = s.ord /\ b.ordwait = s.ordwait /\ b.ordprev = s.ordprev
        /\ b.hprev = s.hprev /\ b.hprevbackup = s.hprev
        /\ b.tprev = s.tprev /\ b.failt = s.failt
    <3>1. /\ s.z \in [0 .. MaxOrder -> Columns] /\ s.hprev \in [Orders -> Nat]
          /\ s.ordprev \in [Orders -> Orders] /\ s.ordwait \in Nat
          /\ s.gammaprev \in Gammas
      BY Fields, Zenon
    <3> QED BY <2>1, <3>1, UpdateBackedUp, SMTT(60)
  <2>4. s.ord \in Nat /\ s.ordprev[1] \in Nat
    <3>1. s.ord \in Orders /\ s.ordprev[1] \in Orders BY Fields, Zenon
    <3> QED BY <3>1 DEF Orders
  <2>5. OrderInv(b) /\ Ready(b)
    BY <2>3, <2>4 DEF OrderInv, Ready, Near, Smaller
  <2>6. OrderAfter(s, t) = b.ord
    BY <1>2, <2>3, Zenon DEF OrderAfter
  <2>7. Continues(b, s, t)
    BY <1>2, <2>3, Zenon DEF Continues
  <2> QED BY <2>3, <2>5, <2>6, <2>7 DEF b
<1> QED BY <1>1, <1>2

LEMMA SameInv ==
  ASSUME NEW r, NEW s, SameHistory(r, s)
  PROVE  /\ OrderInv(s) => OrderInv(r)
         /\ Ready(s) => Ready(r)
BY Zenon DEF SameHistory, OrderInv, Ready

(* Columns made of columns, points and steps. *)
LEMMA ColumnsOK ==
  /\ \A p \in Points, step \in Nat : Column(p, step) \in Columns
  /\ \A c \in Columns, step \in Nat : [c EXCEPT !.step = step] \in Columns
  /\ \A c, d \in Columns : TakesIn(c, d) \in Columns
BY DEF Column, Points, Columns, TakesIn, SameStep

LEMMA MatrixOK ==
  ASSUME NEW s \in States, NEW j \in 0 .. MaxOrder
  PROVE  s.z[j] \in Columns
BY Fields

LEMMA StartedOK ==
  ASSUME NEW s \in States, NEW step \in Nat, NEW p \in Points, NEW q \in Points
  PROVE  Started(s, step, p, q) \in States /\ SameHistory(Started(s, step, p, q), s)
<1>1. CASE s.ni > 0
  BY <1>1 DEF Started, SameHistory
<1>2. CASE ~(s.ni > 0)
  <2> DEFINE m == [NoMatrix EXCEPT ![0] = Column(p, step), ![1] = Column(q, step)]
             r == Started(s, step, p, q)
  <2>1. r = WithMatrix(s, m)
    BY <1>2, Zenon DEF Started, WithMatrix
  <2>2. m \in [0 .. MaxOrder -> Columns]
    BY EmptyMatrix, ColumnsOK
  <2> HIDE DEF m, r
  <2>3. r \in States /\ SameHistory(r, s)
    BY <2>1, <2>2, UpdateMatrix DEF SameHistory
  <2> QED BY <2>3 DEF r
<1> QED BY <1>1, <1>2

SameSteps(r, s) ==
  /\ r.ni = s.ni /\ r.hprev = s.hprev /\ r.hprevbackup = s.hprevbackup
  /\ r.tprev = s.tprev /\ r.failt = s.failt

(* The heuristic lowers the order only if it is that of the matrix. *)
LEMMA StabilisedOK ==
  ASSUME NEW s \in States, OrderInv(s), Ready(s)
  PROVE  /\ Stabilised(s, s.ord) \in States
         /\ OrderInv(Stabilised(s, s.ord)) /\ Ready(Stabilised(s, s.ord))
         /\ OrderToTake(s, s.ord) = Stabilised(s, s.ord).ord
         /\ SameSteps(Stabilised(s, s.ord), s)
<1>1. CASE MustLower(s, s.ord)
  <2> DEFINE r == Stabilised(s, s.ord)
  <2>1. r = WithOrder(s, s.ord - 1, s.ord + 2)
    BY <1>1, Zenon DEF Stabilised, WithOrder
  <2>2. s.ord \in Orders /\ s.ordprev[1] \in Orders /\ s.ni \in 0 .. 2
    BY Fields, Zenon
  <2>3. s.ord > 1 /\ s.ord = s.ordprev[1]
    BY <1>1 DEF MustLower, First
  <2>4. /\ s.ord \in Nat /\ s.ord - 1 \in Orders /\ s.ord + 2 \in Nat /\ s.ord - 1 \in Nat
        /\ s.ordprev[1] \in Nat
    BY <2>2, <2>3, StepperAssumption DEF Orders
  <2>5. OrderToTake(s, s.ord) = s.ord - 1
    BY <1>1 DEF OrderToTake
  <2> HIDE DEF r
  <2>6. /\ r \in States /\ r.ord = s.ord - 1 /\ r.ni = s.ni
        /\ r.ordprev = s.ordprev /\ r.ordprevbackup = s.ordprevbackup
        /\ SameSteps(r, s)
    <3> DEFINE o == s.ord - 1
               wait == s.ord + 2
    <3>1. o \in Orders /\ wait \in Nat /\ r = WithOrder(s, o, wait) /\ o = s.ord - 1
      BY <2>1, <2>4
    <3> HIDE DEF o, wait
    <3> QED BY <3>1, UpdateLowered DEF SameSteps
  <2>7. s.ni = 2
    BY <2>2, <2>3 DEF OrderInv
  <2>8. OrderInv(r) /\ Ready(r)
    BY <2>3, <2>4, <2>6, <2>7 DEF OrderInv, Ready, Near, Smaller
  <2> QED BY <2>5, <2>6, <2>8 DEF r
<1>2. CASE ~MustLower(s, s.ord)
  BY <1>2 DEF Stabilised, OrderToTake, SameSteps
<1> QED BY <1>1, <1>2

(* The sanity check of msbdfactive_apply passes, *)
LEMMA NearIsNotLarge ==
  ASSUME NEW s \in States, OrderInv(s)
  PROVE  ~LargeOrderChange(s, s.ord)
<1>1. s.ord \in Orders /\ s.ordprev[1] \in Orders
  BY Fields, Zenon
<1> QED BY <1>1 DEF OrderInv, Near, LargeOrderChange, First, Orders

(* and the matrix becomes one for the step to take. *)
LEMMA ReorderedOK ==
  ASSUME NEW s \in States, NEW o \in Orders
  PROVE  Reordered(s, o) \in States /\ SameHistory(Reordered(s, o), s)
<1>1. CASE o # First(s.ordprev)
  <2> DEFINE m == [j \in 0 .. MaxOrder |-> ReorderedColumn(s, o, j)]
             r == Reordered(s, o)
  <2>1. r = WithMatrix(s, m)
    BY <1>1, Zenon DEF Reordered, WithMatrix
  <2>2. Added(s, o) \in Columns /\ s.z[First(s.ordprev)] \in Columns
    <3>1. s.abscor \in Columns /\ s.ordprev \in [Orders -> Orders]
      BY Fields, Zenon
    <3>2. 1 \in 0 .. MaxOrder /\ First(s.ordprev) \in 0 .. MaxOrder
      BY <3>1, OrdersAreSmall, StepperAssumption DEF First, Orders
    <3>3. s.z[1] \in Columns /\ s.z[First(s.ordprev)] \in Columns
      BY <3>2, MatrixOK
    <3>4. TakesIn(s.abscor, s.z[1]) \in Columns
      BY <3>1, <3>3, ColumnsOK
    <3> QED BY <3>3, <3>4, EmptyMatrix, Zenon DEF Added
  <2>3. ASSUME NEW j \in 0 .. MaxOrder PROVE ReorderedColumn(s, o, j) \in Columns
    <3>1. s.z[j] \in Columns
      BY MatrixOK
    <3>2. /\ TakesIn(s.z[j], Added(s, o)) \in Columns
          /\ TakesIn(s.z[j], s.z[First(s.ordprev)]) \in Columns
      BY <2>2, <3>1, ColumnsOK, Zenon
    <3> QED BY <2>2, <3>1, <3>2 DEF ReorderedColumn
  <2>4. m \in [0 .. MaxOrder -> Columns]
    BY <2>3
  <2> HIDE DEF m, r
  <2>5. r \in States /\ SameHistory(r, s)
    BY <2>1, <2>4, UpdateMatrix DEF SameHistory
  <2> QED BY <2>5 DEF r
<1>2. CASE o = First(s.ordprev)
  BY <1>2 DEF Reordered, SameHistory
<1> QED BY <1>1, <1>2

LEMMA RescaledOK ==
  ASSUME NEW s \in States, NEW o \in Orders, NEW step \in Nat
  PROVE  Rescaled(s, o, step) \in States /\ SameHistory(Rescaled(s, o, step), s)
<1>1. CASE s.ni > 0 /\ step # First(s.hprev)
  <2> DEFINE scale(j) == IF s.z[j].step = First(s.hprev) THEN step ELSE 0
             column(j) == IF j \in 1 .. o THEN [s.z[j] EXCEPT !.step = scale(j)]
                          ELSE s.z[j]
             m == [j \in 0 .. MaxOrder |-> column(j)]
             r == Rescaled(s, o, step)
  <2>1. r = WithMatrix(s, m)
    BY <1>1, Zenon DEF Rescaled, WithMatrix
  <2>2. ASSUME NEW j \in 0 .. MaxOrder PROVE column(j) \in Columns
    <3>1. scale(j) \in Nat OBVIOUS
    <3> HIDE DEF scale
    <3> QED BY <3>1, MatrixOK, ColumnsOK
  <2> HIDE DEF column
  <2>3. m \in [0 .. MaxOrder -> Columns]
    BY <2>2
  <2> HIDE DEF m, r
  <2>4. r \in States /\ SameHistory(r, s)
    BY <2>1, <2>3, UpdateMatrix DEF SameHistory
  <2> QED BY <2>4 DEF r
<1>2. CASE ~(s.ni > 0 /\ step # First(s.hprev))
  BY <1>2 DEF Rescaled, SameHistory
<1> QED BY <1>1, <1>2

(* What Prepare leaves, for the next step to start from. *)
LEMMA PrepareOK ==
  ASSUME NEW t \in Nat, NEW step \in Nat, NEW p \in Points, NEW q \in Points,
         state \in States, OrderInv(state), Prepare(t, step, p, q)
  PROVE  /\ state' \in States /\ OrderInv(state') /\ Ready(state')
         /\ ord' = state'.ord /\ ord' \in Orders
         /\ ~LargeOrderChange(state', ord')
         /\ Fresh(state') \/ Continues(state', state, t)
<1> DEFINE b == Begun(state, t)
           s == Started(b, step, p, q)
           l == Stabilised(s, s.ord)
           d == Reordered(l, l.ord)
           e == Rescaled(d, l.ord, step)
<1>1. /\ b \in States /\ OrderInv(b) /\ Ready(b) /\ OrderAfter(state, t) = b.ord
      /\ Fresh(b) \/ Continues(b, state, t)
  BY BegunOK
<1>2. s \in States /\ SameHistory(s, b)
  <2> HIDE DEF b
  <2> QED BY <1>1, StartedOK
<1>3. s.ord = b.ord /\ OrderInv(s) /\ Ready(s)
  <2> HIDE DEF b, s
  <2> QED BY <1>1, <1>2, SameInv DEF SameHistory
<1>4. /\ l \in States /\ OrderInv(l) /\ Ready(l) /\ OrderToTake(s, s.ord) = l.ord
      /\ SameSteps(l, s)
  <2> HIDE DEF s
  <2> QED BY <1>2, <1>3, StabilisedOK
<1>5. ~LargeOrderChange(l, l.ord) /\ l.ord \in Orders
  <2> HIDE DEF l
  <2> QED BY <1>4, NearIsNotLarge, Fields
<1>6. d \in States /\ SameHistory(d, l)
  <2> HIDE DEF l
  <2> QED BY <1>4, <1>5, ReorderedOK
<1>7. e \in States /\ SameHistory(e, d)
  <2> HIDE DEF l, d
  <2> QED BY <1>5, <1>6, RescaledOK
<1>8. ord' = l.ord /\ state' = e
  BY <1>1, <1>3, <1>4, <1>5, Zenon DEF Prepare
<1> HIDE DEF e, d, l, s, b
<1>9. OrderInv(d) /\ Ready(d)
  BY <1>4, <1>6, SameInv
<1>10. OrderInv(e) /\ Ready(e) /\ e.ord = l.ord
  BY <1>6, <1>7, <1>9, SameInv DEF SameHistory
<1>11. SameSteps(e, b)
  BY <1>2, <1>4, <1>6, <1>7, Zenon DEF SameHistory, SameSteps
<1>12. Fresh(e) \/ Continues(e, state, t)
  BY <1>1, <1>11, Zenon DEF SameSteps, Fresh, Continues
<1> QED BY <1>5, <1>7, <1>8, <1>10, <1>12, NearIsNotLarge

-----------------------------------------------------------------------------
(* The correction does not touch the orders. *)
LEMMA PredictedOK ==
  ASSUME NEW s \in States, NEW o \in Orders, NEW step \in Nat
  PROVE  Predicted(s, o, step) \in States /\ SameHistory(Predicted(s, o, step), s)
<1> DEFINE at == IF s.z[0].at = NaN THEN NaN ELSE s.z[0].at + step
           moved(j) == [at |-> at, change |-> s.z[0].change, step |-> s.z[1].step,
                        own |-> \A i \in j .. o : s.z[i].own]
           column(j) == IF j <= o THEN moved(j) ELSE s.z[j]
           m == [j \in 0 .. MaxOrder |-> column(j)]
           r == Predicted(s, o, step)
<1>1. r = WithMatrix(s, m)
  BY Zenon DEF Predicted, WithMatrix
<1>2. s.z[0] \in Columns /\ s.z[1] \in Columns
  <2>1. 0 \in 0 .. MaxOrder /\ 1 \in 0 .. MaxOrder BY StepperAssumption
  <2> QED BY <2>1, MatrixOK
<1>3. ASSUME NEW j \in 0 .. MaxOrder PROVE moved(j) \in Columns
  <2>1. /\ at \in Times /\ s.z[0].change \in Nat /\ s.z[1].step \in Nat
        /\ (\A i \in j .. o : s.z[i].own) \in BOOLEAN
    BY <1>2 DEF Columns, Times
  <2> HIDE DEF at
  <2> QED BY <2>1 DEF Columns
<1> HIDE DEF moved
<1>4. m \in [0 .. MaxOrder -> Columns]
  BY <1>3, MatrixOK
<1> HIDE DEF m, r
<1>5. r \in States /\ SameHistory(r, s)
  BY <1>1, <1>4, UpdateMatrix DEF SameHistory
<1> QED BY <1>5 DEF r

LEMMA UpdatedOK ==
  ASSUME NEW s \in States, NEW o \in Orders, NEW t \in Nat, NEW step \in Nat
  PROVE  Updated(s, o, t, step) \in States /\ SameHistory(Updated(s, o, t, step), s)
<1> DEFINE g == [step |-> step, order |-> o]
           evaluated == NeedsJacobian(s, t + step, step, g)
           made == NeedsM(s, t + step, g)
           nJ == IF evaluated THEN 0 ELSE s.nJ
           nM == IF made THEN 0 ELSE s.nM
           ownJ == evaluated \/ s.ownJacobian
           ownM == IF made THEN ownJ ELSE s.ownM
           r == Updated(s, o, t, step)
<1>1. r = WithUpdate(s, nJ, nM, ownJ, ownM)
  BY Zenon DEF Updated, WithUpdate
<1>2. nJ \in Nat /\ nM \in Nat
  <2> HIDE DEF evaluated, made
  <2> QED BY Fields
<1>3. ownJ \in BOOLEAN /\ ownM \in BOOLEAN
  <2>1. s.ownM \in BOOLEAN BY Fields, Zenon
  <2>2. ownJ \in BOOLEAN OBVIOUS
  <2> HIDE DEF ownJ, made
  <2> QED BY <2>1, <2>2, Zenon
<1> HIDE DEF nJ, nM, ownJ, ownM, r
<1>4. r \in States /\ SameHistory(r, s)
  BY <1>1, <1>2, <1>3, UpdateMatrices DEF SameHistory
<1> QED BY <1>4 DEF r

LEMMA CorrectionOK ==
  ASSUME NEW s \in States, NEW c \in Columns
  PROVE  [s EXCEPT !.abscor = c] \in States /\ SameHistory([s EXCEPT !.abscor = c], s)
BY UpdateCorrection DEF SameHistory, WithCorrection

LEMMA SameTransitive ==
  ASSUME NEW r, NEW s, NEW q, SameHistory(r, s), SameHistory(s, q)
  PROVE  SameHistory(r, q)
BY DEF SameHistory

LEMMA CorrectedOK ==
  ASSUME NEW s \in States, NEW o \in Orders, NEW t \in Nat, NEW step \in Nat,
         NEW updated \in BOOLEAN
  PROVE  /\ Corrected(s, o, t, step, updated) \in States
         /\ SameHistory(Corrected(s, o, t, step, updated), s)
<1> DEFINE p == Predicted(s, o, step)
           u == Updated(p, o, t, step)
           c == [u EXCEPT !.abscor = NoColumn]
<1>1. p \in States /\ SameHistory(p, s)
  BY PredictedOK
<1>2. u \in States /\ SameHistory(u, p)
  <2> HIDE DEF p
  <2> QED BY <1>1, UpdatedOK
<1>3. c \in States /\ SameHistory(c, u)
  <2> HIDE DEF u
  <2> QED BY <1>2, EmptyMatrix, CorrectionOK, Zenon
<1>4. Corrected(s, o, t, step, updated) = IF updated THEN c ELSE p
  BY Zenon DEF Corrected
<1> HIDE DEF c, u, p
<1>5. SameHistory(c, s)
  BY <1>1, <1>2, <1>3, SameTransitive
<1> QED BY <1>1, <1>3, <1>4, <1>5

LEMMA ConvergedOK ==
  ASSUME NEW s \in States, NEW o \in Orders, NEW t \in Nat, NEW step \in Nat
  PROVE  /\ Converged(s, o, t, step) \in States
         /\ SameHistory(Converged(s, o, t, step), s)
<1> DEFINE c == Corrected(s, o, t, step, TRUE)
           d == [c EXCEPT !.abscor = c.z[0]]
<1>1. c \in States /\ SameHistory(c, s)
  BY CorrectedOK
<1>2. Converged(s, o, t, step) = d
  BY Zenon DEF Converged
<1> HIDE DEF c
<1>3. c.z[0] \in Columns
  <2>1. 0 \in 0 .. MaxOrder BY StepperAssumption
  <2> QED BY <1>1, <2>1, MatrixOK
<1>4. d \in States /\ SameHistory(d, c)
  BY <1>1, <1>3, CorrectionOK, Zenon
<1> HIDE DEF d
<1> QED BY <1>1, <1>2, <1>4, SameTransitive

(* A step that succeeds moves the order by one at most, and only if it was
   that of the steps before. *)
LEMMA TakenOK ==
  ASSUME NEW s \in States, NEW t \in Nat, NEW step \in Nat,
         OrderInv(s), Ready(s), NEW next \in NextOrders(s, s.ord)
  PROVE  /\ Taken(s, s.ord, t, step, next) \in States
         /\ OrderInv(Taken(s, s.ord, t, step, next))
         /\ First(Taken(s, s.ord, t, step, next).hprev) = step
         /\ Taken(s, s.ord, t, step, next).hprevbackup = s.hprevbackup
         /\ Taken(s, s.ord, t, step, next).tprev = t
         /\ Taken(s, s.ord, t, step, next).failt = s.failt
         /\ Taken(s, s.ord, t, step, next).ni = Counted(s.ni)
<1> DEFINE o == s.ord
           r == Taken(s, o, t, step, next)
           wait == NextWait(s, o, next) - 1
           hs == Shift(s.hprev, step)
           os == Shift(s.ordprev, o)
           g == [step |-> step, order |-> o]
<1>1. r = WithStep(s, next, wait, hs, os, t, Counted(s.ni), g, s.nJ + 1, s.nM + 1)
  BY Zenon DEF Taken, WithStep
<1>2. /\ s.ord \in Orders /\ s.ordprev[1] \in Orders /\ s.ordprevbackup[1] \in Orders
      /\ s.ni \in 0 .. 2 /\ s.ordwait \in Nat /\ s.nJ \in Nat /\ s.nM \in Nat
  BY Fields, Zenon
<1>3. /\ s.ord \in Nat /\ s.ordprev[1] \in Nat /\ s.ordprevbackup[1] \in Nat
  BY <1>2 DEF Orders
<1>4. /\ next \in Orders /\ next \in Nat
      /\ \/ next = o
         \/ o = s.ordprev[1] /\ s.ordwait = 0 /\ Near(next, o)
  BY <1>2, <1>3 DEF NextOrders, EvaluatesOrder, First, Near, Orders
<1>5. wait \in Nat
  BY <1>2, <1>4 DEF NextWait
<1>6. hs \in [Orders -> Nat] /\ First(hs) = step
  <2>1. s.hprev \in [Orders -> Nat] BY Fields, Zenon
  <2>2. \A i \in Orders : i # 1 => i - 1 \in Orders BY StepperAssumption DEF Orders
  <2> QED BY <2>1, <2>2, OrdersAreSmall DEF Shift, First
<1>7. os \in [Orders -> Orders] /\ os[1] = o
  <2>1. s.ordprev \in [Orders -> Orders] BY Fields, Zenon
  <2>2. \A i \in Orders : i # 1 => i - 1 \in Orders BY StepperAssumption DEF Orders
  <2> QED BY <1>2, <2>1, <2>2, OrdersAreSmall DEF Shift
<1>8. Counted(s.ni) \in 0 .. 2 /\ Counted(s.ni) > 0 /\ (Counted(s.ni) = 1 => s.ni = 0)
  BY <1>2 DEF Counted
<1>9. t \in Times /\ g \in Gammas /\ s.nJ + 1 \in Nat /\ s.nM + 1 \in Nat
  BY <1>2 DEF Times, Gammas
<1> HIDE DEF r, wait, hs, os, g
<1>10. /\ r \in States /\ r.ord = next /\ r.ni = Counted(s.ni) /\ r.ordprev = os
       /\ r.ordprevbackup = s.ordprevbackup
       /\ r.hprev = hs /\ r.hprevbackup = s.hprevbackup
       /\ r.tprev = t /\ r.failt = s.failt
  <2> DEFINE ni == Counted(s.ni)
             nJ == s.nJ + 1
             nM == s.nM + 1
  <2>1. r = WithStep(s, next, wait, hs, os, t, ni, g, nJ, nM)
    BY <1>1
  <2>2. ni \in 0 .. 2 /\ nJ \in Nat /\ nM \in Nat /\ ni = Counted(s.ni)
    BY <1>8, <1>9
  <2>3. next \in Orders /\ os \in [Orders -> Orders] /\ t \in Times /\ g \in Gammas
    BY <1>4, <1>7, <1>9
  <2> HIDE DEF ni, nJ, nM
  <2>4. r \in States /\ r.ord = next /\ r.ni = ni /\ r.ordprev = os
        /\ r.ordprevbackup = s.ordprevbackup
        /\ r.hprev = hs /\ r.hprevbackup = s.hprevbackup
        /\ r.tprev = t /\ r.failt = s.failt
    BY <2>1, <2>2, <2>3, <1>5, <1>6, UpdateTaken
  <2> QED BY <2>2, <2>4
<1>11. Near(r.ord, r.ordprev[1])
  BY <1>3, <1>4, <1>7, <1>10 DEF Near
<1>12. Near(Smaller(r.ord, r.ordprev[1]), r.ordprevbackup[1])
  BY <1>3, <1>4, <1>7, <1>10 DEF OrderInv, Ready, Near, Smaller
<1>13. r.ni <= 1 => r.ord = 1
  BY <1>2, <1>4, <1>8, <1>10 DEF OrderInv
<1>14. r.ni # 0
  BY <1>8, <1>10
<1> QED BY <1>6, <1>10, <1>11, <1>12, <1>13, <1>14 DEF OrderInv, r

-----------------------------------------------------------------------------
(* The inductive invariant.  While a step is made the order is that of the
   state; the step ends at x1 or before, which is the interrupt or the end. *)
OrderPart ==
  /\ OrderInv(state)
  /\ pc = "predict" => Ready(state) /\ ord = state.ord
  /\ pc # "aborted"

StepPart ==
  /\ pc # "failed" => h > 0
  /\ pc \in {"try", "predict", "judge"} => h0 > 0 /\ x + h0 <= x1
  /\ x <= x1
  /\ pc = "done" => x = x1
  /\ x1 = IF interrupted THEN interrupt ELSE EndTime

IInv == state \in States /\ ord \in Orders /\ SolveTypeOK /\ OrderPart /\ StepPart

LEMMA PointsOK ==
  /\ NoPoint \in Points
  /\ \A at \in Nat, change \in Nat : [at |-> at, change |-> change] \in Points
  /\ \A c \in Columns : [at |-> c.at, change |-> c.change] \in Points
BY DEF NoPoint, Points, Columns, Times

LEMMA InitInv == Init => IInv
<1> SUFFICES ASSUME Init PROVE IInv
  OBVIOUS
<1>1. state \in States /\ ord \in Orders
  BY AllocatedOK, OrdersAreSmall DEF Init
<1>2. SolveTypeOK
  <2>1. y \in Points /\ y0 \in Points
    BY PointsOK DEF Init
  <2>2. h \in Nat /\ h0 \in Nat /\ x \in 0 .. EndTime /\ x1 \in 0 .. EndTime
    BY DriverAssumption DEF Init, Smaller
  <2>3. /\ trial \in 1 .. MaxTrials /\ troubles \in 0 .. MaxTroubles /\ changes \in Nat
        /\ timeStep \in StepSizes
    BY DriverAssumption DEF Init
  <2>4. /\ dydtIn \in Points /\ dydtOut \in Points /\ interrupt \in Times
        /\ pc = "loop"
        /\ {final, count, interrupted, disturbed, reraised} \subseteq BOOLEAN
    BY PointsOK DEF Init, Times
  <2> QED BY <2>1, <2>2, <2>3, <2>4 DEF SolveTypeOK
<1>3. OrderPart
  BY AllocatedOK DEF Init, OrderPart
<1>4. StepPart
  BY DriverAssumption DEF Init, StepPart, Smaller
<1> QED BY <1>1, <1>2, <1>3, <1>4 DEF IInv

LEMMA HalvedOK == \A step \in StepSizes, k \in Nat : Halved(step, k) \in Nat \ {0}
BY DriverAssumption DEF Halved

(* A trial ends, or begins anew. *)
LEMMA RetryStep == IInv /\ Retry => IInv'
<1> SUFFICES ASSUME IInv, Retry PROVE IInv'
  OBVIOUS
<1>1. state' \in States /\ ord' \in Orders
  BY AllocatedOK, OrdersAreSmall DEF Retry
<1>2. h' \in Nat \ {0}
  <2>1. Halved(timeStep, trial) \in Nat \ {0}
    <3>1. timeStep \in StepSizes /\ trial \in Nat BY DEF IInv, SolveTypeOK
    <3> QED BY <3>1, HalvedOK
  <2> QED BY <2>1, DriverAssumption DEF Retry, Smaller
<1>3. SolveTypeOK'
  <2>1. y' \in Points /\ dydtIn' \in Points /\ dydtOut' \in Points
    BY PointsOK DEF Retry
  <2>2. /\ x' \in 0 .. EndTime /\ x1' \in 0 .. EndTime /\ trial' \in 1 .. MaxTrials
        /\ changes' \in Nat
    BY DriverAssumption DEF Retry, IInv, SolveTypeOK
  <2>3. /\ pc' = "loop"
        /\ {count', interrupted', disturbed', reraised'} \subseteq BOOLEAN
        /\ UNCHANGED <<h0, final, y0, timeStep, interrupt, troubles>>
    BY DEF Retry
  <2> QED BY <1>2, <2>1, <2>2, <2>3 DEF IInv, SolveTypeOK
<1>4. OrderPart'
  BY AllocatedOK DEF Retry, OrderPart
<1>5. StepPart'
  BY <1>2, DriverAssumption DEF Retry, StepPart
<1> QED BY <1>1, <1>3, <1>4, <1>5 DEF IInv

(* The actions that leave the stepper alone, and those of the driver. *)
LEMMA DriverStep ==
  ASSUME IInv,
         \/ Finish \/ EvolveBegin \/ EvolveBeginInterrupted \/ EvolveBeginFails
         \/ Reject \/ GiveUp \/ Accept \/ PostStep \/ LatentIntegrate
  PROVE  IInv'
<1>1. UNCHANGED stepperVars /\ pc' \notin {"predict", "aborted"}
  BY DEF Finish, EvolveBegin, EvolveBeginInterrupted, EvolveBeginFails, Interrupts,
         Reject, GiveUp, Accept, PostStep, LatentIntegrate, stepperVars
<1>2. state' \in States /\ ord' \in Orders
  BY <1>1 DEF IInv, stepperVars
<1>3. OrderPart'
  BY <1>1 DEF IInv, OrderPart, stepperVars
<1>4. ASSUME Finish PROVE SolveTypeOK' /\ StepPart'
  BY <1>4 DEF IInv, Finish, SolveTypeOK, StepPart
<1>5. ASSUME EvolveBegin PROVE SolveTypeOK' /\ StepPart'
  BY <1>5 DEF IInv, EvolveBegin, SolveTypeOK, StepPart, Smaller
<1>6. ASSUME EvolveBeginInterrupted PROVE SolveTypeOK' /\ StepPart'
  BY <1>6, DriverAssumption
  DEF IInv, EvolveBeginInterrupted, Interrupts, Trouble, SolveTypeOK, StepPart, Times
<1>7. ASSUME EvolveBeginFails PROVE SolveTypeOK' /\ StepPart'
  BY <1>7, DriverAssumption DEF IInv, EvolveBeginFails, Trouble, SolveTypeOK, StepPart
<1>8. ASSUME Reject PROVE SolveTypeOK' /\ StepPart'
  <2>1. /\ pc = "judge" /\ pc' = "try" /\ h0' \in StepSizes /\ h0' < h0
        /\ final' = FALSE /\ y' = y0 /\ Trouble
        /\ UNCHANGED <<x, x1, h, y0, dydtIn, dydtOut, count, timeStep, trial, interrupt,
                       interrupted, changes, disturbed, reraised>>
    BY <1>8, Zenon DEF Reject, ShrinkTo
  <2>2. h0' \in Nat /\ h0' > 0 /\ x' + h0' <= x1'
    <3>1. x \in Nat /\ x1 \in Nat /\ h0 \in Nat /\ x + h0 <= x1
      BY <2>1, DriverAssumption DEF IInv, SolveTypeOK, StepPart
    <3>2. h0' \in Nat /\ h0' > 0
      BY <2>1, DriverAssumption
    <3>3. x' = x /\ x1' = x1 /\ h0' < h0
      BY <2>1
    <3>4. x + h0' <= x1
      <4>1. \A a, b, c, d \in Nat : a + b <= c /\ d < b => a + d <= c
        OBVIOUS
      <4>2. h0' < h0
        BY <3>3
      <4> QED BY <3>1, <3>2, <4>1, <4>2
    <3> QED BY <3>2, <3>3, <3>4
  <2>3. troubles' \in 0 .. MaxTroubles
    BY <2>1, DriverAssumption DEF Trouble, IInv, SolveTypeOK
  <2> QED BY <2>1, <2>2, <2>3 DEF IInv, SolveTypeOK, StepPart
<1>9. ASSUME GiveUp PROVE SolveTypeOK' /\ StepPart'
  <2>1. troubles' \in 0 .. MaxTroubles
    BY <1>9, DriverAssumption DEF GiveUp, Trouble, IInv, SolveTypeOK
  <2> QED BY <1>9, <2>1 DEF IInv, GiveUp, SolveTypeOK, StepPart
<1>10. ASSUME Accept PROVE SolveTypeOK' /\ StepPart'
  <2>1. /\ x \in 0 .. EndTime /\ x1 \in 0 .. EndTime /\ h0 \in Nat /\ h0 > 0
        /\ x + h0 <= x1 /\ x <= x1
    BY <1>10 DEF IInv, Accept, SolveTypeOK, StepPart
  <2>2. x' \in 0 .. EndTime /\ x' <= x1
    BY <1>10, <2>1, DriverAssumption DEF Accept
  <2>3. h' \in Nat /\ h' > 0
    <3>1. CASE final
      BY <1>10, <3>1 DEF IInv, Accept, SolveTypeOK, StepPart
    <3>2. CASE ~final
      <4>1. h' \in {h0} \cup StepSizes
        BY <1>10, <3>2, Zenon DEF Accept, GrowTo
      <4> QED BY <2>1, <4>1, DriverAssumption
    <3> QED BY <3>1, <3>2
  <2>4. /\ pc' = "poststep"
        /\ UNCHANGED <<x1, h0, final, y, y0, dydtIn, dydtOut, count, timeStep, trial,
                       interrupt, interrupted, troubles, changes, disturbed, reraised>>
    BY <1>10, Zenon DEF Accept
  <2>5. SolveTypeOK'
    BY <2>2, <2>3, <2>4 DEF IInv, SolveTypeOK
  <2>6. StepPart'
    BY <1>10, <2>2, <2>3, <2>4 DEF IInv, StepPart
  <2> QED BY <2>5, <2>6
<1>11. ASSUME PostStep PROVE SolveTypeOK' /\ StepPart'
  <2>1. y' \in Points
    BY <1>11 DEF IInv, PostStep, SolveTypeOK, Points
  <2>2. changes' \in Nat /\ count' \in BOOLEAN /\ disturbed' \in BOOLEAN
    <3>1. changes \in Nat /\ count \in BOOLEAN /\ disturbed \in BOOLEAN
      BY DEF IInv, SolveTypeOK
    <3>2. \/ changes' = changes + 1 /\ count' = FALSE /\ disturbed' = TRUE
          \/ changes' = changes /\ count' = count /\ disturbed' = disturbed
      BY <1>11 DEF PostStep
    <3>3. changes' \in Nat
      BY <3>1, <3>2
    <3>4. count' \in BOOLEAN /\ disturbed' \in BOOLEAN
      BY <3>1, <3>2, Zenon
    <3> QED BY <3>3, <3>4
  <2>3. /\ pc = "poststep" /\ pc' = "latent"
        /\ UNCHANGED <<x, x1, h, h0, final, y0, dydtIn, dydtOut, timeStep, trial,
                       interrupt, interrupted, troubles, reraised>>
    BY <1>11, Zenon DEF PostStep
  <2>4. SolveTypeOK'
    BY <2>1, <2>2, <2>3 DEF IInv, SolveTypeOK
  <2>5. StepPart'
    BY <2>3 DEF IInv, StepPart
  <2> QED BY <2>4, <2>5
<1>12. ASSUME LatentIntegrate PROVE SolveTypeOK' /\ StepPart'
  BY <1>12 DEF IInv, LatentIntegrate, SolveTypeOK, StepPart
<1> QED
  BY <1>2, <1>3, <1>4, <1>5, <1>6, <1>7, <1>8, <1>9, <1>10, <1>11, <1>12 DEF IInv

LEMMA TryStep == IInv /\ Try => IInv'
<1> SUFFICES ASSUME IInv, Try PROVE IInv'
  OBVIOUS
<1>1. /\ state' \in States /\ OrderInv(state') /\ Ready(state')
      /\ ord' = state'.ord /\ ord' \in Orders /\ ~LargeOrderChange(state', ord')
  <2>1. x \in Nat /\ h0 \in Nat /\ y \in Points /\ dydtIn \in Points
    BY DriverAssumption DEF IInv, SolveTypeOK
  <2>2. state \in States /\ OrderInv(state) /\ Prepare(x, h0, y, dydtIn)
    BY DEF IInv, OrderPart, Try
  <2> QED BY <2>1, <2>2, PrepareOK
<1>2. pc' = "predict"
  BY <1>1 DEF Try
<1>3. OrderPart'
  BY <1>1, <1>2 DEF OrderPart
<1>4. reraised' \in BOOLEAN
  BY DEF Try
<1>5. SolveTypeOK' /\ StepPart'
  BY <1>2, <1>4 DEF IInv, Try, SolveTypeOK, StepPart
<1> QED BY <1>1, <1>3, <1>5 DEF IInv

(* However the call of the stepper ends, its state has its type and the order
   is near that of the matrix. *)
LEMMA StepperEnds ==
  ASSUME IInv, pc = "predict",
         \/ CorrectorFails(x, h0) \/ OutputFails(x, h0)
         \/ CorrectorSingular(x, h0)
         \/ CorrectorInterrupted(x, h0) \/ OutputInterrupted(x, h0)
         \/ StepSucceeds(x, h0)
  PROVE  state' \in States /\ ord' \in Orders /\ OrderInv(state')
<1>1. /\ state \in States /\ ord \in Orders /\ x \in Nat /\ h0 \in Nat
      /\ OrderInv(state) /\ Ready(state) /\ ord = state.ord
  BY DriverAssumption DEF IInv, SolveTypeOK, OrderPart
<1> DEFINE c(updated) == Corrected(state, ord, x, h0, updated)
           d == Converged(state, ord, x, h0)
<1>2. \A updated \in BOOLEAN :
        /\ c(updated) \in States /\ OrderInv(c(updated)) /\ Ready(c(updated))
  BY <1>1, CorrectedOK, SameInv
<1>3. d \in States /\ OrderInv(d) /\ Ready(d) /\ d.ord = ord
  BY <1>1, ConvergedOK, SameInv DEF SameHistory
<1>4. ASSUME CorrectorFails(x, h0) \/ OutputFails(x, h0)
      PROVE  state' \in States /\ ord' \in Orders /\ OrderInv(state')
  <2> HIDE DEF c, d
  <2>1. /\ ord' = ord
        /\ \/ \E updated \in BOOLEAN : state' = FailureHandler(c(updated), x)
           \/ state' = FailureHandler(d, x)
    BY <1>4, Zenon DEF CorrectorFails, OutputFails, c, d
  <2> QED BY <1>1, <1>2, <1>3, <2>1, FailureHandlerOK
<1>5. ASSUME \/ CorrectorSingular(x, h0) \/ CorrectorInterrupted(x, h0)
             \/ OutputInterrupted(x, h0)
      PROVE  state' \in States /\ ord' \in Orders /\ OrderInv(state')
  <2> HIDE DEF c, d
  <2>1. /\ ord' = ord
        /\ \/ \E updated \in BOOLEAN : state' = c(updated)
           \/ state' = d
    BY <1>5, Zenon DEF CorrectorSingular, CorrectorInterrupted, OutputInterrupted, c, d
  <2> QED BY <1>1, <1>2, <1>3, <2>1
<1>6. ASSUME StepSucceeds(x, h0)
      PROVE  state' \in States /\ ord' \in Orders /\ OrderInv(state')
  <2> HIDE DEF d
  <2>1. ord' = ord /\ \E next \in NextOrders(d, ord) : state' = Taken(d, ord, x, h0, next)
    BY <1>6, Zenon DEF StepSucceeds, d
  <2>2. PICK next \in NextOrders(d, d.ord) : state' = Taken(d, d.ord, x, h0, next)
    BY <1>3, <2>1, Zenon
  <2> QED BY <1>1, <1>3, <2>1, <2>2, TakenOK, Zenon
<1> QED BY <1>4, <1>5, <1>6

LEMMA StepperStep ==
  ASSUME IInv, StepFails \/ StepSingular \/ StepInterrupted \/ StepMade
  PROVE  IInv'
<1>1. /\ state' \in States /\ ord' \in Orders /\ OrderInv(state')
      /\ pc' \notin {"predict", "aborted"} /\ pc = "predict"
  <2>1. pc = "predict" /\ pc' \notin {"predict", "aborted"}
    BY DEF StepFails, StepSingular, StepInterrupted, StepMade, TryHalf, Interrupts
  <2>2. \/ CorrectorFails(x, h0) \/ OutputFails(x, h0)
        \/ CorrectorSingular(x, h0)
        \/ CorrectorInterrupted(x, h0) \/ OutputInterrupted(x, h0)
        \/ StepSucceeds(x, h0)
    BY Zenon DEF StepFails, StepSingular, StepInterrupted, StepMade
  <2> QED BY <2>1, <2>2, StepperEnds
<1>2. OrderPart'
  BY <1>1 DEF OrderPart
<1>3. ASSUME StepFails \/ StepSingular PROVE SolveTypeOK' /\ StepPart'
  <2>1. TryHalf /\ Trouble
    BY <1>3, Zenon DEF StepFails, StepSingular
  <2>2. dydtOut' \in Points /\ disturbed' \in BOOLEAN
    BY <1>3, PointsOK DEF StepFails, StepSingular, IInv, SolveTypeOK
  <2>3. troubles' \in 0 .. MaxTroubles
    BY <2>1, DriverAssumption DEF Trouble, IInv, SolveTypeOK
  <2>4. x \in Nat /\ x1 \in Nat /\ h \in Nat /\ h0 \in Nat /\ x + h0 <= x1
    BY <1>1, DriverAssumption DEF IInv, SolveTypeOK, StepPart
  <2>5. /\ h' \in Nat /\ h0' \in Nat
        /\ \/ pc' = "try" /\ h0' > 0 /\ x + h0' <= x1 /\ h' = h
           \/ pc' = "failed"
    BY <2>1, <2>4 DEF TryHalf
  <2>6. /\ y' = y0 /\ final' = FALSE
        /\ UNCHANGED <<x, x1, y0, dydtIn, count, timeStep, trial, interrupt, interrupted,
                       changes, reraised>>
    BY <2>1, Zenon DEF TryHalf
  <2> QED BY <1>1, <2>2, <2>3, <2>5, <2>6 DEF IInv, SolveTypeOK, StepPart
<1>4. ASSUME StepInterrupted PROVE SolveTypeOK' /\ StepPart'
  <2>1. /\ Interrupts(x + h0) /\ Trouble
        /\ UNCHANGED <<x, h, h0, final, y, y0, dydtIn, count, timeStep, trial, changes,
                       reraised>>
    BY <1>4, Zenon DEF StepInterrupted
  <2>2. dydtOut' \in Points /\ disturbed' \in BOOLEAN
    BY <1>4, PointsOK DEF StepInterrupted, IInv, SolveTypeOK
  <2> QED BY <1>1, <2>1, <2>2, DriverAssumption
      DEF Interrupts, Trouble, IInv, SolveTypeOK, StepPart, Times
<1>5. ASSUME StepMade PROVE SolveTypeOK' /\ StepPart'
  <2>1. y' \in Points /\ dydtOut' \in Points
    <3>1. 0 \in 0 .. MaxOrder BY StepperAssumption
    <3>2. state'.z[0] \in Columns BY <1>1, <3>1, MatrixOK
    <3> QED BY <1>5, <3>2, PointsOK DEF StepMade
  <2> QED BY <1>1, <1>5, <2>1 DEF StepMade, IInv, SolveTypeOK, StepPart
<1> QED BY <1>1, <1>2, <1>3, <1>4, <1>5 DEF IInv

LEMMA StutterStep == IInv /\ UNCHANGED vars => IInv'
<1> SUFFICES ASSUME IInv, UNCHANGED vars PROVE IInv'
  OBVIOUS
<1> USE DEF vars, solveVars, stepperVars
<1>1. (state \in States /\ ord \in Orders /\ OrderPart)'
  BY DEF IInv, OrderPart
<1>2. SolveTypeOK' /\ StepPart'
  BY DEF IInv, SolveTypeOK, StepPart
<1> QED BY <1>1, <1>2 DEF IInv

LEMMA NextStep == IInv /\ [Next]_vars => IInv'
BY RetryStep, DriverStep, TryStep, StepperStep, StutterStep, Zenon DEF Next

LEMMA Invariance == Spec => []IInv
BY InitInv, NextStep, PTL DEF Spec

(* The state of the stepper and of the driver have their types, whatever fails
   or interrupts, and however often. *)
THEOREM TypeCorrect == Spec => []TypeOK
<1>1. IInv => TypeOK BY DEF IInv, TypeOK, StepperTypeOK
<1> QED BY <1>1, Invariance, PTL

(* The sanity check of msbdfactive_apply ("too large order change", with which
   the run would end) never fails: for every order, every waiting time and
   every sequence of failures, rejections, interrupts and restarts. *)
THEOREM OrderChangesAreSmall == Spec => []NoLargeOrderChange
<1>1. IInv => NoLargeOrderChange BY DEF IInv, OrderPart, NoLargeOrderChange
<1> QED BY <1>1, Invariance, PTL

EndsInTime ==
  /\ x <= IF interrupted THEN interrupt ELSE EndTime
  /\ pc = "done" => x = IF interrupted THEN interrupt ELSE EndTime

(* The driver never steps beyond the end, or beyond the interrupt that this
   trial met, and is done only when it is there. *)
THEOREM SolvesUpToTheEnd == Spec => []EndsInTime
<1>1. IInv => EndsInTime BY DEF IInv, StepPart, EndsInTime
<1> QED BY <1>1, Invariance, PTL
===============================================================================
