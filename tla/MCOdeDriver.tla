----------------------------- MODULE MCOdeDriver -----------------------------
(* Instances of OdeDriver for TLC, and the coefficients of its corrector for
   all small steps. *)
EXTENDS OdeDriver, BdfCoefficients

Steps == {1, 2, 5}

AllTroubles == Troubles

InterruptsOnly == {"interrupts"}

NoTrouble == {}

LastSteps == [1 .. 4 -> {1, 3, 5}]

(* The polynomial that the code builds is the one that it is to be. *)
ASSUME CoefficientsAreLambda ==
  \A o \in 1 .. 5, step \in 1 .. 3, last \in LastSteps :
    IsLambda(5, o, step, last, CalcCoeffs(5, o, step, last))

(* What NoFivefoldIncrease is for: the leading coefficient of order 3 vanishes
   when the step is five times the last one, and never else. *)
ASSUME OrderThreeVanishes ==
  \A step \in 1 .. 20, last \in 1 .. 4 :
    LeadingVanishes(5, 3, step, [i \in 1 .. 4 |-> last]) <=> step = 5 * last

(* At order 4 it can vanish for a step of less than that, after a step that
   was a fifth of the one before it. *)
ASSUME OrderFourVanishesToo == LeadingVanishes(5, 4, 3, <<1, 5, 5, 5>>)
=============================================================================
