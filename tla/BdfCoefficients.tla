---------------------------- MODULE BdfCoefficients ----------------------------
(***************************************************************************)
(* The coefficients of the corrector of the BDF stepper                    *)
(* (msbdfactive_calccoeffs of source/gslODEInitVal2/msbdfactive.c), as     *)
(* exact fractions, and what they are the coefficients of.                 *)
(***************************************************************************)
EXTENDS Integers, FiniteSetsExt

(* Euclid's algorithm *)
LOCAL Gcd(a, b) ==
  LET g[m \in Nat, n \in Nat] == IF n = 0 THEN m ELSE g[n, m % n] IN g[a, b]

(* Fractions <<n, d>> with d > 0, in lowest terms. *)
Fraction(n, d) ==
  LET g == Gcd(IF n < 0 THEN -n ELSE n, d) IN <<n \div g, d \div g>>

(* Sums and products, reduced before they are taken as well. *)
a \oplus b ==
  LET g == Gcd(a[2], b[2])
  IN Fraction(a[1] * (b[2] \div g) + b[1] * (a[2] \div g), (a[2] \div g) * b[2])

Minus(a) == <<-a[1], a[2]>>

a \otimes b ==
  LET p == Fraction(a[1], b[2])
      q == Fraction(b[1], a[2])
  IN <<p[1] * q[1], p[2] * q[2]>>

Zero == <<0, 1>>

One == <<1, 1>>

(* 1 + 1/2 + ... + 1/n, which the code has as -coeff1. *)
Harmonic(n) == FoldSet(\oplus, Zero, {Fraction(1, i) : i \in 1 .. n})

(* The time from the end of the step of h to the point n steps before its
   start: hsum of the code. *)
Back(h, hprev, n) == h + MapThenSumSet(LAMBDA i : hprev[i], 1 .. n)

(* A polynomial, the fractions of which are functions of 0 .. MaxOrder, times
   1 + c x: l[j] += c * l[j - 1], from above. *)
TimesLinear(l, c) ==
  [j \in DOMAIN l |-> IF j = 0 THEN l[0] ELSE l[j] \oplus (c \otimes l[j - 1])]

OnePlusX(max) == [j \in 0 .. max |-> IF j <= 1 THEN One ELSE Zero]

(* The factors for the points that the order ord reaches back to, *)
Interpolating(max, ord, h, hprev) ==
  LET f[i \in 1 .. ord] ==
        IF i = 1 THEN OnePlusX(max)
        ELSE TimesLinear(f[i - 1], Fraction(h, Back(h, hprev, i - 1)))
  IN f[ord - 1]

(* and the last one, which gives the whole the derivative it is to have. *)
LastFactor(max, ord, h, hprev) ==
  Harmonic(ord) \oplus Minus(Interpolating(max, ord, h, hprev)[1])

CalcCoeffs(max, ord, h, hprev) ==
  IF ord = 1 THEN OnePlusX(max)
  ELSE TimesLinear(Interpolating(max, ord, h, hprev), LastFactor(max, ord, h, hprev))

-----------------------------------------------------------------------------
ValueAt(l, ord, x) ==
  LET f[j \in 0 .. ord] ==
        IF j = ord THEN l[ord] ELSE l[j] \oplus (x \otimes f[j + 1])
  IN f[0]

(* Lambda is the polynomial of degree ord with the value 1 and the derivative
   1 + 1/2 + ... + 1/ord at the end of the step, in units of the step, that
   vanishes at its start and at the ord - 2 points before it: a correction
   leaves the solution at those points as it was. *)
IsLambda(max, ord, h, hprev, l) ==
  /\ l[0] = One
  /\ l[1] = Harmonic(ord)
  /\ \A j \in DOMAIN l : j > ord => l[j] = Zero
  /\ \A n \in 0 .. ord - 2 :
       ValueAt(l, ord, Minus(Fraction(Back(h, hprev, n), h))) = Zero

(* The coefficients by which the order is considered are divided by the
   leading coefficient of Lambda, or it by them. *)
LeadingVanishes(max, ord, h, hprev) == CalcCoeffs(max, ord, h, hprev)[ord] = Zero
=============================================================================
