--------------------------- MODULE EventHooks_proofs ---------------------------
(***************************************************************************)
(* The topological sort, the dependencies between hooked functions that it *)
(* is given, and the event whose list it sorts.                            *)
(*                                                                         *)
(* The sort is a loop of rounds over the list of dependencies.  After each *)
(* round the objects that stand before the marker k come after all that    *)
(* they wait for.  If there is an order of the objects that keeps all      *)
(* dependencies, the first in that order of those that stand behind waits  *)
(* for none of them and is never swapped: every round advances, until all  *)
(* are sorted.                                                             *)
(*                                                                         *)
(* Of the event the invariant says who holds the lock, what each thread is *)
(* about, that the list is what was hooked, in order, and up to which      *)
(* place of the list each walking thread has called what is hooked for it. *)
(***************************************************************************)
EXTENDS EventHooks, WellFoundedInduction, SequenceTheorems, FiniteSetTheorems, TLAPS

(* Induction, for a set of numbers, from the fact that each set of numbers has a
   least one. *)
LEMMA Induction ==
  ASSUME NEW P, 0 \in P, \A n \in Nat : n \in P => n + 1 \in P
  PROVE  Nat \subseteq P
<1> SUFFICES ASSUME NEW k \in Nat, k \notin P PROVE FALSE
  OBVIOUS
<1> DEFINE R == OpToRel(<, Nat)
           T == {n \in Nat : n \notin P}
<1>1. IsWellFoundedOn(R, Nat)
  BY NatLessThanWellFounded
<1>2. T \subseteq Nat /\ T # {}
  OBVIOUS
<1>3. \A n, m \in Nat : n < m => <<n, m>> \in R
  BY DEF OpToRel
<1> HIDE DEF R
<1>4. PICK n \in T : \A m \in T : <<m, n>> \notin R
  BY <1>1, <1>2, WFMin
<1>5. n # 0
  OBVIOUS
<1>6. n - 1 \in Nat /\ n - 1 \in P
  <2>1. n \in Nat /\ n - 1 \in Nat /\ n - 1 < n
    BY <1>5
  <2>2. <<n - 1, n>> \in R
    BY <2>1, <1>3, Zenon
  <2>3. n - 1 \notin T
    BY <2>2, <1>4, Zenon
  <2> QED BY <2>1, <2>3
<1> QED BY <1>6

(* g begins with a, and each value comes by F from the one before it. *)
Recurs(g, l, a, F) ==
  g[0] = a /\ \A i \in 1 .. l : g[i] = F[<<i, g[i - 1]>>]

(* A function on 0 .. l can be defined by its first value and by how each value
   comes from the one before it. *)
LEMMA Recursion ==
  ASSUME NEW l \in Nat, NEW S, NEW a \in S, NEW F \in [(1 .. l) \X S -> S]
  PROVE  \E g \in [0 .. l -> S] : Recurs(g, l, a, F)
<1> DEFINE IsDefined(g, n) ==
             g[0] = a /\ \A i \in 1 .. n : g[i] = F[<<i, g[i - 1]>>]
           P == {n \in Nat : n <= l => \E g \in [0 .. n -> S] : IsDefined(g, n)}
<1>1. 0 \in P
  <2> DEFINE g == [i \in 0 .. 0 |-> a]
  <2>1. g \in [0 .. 0 -> S] /\ IsDefined(g, 0)
    OBVIOUS
  <2> QED BY <2>1
<1>2. ASSUME NEW n \in Nat, n \in P
      PROVE  n + 1 \in P
  <2> SUFFICES ASSUME n + 1 <= l
               PROVE  \E g \in [0 .. n + 1 -> S] : IsDefined(g, n + 1)
    OBVIOUS
  <2>1. PICK g \in [0 .. n -> S] : IsDefined(g, n)
    BY <1>2
  <2> DEFINE next == F[<<n + 1, g[n]>>]
             further == [i \in 0 .. n + 1 |-> IF i = n + 1 THEN next ELSE g[i]]
  <2>2. next \in S
    OBVIOUS
  <2> HIDE DEF next
  <2>3. further \in [0 .. n + 1 -> S]
    BY <2>2
  <2>4. further[0] = a
    BY <2>1
  <2>5. ASSUME NEW i \in 1 .. n + 1
        PROVE  further[i] = F[<<i, further[i - 1]>>]
    <3>1. CASE i = n + 1
      BY <3>1, SMTT(30) DEF next
    <3>2. CASE i # n + 1
      BY <2>1, <3>2
    <3> QED BY <3>1, <3>2
  <2> QED BY <2>3, <2>4, <2>5
<1>3. l \in P
  BY <1>1, <1>2, Induction
<1> QED BY <1>3 DEF Recurs

(* What two sequences hold one after the other. *)
LEMMA Concatenated ==
  ASSUME NEW S, NEW s \in Seq(S), NEW t \in Seq(S)
  PROVE  s \o t \in Seq(S) /\ ToSet(s \o t) = ToSet(s) \cup ToSet(t)
<1>1. Range(s \o t) = Range(s) \cup Range(t)
  BY RangeConcatenation
<1> QED BY <1>1, ConcatProperties DEF Range, ToSet

(* What a list of sequences holds when it is made into one. *)
LEMMA Flattened ==
  ASSUME NEW S, NEW seqs \in Seq(Seq(S))
  PROVE  /\ FlattenSeq(seqs) \in Seq(S)
         /\ ToSet(FlattenSeq(seqs)) = UNION {ToSet(seqs[i]) : i \in DOMAIN seqs}
<1> DEFINE l == Len(seqs)
<1>0. l \in Nat /\ DOMAIN seqs = 1 .. l /\ \A i \in 1 .. l : seqs[i] \in Seq(S)
  BY LenProperties, ElementOfSeq
<1>1. CASE l = 0
  <2>1. FlattenSeq(seqs) = seqs /\ seqs = <<>>
    BY <1>0, <1>1, EmptySeq DEF FlattenSeq
  <2> QED BY <2>1, EmptySeq DEF ToSet
<1>2. CASE l # 0
  <2> DEFINE F == [x \in (1 .. l - 1) \X Seq(S) |-> x[2] \o seqs[x[1] + 1]]
  <2>1. l - 1 \in Nat /\ seqs[1] \in Seq(S)
    BY <1>0, <1>2
  <2>2. F \in [(1 .. l - 1) \X Seq(S) -> Seq(S)]
    BY <1>0, ConcatProperties
  <2>3. PICK g \in [0 .. l - 1 -> Seq(S)] :
          g[0] = seqs[1] /\ \A i \in 1 .. l - 1 : g[i] = F[<<i, g[i - 1]>>]
    <3> DEFINE m == l - 1
               Q == Seq(S)
               a == seqs[1]
    <3>1. m \in Nat /\ a \in Q /\ F \in [(1 .. m) \X Q -> Q]
      BY <2>1, <2>2
    <3> HIDE DEF F, m, Q, a
    <3>2. \E g \in [0 .. m -> Q] : Recurs(g, m, a, F)
      BY <3>1, Recursion
    <3> QED BY <3>2 DEF m, Q, a, Recurs
  <2> DEFINE flat == [i \in 1 .. l |-> g[i - 1]]
             flatten[i \in 1 .. l] == IF i = 1 THEN seqs[i] ELSE flatten[i - 1] \o seqs[i]
  <2>4. FlattenSeq(seqs) = flatten[l]
    BY <1>2, Zenon DEF FlattenSeq
  <2>5. flatten = CHOOSE f : f = [i \in 1 .. l |-> IF i = 1 THEN seqs[i] ELSE f[i - 1] \o seqs[i]]
    OBVIOUS
  <2>6. flat = [i \in 1 .. l |-> IF i = 1 THEN seqs[i] ELSE flat[i - 1] \o seqs[i]]
    <3> SUFFICES ASSUME NEW i \in 1 .. l
                 PROVE  g[i - 1] = IF i = 1 THEN seqs[i] ELSE flat[i - 1] \o seqs[i]
      OBVIOUS
    <3>1. CASE i = 1
      BY <2>3, <3>1
    <3>2. CASE i # 1
      <4>1. i - 1 \in 1 .. l - 1 /\ i - 1 \in 1 .. l /\ (i - 1) + 1 = i
        BY <3>2, <1>0
      <4>2. g[i - 1] = F[<<i - 1, g[(i - 1) - 1]>>]
        BY <4>1, <2>3, Zenon
      <4>3. g[(i - 1) - 1] \in Seq(S)
        <5>1. (i - 1) - 1 \in 0 .. l - 1
          BY <3>2, <1>0
        <5> QED BY <5>1, Zenon
      <4> QED BY <4>1, <4>2, <4>3, <3>2
    <3> QED BY <3>1, <3>2
  <2>7. flatten = [i \in 1 .. l |-> IF i = 1 THEN seqs[i] ELSE flatten[i - 1] \o seqs[i]]
    <3> HIDE DEF flat
    <3> QED BY <2>5, <2>6, Zenon
  <2> HIDE DEF flatten
  <2> DEFINE Flat(n) == /\ flatten[n] \in Seq(S)
                        /\ ToSet(flatten[n]) = UNION {ToSet(seqs[i]) : i \in 1 .. n}
             P == {n \in Nat : n \in 1 .. l => Flat(n)}
  <2>8. Flat(1)
    <3>1. flatten[1] = seqs[1]
      BY <1>0, <1>2, <2>7
    <3>2. UNION {ToSet(seqs[i]) : i \in 1 .. 1} = ToSet(seqs[1])
      OBVIOUS
    <3> QED BY <2>1, <3>1, <3>2
  <2>9. ASSUME NEW n \in 1 .. l, n + 1 \in 1 .. l, Flat(n)
        PROVE  Flat(n + 1)
    <3>1. flatten[n + 1] = flatten[n] \o seqs[n + 1]
      <4>1. n + 1 # 1 /\ (n + 1) - 1 = n
        BY <1>0
      <4> QED BY <2>7, <2>9, <4>1
    <3>2. seqs[n + 1] \in Seq(S)
      BY <2>9, <1>0
    <3>3. 1 .. n + 1 = (1 .. n) \cup {n + 1}
      BY <1>0
    <3>4. UNION {ToSet(seqs[i]) : i \in 1 .. n + 1} =
            (UNION {ToSet(seqs[i]) : i \in 1 .. n}) \cup ToSet(seqs[n + 1])
      BY <3>3, Zenon
    <3>5. /\ flatten[n] \o seqs[n + 1] \in Seq(S)
          /\ ToSet(flatten[n] \o seqs[n + 1]) = ToSet(flatten[n]) \cup ToSet(seqs[n + 1])
      BY <2>9, <3>2, Concatenated
    <3> HIDE DEF flat
    <3> QED BY <3>1, <2>9, <3>4, <3>5, Zenon
  <2>10. l \in P
    <3> HIDE DEF Flat
    <3>1. ASSUME NEW n \in Nat, n \in P, n + 1 \in 1 .. l
          PROVE  Flat(n + 1)
      <4>1. CASE n = 0
        BY <4>1, <2>8
      <4>2. CASE n # 0
        <5>1. n \in 1 .. l /\ Flat(n)
          BY <3>1, <4>2, <1>0
        <5> QED BY <5>1, <3>1, <2>9
      <4> QED BY <4>1, <4>2
    <3>2. \A n \in Nat : n \in P => n + 1 \in P
      BY <3>1
    <3>3. 0 \in P
      BY <1>0
    <3> HIDE DEF P
    <3> QED BY <1>0, <3>2, <3>3, Induction
  <2>11. Flat(l)
    BY <1>0, <1>2, <2>10
  <2> QED BY <1>0, <2>4, <2>11
<1> QED BY <1>0, <1>1, <1>2

-----------------------------------------------------------------------------
(* The sort. *)

(* order is a permutation and position is its inverse. *)
SortStates(n) ==
  [order : [1 .. n -> 1 .. n], position : [1 .. n -> 1 .. n], j : 0 .. n + 1, k : 1 .. n + 1]

Permutes(n, s) ==
  /\ s \in SortStates(n)
  /\ \A x \in 1 .. n : s.order[s.position[x]] = x /\ s.position[s.order[x]] = x

(* What a swap does to each object and to each place. *)
LEMMA SwapFields ==
  ASSUME NEW n \in Nat, NEW s, Permutes(n, s), NEW l \in 1 .. n,
         s.position[l] < s.k
  PROVE  LET k == s.k - 1
             other == s.order[k]
             t == Swap(s, l)
         IN  /\ t \in SortStates(n) /\ t.j = s.j /\ t.k = k
             /\ k \in 1 .. n /\ other \in 1 .. n /\ s.position[l] \in 1 .. k
             /\ \A x \in 1 .. n :
                  t.position[x] = IF x = l THEN k
                                  ELSE IF x = other THEN s.position[l]
                                  ELSE s.position[x]
             /\ \A q \in 1 .. n :
                  t.order[q] = IF q = k THEN l
                               ELSE IF q = s.position[l] THEN other
                               ELSE s.order[q]
<1> DEFINE k == s.k - 1
           p == s.position[l]
           other == s.order[k]
           position == [s.position EXCEPT ![other] = p, ![l] = k]
           order == [s.order EXCEPT ![p] = other, ![k] = l]
<1>1. /\ s.order \in [1 .. n -> 1 .. n] /\ s.position \in [1 .. n -> 1 .. n]
      /\ s.j \in 0 .. n + 1 /\ s.k \in 1 .. n + 1
  BY DEF Permutes, SortStates
<1>2. p \in 1 .. k /\ k \in 1 .. n /\ other \in 1 .. n /\ p \in 1 .. n /\ k \in 1 .. n + 1
  <2>1. p \in 1 .. n
    BY <1>1 DEF p
  <2>2. p < s.k /\ s.k \in 1 .. n + 1 /\ k = s.k - 1
    BY <1>1 DEF p, k
  <2>3. p \in 1 .. k /\ k \in 1 .. n /\ k \in 1 .. n + 1
    <3> HIDE DEF p, k, other, position, order
    <3> QED BY <2>1, <2>2
  <2>4. other \in 1 .. n
    <3> HIDE DEF k
    <3> QED BY <1>1, <2>3 DEF other
  <2> QED BY <2>1, <2>3, <2>4
<1>3. Swap(s, l) = [s EXCEPT !.k = k, !.position = position, !.order = order]
  BY DEF Swap
<1>4. order \in [1 .. n -> 1 .. n] /\ position \in [1 .. n -> 1 .. n]
  BY <1>1, <1>2
<1>5. \A x \in 1 .. n : position[x] = IF x = l THEN k ELSE IF x = other THEN p
                                      ELSE s.position[x]
  BY <1>1, <1>2
<1>6. \A q \in 1 .. n : order[q] = IF q = k THEN l ELSE IF q = p THEN other
                                   ELSE s.order[q]
  BY <1>1, <1>2
<1>7. s \in SortStates(n)
  BY DEF Permutes
<1> HIDE DEF order, position, k
<1> DEFINE t == Swap(s, l)
<1> HIDE DEF t
<1>8. t = [s EXCEPT !.k = k, !.position = position, !.order = order]
  BY <1>3 DEF t
<1>9. /\ t \in SortStates(n)
      /\ t.j = s.j /\ t.k = k /\ t.position = position /\ t.order = order
  BY <1>2, <1>4, <1>7, <1>8 DEF SortStates
<1> QED BY <1>2, <1>5, <1>6, <1>9 DEF k, t

(* A swap only moves objects that are not in their place yet. *)
LEMMA SwapPermutes ==
  ASSUME NEW n \in Nat, NEW s, Permutes(n, s), NEW l \in 1 .. n,
         s.position[l] < s.k
  PROVE  Permutes(n, Swap(s, l))
<1> DEFINE k == s.k - 1
           p == s.position[l]
           other == s.order[k]
           t == Swap(s, l)
<1>1. /\ t \in SortStates(n)
      /\ k \in 1 .. n /\ other \in 1 .. n /\ p \in 1 .. n
      /\ \A x \in 1 .. n : t.position[x] = IF x = l THEN k ELSE IF x = other THEN p
                                           ELSE s.position[x]
      /\ \A q \in 1 .. n : t.order[q] = IF q = k THEN l ELSE IF q = p THEN other
                                        ELSE s.order[q]
  BY SwapFields
<1>2. /\ \A x \in 1 .. n : s.order[s.position[x]] = x /\ s.position[s.order[x]] = x
      /\ \A x \in 1 .. n : s.order[x] \in 1 .. n /\ s.position[x] \in 1 .. n
  BY DEF Permutes, SortStates
<1> HIDE DEF t, k, p, other
<1>3. s.position[other] = k /\ s.order[p] = l /\ s.order[k] = other /\ s.position[l] = p
  BY <1>1, <1>2 DEF other, p
<1>4. ASSUME NEW x \in 1 .. n
      PROVE  t.order[t.position[x]] = x /\ t.position[t.order[x]] = x
  BY <1>1, <1>2, <1>3
<1> QED BY <1>1, <1>4 DEF Permutes, t

Pairs(n) == (1 .. n) \X (1 .. n)

LEMMA Permuted ==
  ASSUME NEW n \in Nat, NEW s, Permutes(n, s)
  PROVE  /\ s.j \in 0 .. n + 1 /\ s.k \in 1 .. n + 1
         /\ \A x \in 1 .. n : s.position[x] \in 1 .. n /\ s.order[x] \in 1 .. n
         /\ \A x \in 1 .. n : s.order[s.position[x]] = x /\ s.position[s.order[x]] = x
<1>1. s \in SortStates(n)
  BY DEF Permutes
<1>2. s.order \in [1 .. n -> 1 .. n] /\ s.position \in [1 .. n -> 1 .. n]
  BY <1>1 DEF SortStates
<1>3. s.j \in 0 .. n + 1 /\ s.k \in 1 .. n + 1
  BY <1>1 DEF SortStates
<1> QED BY <1>2, <1>3 DEF Permutes

(* How a dependency may change the state. *)
LEMMA Considered ==
  ASSUME NEW n \in Nat, NEW s, Permutes(n, s), NEW d \in Pairs(n), s.j \in Nat
  PROVE  LET t == Consider(s, d)
         IN  \/ t = s /\ (d[1] = d[2] \/ s.position[d[1]] \notin s.j .. s.k - 1
                                      \/ s.position[d[2]] < s.j)
             \/ /\ t = Swap(s, d[1]) /\ d[1] # d[2]
                /\ s.position[d[1]] \in s.j .. s.k - 1 /\ s.position[d[2]] >= s.j
<1>1. d[1] \in 1 .. n /\ d[2] \in 1 .. n
  BY DEF Pairs
<1>2. s.position[d[2]] \in 1 .. n
  BY <1>1 DEF Permutes, SortStates
<1> QED BY <1>1, <1>2 DEF Consider

(* The places before j and from k on stay, of those between only one goes. *)
LEMMA SwapKeeps ==
  ASSUME NEW n \in Nat, NEW s, Permutes(n, s), NEW l \in 1 .. n,
         s.position[l] \in s.j .. s.k - 1
  PROVE  LET t == Swap(s, l)
         IN  /\ Permutes(n, t) /\ t.j = s.j /\ t.k = s.k - 1 /\ t.j <= t.k
             /\ \A x \in 1 .. n :
                  /\ s.position[x] < s.j => t.position[x] = s.position[x]
                  /\ t.position[x] < s.j => t.position[x] = s.position[x]
                  /\ t.position[x] \in t.j .. t.k - 1 => s.position[x] \in s.j .. s.k - 1
                  /\ x # l /\ s.position[x] \in s.j .. s.k - 1 => t.position[x] \in t.j .. t.k - 1
<1> DEFINE t == Swap(s, l)
           k == s.k - 1
           other == s.order[k]
<1>1. /\ s.j \in Nat /\ s.k \in 1 .. n + 1
      /\ \A x \in 1 .. n : s.position[x] \in 1 .. n /\ s.order[x] \in 1 .. n
      /\ \A x \in 1 .. n : s.order[s.position[x]] = x /\ s.position[s.order[x]] = x
  BY Permuted
<1>2. s.position[l] < s.k
  BY <1>1
<1>3. Permutes(n, t)
  BY <1>2, SwapPermutes
<1>4. /\ t.j = s.j /\ t.k = k
      /\ k \in 1 .. n /\ other \in 1 .. n /\ s.position[l] \in 1 .. k
      /\ \A x \in 1 .. n : t.position[x] = IF x = l THEN k ELSE IF x = other THEN s.position[l]
                                           ELSE s.position[x]
  BY <1>2, SwapFields
<1>5. s.position[other] = k
  BY <1>1, <1>4
<1>6. \A x \in 1 .. n : s.position[x] = k => x = other
  BY <1>1, <1>4
<1> HIDE DEF t, other
<1>7. t.j <= t.k
  BY <1>1, <1>4
<1>8. ASSUME NEW x \in 1 .. n
      PROVE  /\ s.position[x] < s.j => t.position[x] = s.position[x]
             /\ t.position[x] < s.j => t.position[x] = s.position[x]
             /\ t.position[x] \in t.j .. t.k - 1 => s.position[x] \in s.j .. s.k - 1
             /\ x # l /\ s.position[x] \in s.j .. s.k - 1 => t.position[x] \in t.j .. t.k - 1
  <2>1. s.position[x] \in 1 .. n /\ s.position[l] \in 1 .. n
    BY <1>1
  <2>2. CASE x = l
    BY <1>1, <1>4, <2>1, <2>2
  <2>3. CASE x # l /\ x = other
    <3>1. t.position[x] = s.position[l] /\ s.position[x] = k
      BY <1>4, <1>5, <2>3
    <3>2. s.position[l] # k
      BY <1>6, <2>3
    <3> QED BY <1>1, <1>4, <2>1, <3>1, <3>2
  <2>4. CASE x # l /\ x # other
    <3>1. t.position[x] = s.position[x] /\ s.position[x] # k
      BY <1>4, <1>6, <2>4
    <3> QED BY <1>1, <1>4, <2>1, <3>1
  <2> QED BY <2>2, <2>3, <2>4
<1> QED BY <1>3, <1>4, <1>7, <1>8 DEF t

(* The states that a round goes through. *)
Arranged(n) == {s \in SortStates(n) : Permutes(n, s) /\ s.j <= s.k}

LEMMA ConsiderArranged ==
  ASSUME NEW n \in Nat, NEW s \in Arranged(n), NEW d \in Pairs(n)
  PROVE  Consider(s, d) \in Arranged(n) /\ Consider(s, d).j = s.j
<1>1. Permutes(n, s) /\ s.j <= s.k /\ s \in SortStates(n)
  BY DEF Arranged
<1>2. s.j \in Nat
  BY <1>1, Permuted
<1>3. CASE Consider(s, d) = s
  BY <1>3
<1>4. CASE Consider(s, d) # s
  <2>1. Consider(s, d) = Swap(s, d[1]) /\ s.position[d[1]] \in s.j .. s.k - 1
    BY <1>1, <1>2, <1>4, Considered
  <2>2. d[1] \in 1 .. n
    BY DEF Pairs
  <2> DEFINE t == Swap(s, d[1])
  <2>3. Permutes(n, t) /\ t.j = s.j /\ t.j <= t.k
    BY <1>1, <2>1, <2>2, SwapKeeps
  <2>4. t \in SortStates(n)
    BY <2>3 DEF Permutes
  <2> HIDE DEF t
  <2>5. t \in Arranged(n)
    BY <2>3, <2>4 DEF Arranged
  <2> QED BY <2>1, <2>3, <2>5 DEF t
<1> QED BY <1>3, <1>4

(* A round, dependency after dependency. *)
LEMMA RoundUnfolds ==
  ASSUME NEW n \in Nat, NEW s \in Arranged(n), NEW D \in Seq(Pairs(n))
  PROVE  \E g \in [0 .. Len(D) -> Arranged(n)] :
           /\ g[0] = [s EXCEPT !.j = s.k, !.k = n + 1]
           /\ \A i \in 1 .. Len(D) : g[i] = Consider(g[i - 1], D[i])
           /\ Round(n, s, D) = g[Len(D)]
<1> DEFINE l == Len(D)
           S == Arranged(n)
           a == [s EXCEPT !.j = s.k, !.k = n + 1]
           F == [x \in (1 .. l) \X S |-> Consider(x[2], D[x[1]])]
<1>1. l \in Nat /\ \A i \in 1 .. l : D[i] \in Pairs(n)
  BY LenProperties, ElementOfSeq
<1>2. a \in S
  <2>1. s \in SortStates(n) /\ Permutes(n, s)
    BY DEF Arranged
  <2>2. s.k \in 1 .. n + 1
    BY <2>1, Permuted
  <2>3. a \in SortStates(n) /\ a.j = s.k /\ a.k = n + 1
        /\ a.order = s.order /\ a.position = s.position
    <3>1. s.k \in 0 .. n + 1 /\ n + 1 \in 1 .. n + 1
      BY <2>2
    <3> QED BY <2>1, <3>1 DEF SortStates
  <2> HIDE DEF a
  <2>4. Permutes(n, a)
    BY <2>1, <2>3 DEF Permutes
  <2> QED BY <2>2, <2>3, <2>4 DEF Arranged
<1>3. F \in [(1 .. l) \X S -> S]
  BY <1>1, ConsiderArranged
<1>4. PICK g \in [0 .. l -> S] : Recurs(g, l, a, F)
  <2> HIDE DEF F, l, S, a
  <2> QED BY <1>1, <1>2, <1>3, Recursion
<1>5. g[0] = a /\ \A i \in 1 .. l : g[i] = Consider(g[i - 1], D[i])
  <2>1. ASSUME NEW i \in 1 .. l
        PROVE  g[i] = Consider(g[i - 1], D[i])
    <3>1. g[i - 1] \in S
      <4>1. i - 1 \in 0 .. l
        BY <1>1
      <4> QED BY <4>1, Zenon
    <3>2. g[i] = F[<<i, g[i - 1]>>]
      BY <1>4, Zenon DEF Recurs
    <3> HIDE DEF S
    <3> QED BY <3>1, <3>2
  <2> QED BY <1>4, <2>1, Zenon DEF Recurs
<1> DEFINE considered[i \in 0 .. l] ==
             IF i = 0 THEN a ELSE Consider(considered[i - 1], D[i])
<1>6. Round(n, s, D) = considered[l]
  BY Zenon DEF Round
<1>7. g = [i \in 0 .. l |-> IF i = 0 THEN a ELSE Consider(g[i - 1], D[i])]
  <2> HIDE DEF a, S
  <2> QED BY <1>1, <1>5
<1>8. considered = [i \in 0 .. l |-> IF i = 0 THEN a ELSE Consider(considered[i - 1], D[i])]
  <2> HIDE DEF a, S, l
  <2> QED BY <1>7, Zenon
<1> HIDE DEF considered, a, S, F
<1> DEFINE P == {i \in Nat : i <= l => considered[i] = g[i]}
<1>9. 0 \in P
  BY <1>1, <1>5, <1>8
<1>10. ASSUME NEW i \in Nat, i \in P, i + 1 <= l
       PROVE  considered[i + 1] = g[i + 1]
  <2>1. i + 1 \in 1 .. l /\ i + 1 \in 0 .. l /\ i + 1 # 0 /\ (i + 1) - 1 = i /\ i <= l
    BY <1>1, <1>10
  <2>2. considered[i + 1] = Consider(considered[i], D[i + 1])
    BY <1>8, <2>1
  <2>3. g[i + 1] = Consider(g[i], D[i + 1])
    BY <1>5, <2>1
  <2> QED BY <1>10, <2>1, <2>2, <2>3
<1>11. l \in P
  <2>1. \A i \in Nat : i \in P => i + 1 \in P
    BY <1>10
  <2> HIDE DEF P
  <2> QED BY <1>1, <1>9, <2>1, Induction
<1> QED BY <1>1, <1>5, <1>6, <1>11 DEF a, S

(* The dependencies of the objects before place k are kept. *)
Sorted(s, D) ==
  \A i \in 1 .. Len(D) :
    D[i][1] # D[i][2] /\ s.position[D[i][1]] < s.k =>
      s.position[D[i][2]] < s.position[D[i][1]]

(* Where a round that began in s stands in t, after i dependencies: the places
   before j are as they were, and an object between j and k waits, by these
   dependencies, for none but those. *)
InRound(n, s, D, t, i) ==
  /\ t.j = s.k
  /\ \A x \in 1 .. n :
       (s.position[x] < t.j \/ t.position[x] < t.j) => t.position[x] = s.position[x]
  /\ \A m \in 1 .. i :
       D[m][1] # D[m][2] /\ t.position[D[m][1]] \in t.j .. t.k - 1 =>
         t.position[D[m][2]] < t.j

LEMMA StepOfRound ==
  ASSUME NEW n \in Nat, NEW s \in Arranged(n), NEW D \in Seq(Pairs(n)),
         NEW t \in Arranged(n), NEW i \in 1 .. Len(D), InRound(n, s, D, t, i - 1)
  PROVE  InRound(n, s, D, Consider(t, D[i]), i)
<1> DEFINE l == D[i][1]
           r == D[i][2]
           u == Consider(t, D[i])
<1>1. /\ \A m \in 1 .. Len(D) : D[m][1] \in 1 .. n /\ D[m][2] \in 1 .. n
      /\ Len(D) \in Nat
  BY LenProperties, ElementOfSeq DEF Pairs
<1>2. Permutes(n, t) /\ D[i] \in Pairs(n)
  BY <1>1, ElementOfSeq DEF Arranged
<1>3. /\ t.j \in 0 .. n + 1 /\ t.k \in 1 .. n + 1
      /\ \A x \in 1 .. n : t.position[x] \in 1 .. n
  BY <1>2, Permuted
<1>4. t.j \in Nat
  BY <1>3
<1>5. \/ u = t /\ (l = r \/ t.position[l] \notin t.j .. t.k - 1 \/ t.position[r] < t.j)
      \/ u = Swap(t, l) /\ l # r /\ t.position[l] \in t.j .. t.k - 1
  BY <1>2, <1>4, Considered
<1>6. CASE u = t /\ (l = r \/ t.position[l] \notin t.j .. t.k - 1 \/ t.position[r] < t.j)
  <2>1. ASSUME NEW m \in 1 .. i, D[m][1] # D[m][2], t.position[D[m][1]] \in t.j .. t.k - 1
        PROVE  t.position[D[m][2]] < t.j
    <3>1. CASE m = i
      BY <1>6, <2>1, <3>1
    <3>2. CASE m # i
      <4>1. m \in 1 .. i - 1
        BY <1>1, <3>2
      <4> QED BY <2>1, <4>1 DEF InRound
    <3> QED BY <3>1, <3>2
  <2> QED BY <1>6, <2>1 DEF InRound
<1>7. CASE u = Swap(t, l) /\ l # r /\ t.position[l] \in t.j .. t.k - 1
  <2>0. l \in 1 .. n
    BY <1>1
  <2>1. /\ Permutes(n, u) /\ u.j = t.j /\ u.k = t.k - 1 /\ u.j <= u.k
        /\ \A x \in 1 .. n :
             /\ t.position[x] < t.j => u.position[x] = t.position[x]
             /\ u.position[x] < t.j => u.position[x] = t.position[x]
             /\ u.position[x] \in u.j .. u.k - 1 => t.position[x] \in t.j .. t.k - 1
    <3>1. /\ Permutes(n, t) /\ t.position[l] \in t.j .. t.k - 1
          /\ u = Swap(t, l)
      BY <1>2, <1>7
    <3> HIDE DEF l, u
    <3> QED BY <2>0, <3>1, SwapKeeps
  <2>2. u.position[l] = t.k - 1
    <3>1. t.position[l] < t.k
      BY <1>3, <1>7
    <3> QED BY <1>2, <1>7, <2>0, <3>1, SwapFields
  <2> HIDE DEF u, l
  <2>3. u.j = s.k
    BY <2>1 DEF InRound
  <2>4. ASSUME NEW x \in 1 .. n, s.position[x] < u.j \/ u.position[x] < u.j
        PROVE  u.position[x] = s.position[x]
    BY <2>1, <2>4 DEF InRound
  <2>5. ASSUME NEW m \in 1 .. i, D[m][1] # D[m][2], u.position[D[m][1]] \in u.j .. u.k - 1
        PROVE  u.position[D[m][2]] < u.j
    <3>1. D[m][1] \in 1 .. n /\ D[m][2] \in 1 .. n
      BY <1>1
    <3>2. m # i
      <4> SUFFICES ASSUME m = i PROVE FALSE
        OBVIOUS
      <4> QED BY <2>1, <2>2, <2>5, <1>3 DEF l
    <3>3. m \in 1 .. i - 1
      BY <1>1, <3>2
    <3>4. t.position[D[m][2]] < t.j
      BY <2>1, <2>5, <3>1, <3>3 DEF InRound
    <3> QED BY <2>1, <3>1, <3>4
  <2> QED BY <2>3, <2>4, <2>5 DEF InRound, u
<1> QED BY <1>5, <1>6, <1>7

(* A round leaves in its places what does not wait for what comes later. *)
LEMMA RoundSorts ==
  ASSUME NEW n \in Nat, NEW s \in Arranged(n), NEW D \in Seq(Pairs(n)), Sorted(s, D)
  PROVE  LET t == Round(n, s, D)
         IN  t \in Arranged(n) /\ t.j = s.k /\ Sorted(t, D)
<1>1. PICK g \in [0 .. Len(D) -> Arranged(n)] :
        /\ g[0] = [s EXCEPT !.j = s.k, !.k = n + 1]
        /\ \A i \in 1 .. Len(D) : g[i] = Consider(g[i - 1], D[i])
        /\ Round(n, s, D) = g[Len(D)]
  BY RoundUnfolds, ZenonT(30)
<1>2. /\ \A m \in 1 .. Len(D) : D[m][1] \in 1 .. n /\ D[m][2] \in 1 .. n
      /\ Len(D) \in Nat
  BY LenProperties, ElementOfSeq DEF Pairs
<1> DEFINE P == {i \in Nat : i <= Len(D) => InRound(n, s, D, g[i], i)}
<1>3. 0 \in P
  <2>1. g[0].j = s.k /\ g[0].position = s.position
    BY <1>1 DEF Arranged, SortStates
  <2> QED BY <2>1 DEF InRound
<1>4. ASSUME NEW i \in Nat, i \in P, i + 1 <= Len(D)
      PROVE  InRound(n, s, D, g[i + 1], i + 1)
  <2>1. i + 1 \in 1 .. Len(D) /\ i \in 0 .. Len(D) /\ (i + 1) - 1 = i /\ i <= Len(D)
    BY <1>2, <1>4
  <2>2. g[i + 1] = Consider(g[i], D[i + 1]) /\ g[i] \in Arranged(n)
    BY <1>1, <2>1
  <2>3. InRound(n, s, D, g[i], (i + 1) - 1)
    BY <1>4, <2>1
  <2> QED BY <2>1, <2>2, <2>3, StepOfRound
<1>5. Len(D) \in P
  <2>1. \A i \in Nat : i \in P => i + 1 \in P
    BY <1>4
  <2> HIDE DEF P
  <2> QED BY <1>2, <1>3, <2>1, Induction
<1> DEFINE t == Round(n, s, D)
<1>6. t \in Arranged(n) /\ InRound(n, s, D, t, Len(D))
  BY <1>1, <1>2, <1>5
<1> HIDE DEF t
<1>7. /\ t.j \in 0 .. n + 1 /\ t.k \in 1 .. n + 1 /\ t.j <= t.k
      /\ \A x \in 1 .. n : t.position[x] \in 1 .. n
  BY <1>6, Permuted DEF Arranged
<1>8. ASSUME NEW i \in 1 .. Len(D), D[i][1] # D[i][2], t.position[D[i][1]] < t.k
      PROVE  t.position[D[i][2]] < t.position[D[i][1]]
  <2>1. D[i][1] \in 1 .. n /\ D[i][2] \in 1 .. n
    BY <1>2
  <2>2. CASE t.position[D[i][1]] < t.j
    <3>1. t.position[D[i][1]] = s.position[D[i][1]] /\ t.j = s.k
      BY <1>6, <2>1, <2>2 DEF InRound
    <3>2. s.position[D[i][2]] < s.position[D[i][1]]
      BY <1>8, <2>2, <3>1 DEF Sorted
    <3>3. s.position[D[i][2]] \in 1 .. n
      BY <2>1, Permuted DEF Arranged
    <3>4. s.position[D[i][2]] < t.j
      BY <1>7, <2>1, <2>2, <3>1, <3>2, <3>3
    <3>5. t.position[D[i][2]] = s.position[D[i][2]]
      BY <1>6, <2>1, <3>4 DEF InRound
    <3> QED BY <3>1, <3>2, <3>5
  <2>3. CASE t.position[D[i][1]] >= t.j
    <3>1. t.position[D[i][1]] \in t.j .. t.k - 1
      BY <1>7, <1>8, <2>1, <2>3
    <3>2. t.position[D[i][2]] < t.j
      BY <1>6, <1>8, <3>1 DEF InRound
    <3>3. t.position[D[i][1]] \in 1 .. n /\ t.position[D[i][2]] \in 1 .. n /\ t.j \in 0 .. n + 1
      BY <1>7, <2>1
    <3> QED BY <2>3, <3>2, <3>3
  <2> QED BY <1>7, <2>1, <2>2, <2>3
<1> QED BY <1>6, <1>8 DEF t, InRound, Sorted

(* A set of natural numbers has a least one. *)
LEMMA LeastNumber ==
  ASSUME NEW T, T \subseteq Nat, T # {}
  PROVE  \E m \in T : \A y \in T : m <= y
<1> DEFINE R == OpToRel(<, Nat)
<1>1. IsWellFoundedOn(R, Nat)
  BY NatLessThanWellFounded
<1>2. \A y, m \in Nat : y < m => <<y, m>> \in R
  BY DEF OpToRel
<1> HIDE DEF R
<1>3. PICK m \in T : \A y \in T : <<y, m>> \notin R
  BY <1>1, WFMin
<1>4. \A y \in T : ~ (y < m)
  BY <1>2, <1>3
<1> QED BY <1>4

(* If the objects have ranks by which each waits for lower ones only, *)
Ranks(n, D, rank) ==
  /\ rank \in [1 .. n -> Nat]
  /\ \A i \in 1 .. Len(D) : rank[D[i][2]] < rank[D[i][1]]

(* the lowest of those at the end of the list stays before k. *)
Waitless(n, s, x, t) ==
  /\ t.j = s.k
  /\ t.position[x] \in t.j .. t.k - 1
  /\ \A y \in 1 .. n : t.position[y] < t.j <=> s.position[y] < t.j

LEMMA StepKeepsWaitless ==
  ASSUME NEW n \in Nat, NEW s \in Arranged(n), NEW D \in Seq(Pairs(n)),
         NEW rank, Ranks(n, D, rank),
         NEW x \in 1 .. n, \A y \in 1 .. n : s.position[y] >= s.k => rank[x] <= rank[y],
         NEW t \in Arranged(n), NEW i \in 1 .. Len(D), Waitless(n, s, x, t)
  PROVE  Waitless(n, s, x, Consider(t, D[i]))
<1> DEFINE l == D[i][1]
           r == D[i][2]
           u == Consider(t, D[i])
<1>1. D[i] \in Pairs(n) /\ l \in 1 .. n /\ r \in 1 .. n
  BY ElementOfSeq DEF Pairs
<1>2. Permutes(n, t) /\ Permutes(n, s)
  BY DEF Arranged
<1>3. /\ t.j \in Nat /\ t.k \in 1 .. n + 1 /\ s.k \in 1 .. n + 1
      /\ \A y \in 1 .. n : t.position[y] \in 1 .. n /\ s.position[y] \in 1 .. n
  BY <1>2, Permuted
<1>4. \/ u = t
      \/ u = Swap(t, l) /\ t.position[l] \in t.j .. t.k - 1 /\ t.position[r] >= t.j
  BY <1>1, <1>2, <1>3, Considered
<1>5. CASE u = t
  BY <1>5
<1>6. CASE u = Swap(t, l) /\ t.position[l] \in t.j .. t.k - 1 /\ t.position[r] >= t.j
  <2>1. s.position[r] >= s.k
    <3>1. (t.position[r] < t.j <=> s.position[r] < t.j) /\ t.j = s.k
      BY <1>1 DEF Waitless
    <3>2. /\ t.position[r] \in 1 .. n /\ s.position[r] \in 1 .. n
          /\ t.position[r] >= t.j /\ s.k \in 1 .. n + 1
      BY <1>1, <1>3, <1>6
    <3> HIDE DEF r
    <3> QED BY <3>1, <3>2
  <2>2. l # x
    <3>1. rank[x] <= rank[r] /\ rank[r] < rank[l]
      BY <1>1, <2>1 DEF Ranks
    <3>2. rank[x] \in Nat /\ rank[r] \in Nat /\ rank[l] \in Nat
      BY <1>1 DEF Ranks
    <3> QED BY <3>1, <3>2
  <2>3. /\ u.j = t.j
        /\ \A y \in 1 .. n :
             /\ t.position[y] < t.j => u.position[y] = t.position[y]
             /\ u.position[y] < t.j => u.position[y] = t.position[y]
             /\ y # l /\ t.position[y] \in t.j .. t.k - 1 => u.position[y] \in u.j .. u.k - 1
    BY <1>1, <1>2, <1>6, SwapKeeps
  <2> HIDE DEF u, l
  <2> QED BY <2>2, <2>3 DEF Waitless, u
<1> QED BY <1>4, <1>5, <1>6

(* Every round puts a further object in its place. *)
LEMMA RoundAdvances ==
  ASSUME NEW n \in Nat, NEW s \in Arranged(n), NEW D \in Seq(Pairs(n)),
         NEW rank, Ranks(n, D, rank), s.k <= n
  PROVE  Round(n, s, D).j < Round(n, s, D).k
<1>1. Permutes(n, s)
  BY DEF Arranged
<1>2. /\ s.k \in 1 .. n
      /\ \A y \in 1 .. n : s.position[y] \in 1 .. n /\ s.order[y] \in 1 .. n
      /\ \A y \in 1 .. n : s.position[s.order[y]] = y
  BY <1>1, Permuted
<1>3. PICK x \in 1 .. n :
        s.position[x] >= s.k /\ \A y \in 1 .. n : s.position[y] >= s.k => rank[x] <= rank[y]
  <2> DEFINE T == {rank[y] : y \in {z \in 1 .. n : s.position[z] >= s.k}}
  <2>1. T \subseteq Nat
    BY DEF Ranks
  <2>2. n \in 1 .. n /\ s.order[n] \in 1 .. n /\ s.position[s.order[n]] >= s.k
    BY <1>2
  <2>3. T # {}
    BY <2>2
  <2>4. PICK m \in T : \A y \in T : m <= y
    <3> HIDE DEF T
    <3> QED BY <2>1, <2>3, LeastNumber
  <2> QED BY <2>4
<1>4. PICK g \in [0 .. Len(D) -> Arranged(n)] :
        /\ g[0] = [s EXCEPT !.j = s.k, !.k = n + 1]
        /\ \A i \in 1 .. Len(D) : g[i] = Consider(g[i - 1], D[i])
        /\ Round(n, s, D) = g[Len(D)]
  BY RoundUnfolds, ZenonT(30)
<1>5. Len(D) \in Nat
  BY LenProperties
<1> DEFINE P == {i \in Nat : i <= Len(D) => Waitless(n, s, x, g[i])}
<1>6. 0 \in P
  <2>1. g[0].j = s.k /\ g[0].position = s.position /\ g[0].k = n + 1
    BY <1>4 DEF Arranged, SortStates
  <2> QED BY <2>1, <1>2, <1>3 DEF Waitless
<1>7. ASSUME NEW i \in Nat, i \in P, i + 1 <= Len(D)
      PROVE  Waitless(n, s, x, g[i + 1])
  <2>1. i + 1 \in 1 .. Len(D) /\ i \in 0 .. Len(D) /\ (i + 1) - 1 = i /\ i <= Len(D)
    BY <1>5, <1>7
  <2>2. g[i + 1] = Consider(g[i], D[i + 1]) /\ g[i] \in Arranged(n)
    BY <1>4, <2>1
  <2>3. Waitless(n, s, x, g[i])
    BY <1>7, <2>1
  <2> QED BY <1>3, <2>1, <2>2, <2>3, StepKeepsWaitless
<1>8. Len(D) \in P
  <2>1. \A i \in Nat : i \in P => i + 1 \in P
    BY <1>7
  <2> HIDE DEF P
  <2> QED BY <1>5, <1>6, <2>1, Induction
<1>9. Waitless(n, s, x, Round(n, s, D)) /\ Round(n, s, D) \in Arranged(n)
  BY <1>4, <1>5, <1>8
<1> DEFINE t == Round(n, s, D)
<1> HIDE DEF t
<1>10. t.j \in Nat /\ t.k \in Nat /\ t.position[x] \in Nat
  BY <1>9, Permuted DEF Arranged, t
<1> QED BY <1>9, <1>10 DEF Waitless, t

(* The state of the sort before the first round. *)
Unsorted(n) ==
  LET unsorted == [i \in 1 .. n |-> i]
  IN  [order |-> unsorted, position |-> unsorted, j |-> 0, k |-> 1]

LEMMA UnsortedIsArranged ==
  ASSUME NEW n \in Nat
  PROVE  Unsorted(n) \in Arranged(n) /\ Unsorted(n).j = 0 /\ Unsorted(n).k = 1
<1> DEFINE u == [i \in 1 .. n |-> i]
           s == Unsorted(n)
<1>1. u \in [1 .. n -> 1 .. n] /\ \A i \in 1 .. n : u[i] = i
  OBVIOUS
<1>2. 0 \in 0 .. n + 1 /\ 1 \in 1 .. n + 1
  OBVIOUS
<1>3. s = [order |-> u, position |-> u, j |-> 0, k |-> 1]
  BY DEF Unsorted
<1> HIDE DEF u, s
<1>4. s \in SortStates(n) /\ s.order = u /\ s.position = u /\ s.j = 0 /\ s.k = 1
  BY <1>1, <1>2, <1>3 DEF SortStates
<1>5. Permutes(n, s)
  BY <1>1, <1>4 DEF Permutes
<1> QED BY <1>4, <1>5 DEF Arranged, s

NextRound(n, s, D) == IF s.k <= s.j THEN s ELSE Round(n, s, D)

(* The sort, round after round. *)
LEMMA SortUnfolds ==
  ASSUME NEW n \in Nat, NEW D \in Seq(Pairs(n))
  PROVE  \E g \in [0 .. n + 1 -> Arranged(n)] :
           /\ g[0] = Unsorted(n)
           /\ \A r \in 1 .. n + 1 : g[r] = NextRound(n, g[r - 1], D)
           /\ \A r \in 0 .. n + 1 : Sorted(g[r], D)
           /\ SortTopological(n, D) = [order |-> g[n + 1].order, countOrdered |-> g[n + 1].j - 1]
<1> DEFINE l == n + 1
           S == {s \in Arranged(n) : Sorted(s, D)}
           a == Unsorted(n)
           F == [x \in (1 .. l) \X S |-> NextRound(n, x[2], D)]
<1>1. l \in Nat
  OBVIOUS
<1>2. a \in S
  <2>1. a \in Arranged(n) /\ a.k = 1
    BY UnsortedIsArranged
  <2>2. \A x \in 1 .. n : a.position[x] \in 1 .. n
    BY <2>1, Permuted DEF Arranged
  <2>3. \A m \in 1 .. Len(D) : D[m][1] \in 1 .. n
    BY ElementOfSeq DEF Pairs
  <2> HIDE DEF a
  <2>4. \A m \in 1 .. Len(D) : ~ (a.position[D[m][1]] < 1)
    BY <2>2, <2>3
  <2>5. Sorted(a, D)
    BY <2>1, <2>4 DEF Sorted
  <2> QED BY <2>1, <2>5
<1>3. \A s \in S : NextRound(n, s, D) \in S
  BY RoundSorts DEF NextRound
<1>4. F \in [(1 .. l) \X S -> S]
  BY <1>3
<1>5. PICK g \in [0 .. l -> S] : Recurs(g, l, a, F)
  <2> HIDE DEF F, l, S, a
  <2> QED BY <1>1, <1>2, <1>4, Recursion
<1>6. g[0] = a /\ \A i \in 1 .. l : g[i] = NextRound(n, g[i - 1], D)
  <2>1. ASSUME NEW i \in 1 .. l
        PROVE  g[i] = NextRound(n, g[i - 1], D)
    <3>1. g[i - 1] \in S
      <4>1. i - 1 \in 0 .. l
        BY <1>1
      <4> QED BY <4>1, Zenon
    <3>2. g[i] = F[<<i, g[i - 1]>>]
      BY <1>5, Zenon DEF Recurs
    <3> HIDE DEF S
    <3> QED BY <3>1, <3>2
  <2> QED BY <1>5, <2>1, Zenon DEF Recurs
<1> DEFINE after[r \in 0 .. l] ==
             IF r = 0 THEN a ELSE NextRound(n, after[r - 1], D)
<1>7. SortTopological(n, D) = [order |-> after[l].order, countOrdered |-> after[l].j - 1]
  BY Zenon DEF SortTopological, Unsorted, NextRound
<1>8. g = [i \in 0 .. l |-> IF i = 0 THEN a ELSE NextRound(n, g[i - 1], D)]
  <2> HIDE DEF a, S
  <2> QED BY <1>1, <1>6
<1>9. after = [i \in 0 .. l |-> IF i = 0 THEN a ELSE NextRound(n, after[i - 1], D)]
  <2> HIDE DEF a, S, l
  <2> QED BY <1>8, Zenon
<1> HIDE DEF after, a, F
<1> DEFINE P == {i \in Nat : i <= l => after[i] = g[i]}
<1>10. 0 \in P
  BY <1>1, <1>6, <1>9
<1>11. ASSUME NEW i \in Nat, i \in P, i + 1 <= l
       PROVE  after[i + 1] = g[i + 1]
  <2>1. i + 1 \in 1 .. l /\ i + 1 \in 0 .. l /\ i + 1 # 0 /\ (i + 1) - 1 = i /\ i <= l
    BY <1>1, <1>11
  <2>2. after[i + 1] = NextRound(n, after[i], D)
    BY <1>9, <2>1
  <2>3. g[i + 1] = NextRound(n, g[i], D)
    BY <1>6, <2>1
  <2> QED BY <1>11, <2>1, <2>2, <2>3
<1>12. l \in P
  <2>1. \A i \in Nat : i \in P => i + 1 \in P
    BY <1>11
  <2> HIDE DEF P
  <2> QED BY <1>1, <1>10, <2>1, Induction
<1>13. after[l] = g[l]
  BY <1>1, <1>12
<1>14. g \in [0 .. l -> Arranged(n)] /\ \A r \in 0 .. l : Sorted(g[r], D)
  OBVIOUS
<1> QED BY <1>6, <1>7, <1>13, <1>14 DEF a

(* The rounds end: each but the last puts an object in its place. *)
LEMMA RoundsEnd ==
  ASSUME NEW n \in Nat, NEW D \in Seq(Pairs(n)),
         NEW g \in [0 .. n + 1 -> Arranged(n)], g[0] = Unsorted(n),
         \A r \in 1 .. n + 1 : g[r] = NextRound(n, g[r - 1], D),
         \A r \in 0 .. n + 1 : Sorted(g[r], D)
  PROVE  g[n + 1].j = g[n + 1].k
<1>1. \A s \in Arranged(n) : s.j \in 0 .. n + 1 /\ s.k \in 1 .. n + 1 /\ s.j <= s.k
  BY Permuted DEF Arranged
<1> DEFINE P == {r \in Nat : r <= n + 1 => g[r].k <= g[r].j \/ g[r].k > r}
<1>2. 0 \in P
  BY UnsortedIsArranged
<1>3. ASSUME NEW r \in Nat, r \in P, r + 1 <= n + 1
      PROVE  g[r + 1].k <= g[r + 1].j \/ g[r + 1].k > r + 1
  <2>1. r + 1 \in 1 .. n + 1 /\ r + 1 \in 0 .. n + 1 /\ r \in 0 .. n + 1 /\ (r + 1) - 1 = r
    BY <1>3
  <2> DEFINE s == g[r]
             t == g[r + 1]
  <2>2. s \in Arranged(n) /\ t \in Arranged(n) /\ Sorted(s, D) /\ t = NextRound(n, s, D)
    BY <2>1
  <2>3. s.k <= s.j \/ s.k > r
    BY <1>3, <2>1
  <2> HIDE DEF s, t
  <2>4. CASE s.k <= s.j
    BY <2>2, <2>4 DEF NextRound, s, t
  <2>5. CASE ~ (s.k <= s.j)
    <3>1. t = Round(n, s, D)
      BY <2>2, <2>5 DEF NextRound
    <3>2. t.j = s.k
      BY <2>2, <3>1, RoundSorts
    <3>3. s.k > r
      BY <2>3, <2>5
    <3>4. /\ s.k \in 1 .. n + 1 /\ t.k \in 1 .. n + 1
      BY <1>1, <2>2
    <3> QED BY <3>2, <3>3, <3>4 DEF t
  <2> QED BY <2>4, <2>5
<1>4. n + 1 \in P
  <2>1. \A r \in Nat : r \in P => r + 1 \in P
    BY <1>3
  <2> HIDE DEF P
  <2> QED BY <1>2, <2>1, Induction
<1>5. g[n + 1] \in Arranged(n)
  OBVIOUS
<1>6. /\ g[n + 1].j \in 0 .. n + 1 /\ g[n + 1].k \in 1 .. n + 1 /\ g[n + 1].j <= g[n + 1].k
  BY <1>1, <1>5
<1> QED BY <1>4, <1>6

(* Whatever the objects wait for, the sort changes nothing but their order, and
   each of the first countOrdered comes after all that it waits for.
   (source/numerical.sort.topological.F90, description of Sort_Topological) *)
THEOREM SortIsTopological ==
  ASSUME NEW n \in Nat, NEW D \in Seq(Pairs(n))
  PROVE  LET sorted == SortTopological(n, D)
         IN  /\ sorted.order \in [1 .. n -> 1 .. n] /\ sorted.countOrdered \in 0 .. n
             /\ \A p, q \in 1 .. n : sorted.order[p] = sorted.order[q] => p = q
             /\ \A x \in 1 .. n : \E p \in 1 .. n : sorted.order[p] = x
             /\ \A p \in 1 .. sorted.countOrdered, q \in 1 .. n, i \in 1 .. Len(D) :
                  D[i] = <<sorted.order[p], sorted.order[q]>> => q <= p
<1>1. PICK g \in [0 .. n + 1 -> Arranged(n)] :
        /\ g[0] = Unsorted(n)
        /\ \A r \in 1 .. n + 1 : g[r] = NextRound(n, g[r - 1], D)
        /\ \A r \in 0 .. n + 1 : Sorted(g[r], D)
        /\ SortTopological(n, D) = [order |-> g[n + 1].order, countOrdered |-> g[n + 1].j - 1]
  BY SortUnfolds
<1> DEFINE s == g[n + 1]
<1>2. s.j = s.k
  BY <1>1, RoundsEnd
<1>3. s \in Arranged(n) /\ Sorted(s, D)
  BY <1>1
<1> HIDE DEF s
<1>4. s.order \in [1 .. n -> 1 .. n]
  BY <1>3 DEF Arranged, SortStates
<1>5. /\ s.k \in 1 .. n + 1
      /\ \A x \in 1 .. n : s.position[x] \in 1 .. n /\ s.order[x] \in 1 .. n
      /\ \A x \in 1 .. n : s.order[s.position[x]] = x /\ s.position[s.order[x]] = x
  BY <1>3, Permuted DEF Arranged
<1>6. ASSUME NEW p \in 1 .. s.j - 1, NEW q \in 1 .. n, NEW i \in 1 .. Len(D),
             D[i] = <<s.order[p], s.order[q]>>
      PROVE  q <= p
  <2>1. p \in 1 .. n /\ p < s.k
    BY <1>2, <1>5
  <2>2. s.position[s.order[p]] = p /\ s.position[s.order[q]] = q
    BY <1>5, <2>1
  <2>3. CASE s.order[p] = s.order[q]
    BY <2>1, <2>2, <2>3
  <2>4. CASE s.order[p] # s.order[q]
    BY <1>3, <1>6, <2>1, <2>2, <2>4 DEF Sorted
  <2> QED BY <2>3, <2>4
<1>7. s.j - 1 \in 0 .. n
  BY <1>2, <1>5
<1>8. SortTopological(n, D) = [order |-> s.order, countOrdered |-> s.j - 1]
  BY <1>1 DEF s
<1>9. \A p, q \in 1 .. n : s.order[p] = s.order[q] => p = q
  BY <1>5
<1>10. \A x \in 1 .. n : \E p \in 1 .. n : s.order[p] = x
  BY <1>5
<1> DEFINE sorted == SortTopological(n, D)
<1>11. sorted.order = s.order /\ sorted.countOrdered = s.j - 1
  BY <1>8
<1> HIDE DEF sorted
<1>12. \A p \in 1 .. sorted.countOrdered, q \in 1 .. n, i \in 1 .. Len(D) :
         D[i] = <<sorted.order[p], sorted.order[q]>> => q <= p
  BY <1>6, <1>11, Zenon
<1>13. sorted.order \in [1 .. n -> 1 .. n] /\ sorted.countOrdered \in 0 .. n
  BY <1>4, <1>7, <1>11, Zenon
<1> QED BY <1>9, <1>10, <1>11, <1>12, <1>13, Zenon DEF sorted

(* If none of the objects waits for itself, at any remove, all are ordered. *)
THEOREM SortIsComplete ==
  ASSUME NEW n \in Nat, NEW D \in Seq(Pairs(n)), NEW rank, Ranks(n, D, rank)
  PROVE  SortTopological(n, D).countOrdered = n
<1>1. PICK g \in [0 .. n + 1 -> Arranged(n)] :
        /\ g[0] = Unsorted(n)
        /\ \A r \in 1 .. n + 1 : g[r] = NextRound(n, g[r - 1], D)
        /\ \A r \in 0 .. n + 1 : Sorted(g[r], D)
        /\ SortTopological(n, D) = [order |-> g[n + 1].order, countOrdered |-> g[n + 1].j - 1]
  BY SortUnfolds
<1>2. \A s \in Arranged(n) : s.j \in 0 .. n + 1 /\ s.k \in 1 .. n + 1 /\ s.j <= s.k
  BY Permuted DEF Arranged
<1> DEFINE P == {r \in Nat : r <= n + 1 => g[r].j < g[r].k \/ g[r].j = n + 1}
<1>3. 0 \in P
  BY <1>1, UnsortedIsArranged
<1>4. ASSUME NEW r \in Nat, r \in P, r + 1 <= n + 1
      PROVE  g[r + 1].j < g[r + 1].k \/ g[r + 1].j = n + 1
  <2>1. r + 1 \in 1 .. n + 1 /\ r + 1 \in 0 .. n + 1 /\ r \in 0 .. n + 1 /\ (r + 1) - 1 = r
    BY <1>4
  <2> DEFINE s == g[r]
             t == g[r + 1]
  <2>2. s \in Arranged(n) /\ t \in Arranged(n) /\ Sorted(s, D) /\ t = NextRound(n, s, D)
    BY <1>1, <2>1
  <2>3. s.j < s.k \/ s.j = n + 1
    BY <1>4, <2>1
  <2> HIDE DEF s, t
  <2>4. s.k \in 1 .. n + 1 /\ s.j \in 0 .. n + 1
    BY <1>2, <2>2
  <2>5. CASE s.k <= s.j
    BY <2>2, <2>3, <2>4, <2>5 DEF NextRound, s, t
  <2>6. CASE ~ (s.k <= s.j)
    <3>1. t = Round(n, s, D)
      BY <2>2, <2>6 DEF NextRound
    <3>2. t.j = s.k
      BY <2>2, <3>1, RoundSorts
    <3>3. s.k <= n => t.j < t.k
      BY <2>2, <3>1, RoundAdvances
    <3> QED BY <2>4, <3>2, <3>3 DEF t
  <2> QED BY <2>5, <2>6
<1>5. n + 1 \in P
  <2>1. \A r \in Nat : r \in P => r + 1 \in P
    BY <1>4
  <2> HIDE DEF P
  <2> QED BY <1>3, <2>1, Induction
<1>6. g[n + 1].j = g[n + 1].k
  BY <1>1, RoundsEnd
<1>7. g[n + 1] \in Arranged(n)
  OBVIOUS
<1>8. g[n + 1].j \in 0 .. n + 1 /\ g[n + 1].k \in 1 .. n + 1
  BY <1>2, <1>7
<1>9. g[n + 1].j = n + 1
  BY <1>5, <1>6, <1>8
<1> QED BY <1>1, <1>9

-----------------------------------------------------------------------------
(* The dependencies of a list of hooks. *)

LEMMA FunctionIsSeq ==
  ASSUME NEW n \in Nat, NEW S, NEW f \in [1 .. n -> S]
  PROVE  f \in Seq(S) /\ DOMAIN f = 1 .. n /\ Len(f) = n
OBVIOUS

PairOf(i, d, j) == IF d.direction = "after" THEN <<i, j>> ELSE <<j, i>>

(* The hook at i wants the one at j before, or after, it. *)
Wants(q, i, d, j) ==
  /\ i \in 1 .. Len(q) /\ j \in 1 .. Len(q)
  /\ d \in ToSet(DependenciesOf[q[i].function])
  /\ q[j].function \in d.matches

(* The array holds a pair for each dependency of each hook on another one. *)
LEMMA ArrayOfDependencies ==
  ASSUME NEW q \in Seq(Hook)
  PROVE  /\ DependencyArray(q) \in Seq(Pairs(Len(q)))
         /\ \A i, d, j : Wants(q, i, d, j) => PairOf(i, d, j) \in ToSet(DependencyArray(q))
         /\ \A p \in ToSet(DependencyArray(q)) :
              \E i, d, j : Wants(q, i, d, j) /\ p = PairOf(i, d, j)
<1> DEFINE n == Len(q)
           S == Pairs(n)
           OfPair(i, d, j) == IF q[j].function \in d.matches THEN <<PairOf(i, d, j)>> ELSE <<>>
           PairsOf(i, d) == [j \in DOMAIN q |-> OfPair(i, d, j)]
           OfOne(i, d) == FlattenSeq(PairsOf(i, d))
           Of(i) == DependenciesOf[q[i].function]
           OnesOf(i) == [k \in DOMAIN Of(i) |-> OfOne(i, Of(i)[k])]
           OfHook(i) == FlattenSeq(OnesOf(i))
           HooksOf == [i \in DOMAIN q |-> OfHook(i)]
<1>1. n \in Nat /\ DOMAIN q = 1 .. n /\ \A i \in 1 .. n : q[i] \in Hook /\ q[i].function \in AllFunctions
  <2>1. \A h \in Hook : h.function \in AllFunctions
    BY DEF Hook
  <2> QED BY <2>1, LenProperties, ElementOfSeq
<1>2. DependencyArray(q) = FlattenSeq(HooksOf)
  BY DEF DependencyArray, PairOf
<1>3. ASSUME NEW i \in 1 .. n, NEW d
      PROVE  /\ OfOne(i, d) \in Seq(S)
             /\ \A p : p \in ToSet(OfOne(i, d)) <=>
                         \E j \in 1 .. n : q[j].function \in d.matches /\ p = PairOf(i, d, j)
  <2>1. \A j \in 1 .. n : PairOf(i, d, j) \in S
    BY DEF PairOf, Pairs
  <2>2. ASSUME NEW j \in 1 .. n
        PROVE  /\ OfPair(i, d, j) \in Seq(S)
               /\ \A p : p \in ToSet(OfPair(i, d, j)) <=>
                           q[j].function \in d.matches /\ p = PairOf(i, d, j)
    <3> HIDE DEF S
    <3>1. CASE q[j].function \in d.matches
      BY <2>1, <3>1 DEF ToSet
    <3>2. CASE q[j].function \notin d.matches
      BY <3>2 DEF ToSet
    <3> QED BY <3>1, <3>2
  <2> HIDE DEF S, OfPair
  <2>3. PairsOf(i, d) \in [1 .. n -> Seq(S)]
    BY <1>1, <2>2
  <2>4. PairsOf(i, d) \in Seq(Seq(S)) /\ DOMAIN PairsOf(i, d) = 1 .. n
    BY <1>1, <2>3, FunctionIsSeq
  <2>5. /\ OfOne(i, d) \in Seq(S)
        /\ ToSet(OfOne(i, d)) = UNION {ToSet(PairsOf(i, d)[j]) : j \in 1 .. n}
    <3> DEFINE seqs == PairsOf(i, d)
    <3> HIDE DEF seqs
    <3>1. seqs \in Seq(Seq(S)) /\ DOMAIN seqs = 1 .. n
      BY <2>4 DEF seqs
    <3>2. FlattenSeq(seqs) \in Seq(S)
          /\ ToSet(FlattenSeq(seqs)) = UNION {ToSet(seqs[j]) : j \in DOMAIN seqs}
      BY <3>1, Flattened
    <3> QED BY <3>1, <3>2, Zenon DEF seqs
  <2>6. \A j \in 1 .. n : PairsOf(i, d)[j] = OfPair(i, d, j)
    BY <1>1
  <2> HIDE DEF OfOne, PairsOf
  <2> QED BY <2>2, <2>5, <2>6
<1> HIDE DEF OfOne
<1>4. ASSUME NEW i \in 1 .. n
      PROVE  /\ OfHook(i) \in Seq(S)
             /\ \A p : p \in ToSet(OfHook(i)) <=> \E d, j : Wants(q, i, d, j) /\ p = PairOf(i, d, j)
  <2> DEFINE T == ToSet(Of(i))
             m == Len(Of(i))
  <2>1. Of(i) \in Seq(T)
    BY <1>1, HooksAssumption, Zenon
  <2>2. m \in Nat /\ DOMAIN Of(i) = 1 .. m
    BY <2>1, LenProperties, Zenon
  <2>3. OnesOf(i) \in [1 .. m -> Seq(S)]
    BY <1>3, <2>2
  <2>4. OnesOf(i) \in Seq(Seq(S)) /\ DOMAIN OnesOf(i) = 1 .. m
    BY <2>2, <2>3, FunctionIsSeq
  <2>5. /\ OfHook(i) \in Seq(S)
        /\ ToSet(OfHook(i)) = UNION {ToSet(OnesOf(i)[k]) : k \in 1 .. m}
    <3> DEFINE seqs == OnesOf(i)
    <3> HIDE DEF seqs, S
    <3>1. seqs \in Seq(Seq(S)) /\ DOMAIN seqs = 1 .. m
      BY <2>4 DEF seqs
    <3>2. FlattenSeq(seqs) \in Seq(S)
          /\ ToSet(FlattenSeq(seqs)) = UNION {ToSet(seqs[j]) : j \in DOMAIN seqs}
      BY <3>1, Flattened
    <3> QED BY <3>1, <3>2, Zenon DEF seqs
  <2>6. \A k \in 1 .. m : OnesOf(i)[k] = OfOne(i, Of(i)[k])
    BY <2>2
  <2>7. \A d : d \in T <=> \E k \in 1 .. m : d = Of(i)[k]
    BY <2>2 DEF ToSet
  <2> HIDE DEF OfHook, OnesOf, m, S
  <2>8. ASSUME NEW p
        PROVE  p \in ToSet(OfHook(i)) <=> \E d \in T : p \in ToSet(OfOne(i, d))
    BY <2>5, <2>6, <2>7
  <2>9. ASSUME NEW p
        PROVE  p \in ToSet(OfHook(i)) <=> \E d, j : Wants(q, i, d, j) /\ p = PairOf(i, d, j)
    <3>1. \A d, j : Wants(q, i, d, j) <=> d \in T /\ j \in 1 .. n /\ q[j].function \in d.matches
      BY DEF Wants
    <3>2. \A d : p \in ToSet(OfOne(i, d)) <=>
                   \E j \in 1 .. n : q[j].function \in d.matches /\ p = PairOf(i, d, j)
      <4> HIDE DEF n, Of, OfPair
      <4> QED BY <1>3
    <3> HIDE DEF T, n
    <3> QED BY <2>8, <3>1, <3>2, Zenon
  <2> QED BY <2>5, <2>9
<1> HIDE DEF OfHook, S
<1>5. HooksOf \in [1 .. n -> Seq(S)]
  BY <1>1, <1>4
<1>6. HooksOf \in Seq(Seq(S)) /\ DOMAIN HooksOf = 1 .. n
  BY <1>1, <1>5, FunctionIsSeq
<1>7. \A i \in 1 .. n : HooksOf[i] = OfHook(i)
  BY <1>1
<1> HIDE DEF HooksOf
<1>8. /\ DependencyArray(q) \in Seq(S)
      /\ ToSet(DependencyArray(q)) = UNION {ToSet(HooksOf[i]) : i \in 1 .. n}
  BY <1>2, <1>6, Flattened
<1>9. \A p : p \in ToSet(DependencyArray(q)) <=> \E i \in 1 .. n : p \in ToSet(OfHook(i))
  BY <1>7, <1>8
<1>10. \A p : p \in ToSet(DependencyArray(q)) <=>
                \E i, d, j : Wants(q, i, d, j) /\ p = PairOf(i, d, j)
  BY <1>4, <1>9 DEF Wants
<1> QED BY <1>8, <1>10 DEF S

(* The hooks of a list are in order. *)
Kept(q) == InOrder([i \in DOMAIN q |-> q[i].function])

LEMMA KeptMeans ==
  ASSUME NEW q \in Seq(Hook)
  PROVE  Kept(q) <=> \A i, d, j : Wants(q, i, d, j) =>
                       IF d.direction = "after" THEN j < i ELSE i < j
<1>1. DOMAIN q = 1 .. Len(q)
  BY LenProperties
<1> DEFINE fs == [i \in DOMAIN q |-> q[i].function]
<1>2. DOMAIN fs = 1 .. Len(q) /\ \A i \in 1 .. Len(q) : fs[i] = q[i].function
  BY <1>1
<1> HIDE DEF fs
<1>3. InOrder(fs) <=> \A i, d, j : Wants(q, i, d, j) =>
                       IF d.direction = "after" THEN j < i ELSE i < j
  <2> DEFINE Right(i, d, j) == IF d.direction = "after" THEN j < i ELSE i < j
  <2>1. \A i, d, j : Wants(q, i, d, j) <=>
          /\ i \in DOMAIN fs /\ j \in DOMAIN fs
          /\ d \in ToSet(DependenciesOf[fs[i]]) /\ fs[j] \in d.matches
    BY <1>2 DEF Wants
  <2>2. InOrder(fs) <=>
          \A i, j \in DOMAIN fs : \A d \in ToSet(DependenciesOf[fs[i]]) :
            fs[j] \in d.matches => Right(i, d, j)
    BY Zenon DEF InOrder
  <2> HIDE DEF Right
  <2>3. InOrder(fs) <=> \A i, d, j : Wants(q, i, d, j) => Right(i, d, j)
    BY <2>1, <2>2, Zenon
  <2> QED BY <2>3 DEF Right
<1> QED BY <1>3 DEF Kept, fs

(* resolveDependencies loses no hook and hooks none twice; unless it stops, all
   are where they want to be, and it does not stop if they can be. *)
LEMMA ResolvedList ==
  ASSUME NEW q \in Seq(Hook)
  PROVE  LET r == Resolved(q)
         IN  /\ r.hooks \in Seq(Hook) /\ Len(r.hooks) = Len(q) /\ r.error \in BOOLEAN
             /\ ToSet(r.hooks) = ToSet(q)
             /\ IsInjective(q) => IsInjective(r.hooks)
             /\ r.error \/ Kept(r.hooks)
             /\ Satisfiable => ~ r.error
<1> DEFINE n == Len(q)
           D == DependencyArray(q)
           sorted == SortTopological(n, D)
           order == sorted.order
           h == [i \in DOMAIN q |-> q[order[i]]]
<1>1. n \in Nat /\ DOMAIN q = 1 .. n /\ \A i \in 1 .. n : q[i] \in Hook
  BY LenProperties, ElementOfSeq
<1>2. /\ D \in Seq(Pairs(n))
      /\ \A i, d, j : Wants(q, i, d, j) => PairOf(i, d, j) \in ToSet(D)
      /\ \A p \in ToSet(D) : \E i, d, j : Wants(q, i, d, j) /\ p = PairOf(i, d, j)
  BY ArrayOfDependencies
<1>3. DOMAIN D = 1 .. Len(D)
  BY <1>2, LenProperties
<1> HIDE DEF D
<1>4. /\ order \in [1 .. n -> 1 .. n] /\ sorted.countOrdered \in 0 .. n
      /\ \A x, y \in 1 .. n : order[x] = order[y] => x = y
      /\ \A x \in 1 .. n : \E p \in 1 .. n : order[p] = x
      /\ \A p \in 1 .. sorted.countOrdered, y \in 1 .. n, i \in 1 .. Len(D) :
           D[i] = <<order[p], order[y]>> => y <= p
  <2> HIDE DEF n
  <2> QED BY <1>1, <1>2, SortIsTopological
<1>5. Satisfiable => sorted.countOrdered = n
  <2> SUFFICES ASSUME Satisfiable PROVE sorted.countOrdered = n
    OBVIOUS
  <2>0. Cardinality(AllFunctions) \in Nat
    BY HooksAssumption, FS_CardinalityType
  <2>1. PICK rank \in [AllFunctions -> 1 .. Cardinality(AllFunctions)] :
          \A f, g \in AllFunctions : \A d \in ToSet(DependenciesOf[f]) :
            g \in d.matches =>
              IF d.direction = "after" THEN rank[g] < rank[f] ELSE rank[f] < rank[g]
    BY Zenon DEF Satisfiable
  <2>2. \A i \in 1 .. n : q[i].function \in AllFunctions
    BY <1>1 DEF Hook
  <2> DEFINE ranks == [i \in 1 .. n |-> rank[q[i].function]]
  <2>3. ranks \in [1 .. n -> Nat]
    BY <2>0, <2>2
  <2>4. ASSUME NEW m \in 1 .. Len(D)
        PROVE  ranks[D[m][2]] < ranks[D[m][1]]
    <3>1. D[m] \in ToSet(D)
      BY <1>3 DEF ToSet
    <3>2. PICK i, d, j : Wants(q, i, d, j) /\ D[m] = PairOf(i, d, j)
      BY <1>2, <3>1
    <3>3. /\ i \in 1 .. n /\ j \in 1 .. n
          /\ d \in ToSet(DependenciesOf[q[i].function]) /\ q[j].function \in d.matches
      BY <3>2 DEF Wants
    <3>4. IF d.direction = "after" THEN rank[q[j].function] < rank[q[i].function]
                                   ELSE rank[q[i].function] < rank[q[j].function]
      BY <2>1, <2>2, <3>3
    <3>5. ranks[i] = rank[q[i].function] /\ ranks[j] = rank[q[j].function]
      BY <3>3
    <3> HIDE DEF ranks, n
    <3>6. CASE d.direction = "after"
      BY <3>2, <3>4, <3>5, <3>6 DEF PairOf
    <3>7. CASE d.direction # "after"
      BY <3>2, <3>4, <3>5, <3>7 DEF PairOf
    <3> QED BY <3>6, <3>7
  <2>5. Ranks(n, D, ranks)
    BY <2>3, <2>4 DEF Ranks
  <2> HIDE DEF ranks, n
  <2> QED BY <1>1, <1>2, <2>5, SortIsComplete
<1> HIDE DEF sorted
<1>6. h \in [1 .. n -> Hook] /\ \A i \in 1 .. n : h[i] = q[order[i]] /\ order[i] \in 1 .. n
  BY <1>1, <1>4
<1>7. h \in Seq(Hook) /\ DOMAIN h = 1 .. n /\ Len(h) = n
  BY <1>1, <1>6, FunctionIsSeq
<1> HIDE DEF h
<1> DEFINE o == order
<1>8. ToSet(h) = ToSet(q)
  <2>1. \A i \in 1 .. n : h[i] = q[o[i]] /\ o[i] \in 1 .. n
    BY <1>6
  <2>2. \A x \in 1 .. n : \E p \in 1 .. n : o[p] = x
    BY <1>4
  <2> HIDE DEF n, o
  <2>3. \A x : x \in ToSet(h) <=> \E i \in 1 .. n : x = h[i]
    BY <1>7 DEF ToSet
  <2>4. \A x : x \in ToSet(q) <=> \E i \in 1 .. n : x = q[i]
    BY <1>1 DEF ToSet
  <2>5. \A x : x \in ToSet(h) <=> x \in ToSet(q)
    <3>1. ASSUME NEW x, x \in ToSet(h) PROVE x \in ToSet(q)
      BY <3>1, <2>1, <2>3, <2>4
    <3>2. ASSUME NEW x, x \in ToSet(q) PROVE x \in ToSet(h)
      <4>1. PICK i \in 1 .. n : x = q[i]
        BY <2>4, <3>2
      <4>2. PICK p \in 1 .. n : o[p] = i
        BY <2>2
      <4>3. x = h[p]
        BY <2>1, <4>1, <4>2
      <4> QED BY <2>3, <4>3
    <3> QED BY <3>1, <3>2
  <2> QED BY <2>5
<1>9. IsInjective(q) => IsInjective(h)
  <2>1. \A i \in 1 .. n : h[i] = q[o[i]] /\ o[i] \in 1 .. n
    BY <1>6
  <2>2. \A x, y \in 1 .. n : o[x] = o[y] => x = y
    BY <1>4
  <2> HIDE DEF n, o
  <2> QED BY <1>1, <1>7, <2>1, <2>2 DEF IsInjective
<1>10. ASSUME ~ (sorted.countOrdered < n)
       PROVE  Kept(h)
  <2>1. sorted.countOrdered = n
    BY <1>1, <1>4, <1>10
  <2>2. ASSUME NEW i, NEW d, NEW j, Wants(h, i, d, j)
        PROVE  IF d.direction = "after" THEN j < i ELSE i < j
    <3>1. /\ i \in 1 .. n /\ j \in 1 .. n
          /\ d \in ToSet(DependenciesOf[h[i].function]) /\ h[j].function \in d.matches
      BY <1>7, <2>2 DEF Wants
    <3>2. Wants(q, order[i], d, order[j])
      BY <1>6, <3>1 DEF Wants
    <3>3. PICK m \in 1 .. Len(D) : D[m] = PairOf(order[i], d, order[j])
      BY <1>2, <1>3, <3>2 DEF ToSet
    <3>4. h[i].function \in AllFunctions
      BY <1>6, <3>1 DEF Hook
    <3>5. h[i].function \notin d.matches
      BY <3>1, <3>4, HooksAssumption
    <3>6. i # j
      BY <3>1, <3>5
    <3>7. CASE d.direction = "after"
      <4>1. j <= i
        BY <1>4, <2>1, <3>1, <3>3, <3>7 DEF PairOf
      <4> QED BY <3>1, <3>6, <3>7, <4>1
    <3>8. CASE d.direction # "after"
      <4>1. i <= j
        BY <1>4, <2>1, <3>1, <3>3, <3>8 DEF PairOf
      <4> QED BY <3>1, <3>6, <3>8, <4>1
    <3> QED BY <3>7, <3>8
  <2> QED BY <1>7, <2>2, KeptMeans
<1>11. Resolved(q) = [hooks |-> h, error |-> sorted.countOrdered < n]
  BY DEF Resolved, h, sorted, D
<1>12. Satisfiable => ~ (sorted.countOrdered < n)
  BY <1>1, <1>5
<1> DEFINE r == Resolved(q)
<1>13. r.hooks = h /\ r.error = (sorted.countOrdered < n)
  BY <1>11
<1> HIDE DEF r
<1>14. r.error \in BOOLEAN
  <2>1. \A a, b : (a < b) \in BOOLEAN
    OBVIOUS
  <2> QED BY <1>13, <2>1, Zenon
<1>15. r.error \/ Kept(r.hooks)
  BY <1>10, <1>13, Zenon
<1>16. Satisfiable => ~ r.error
  BY <1>12, <1>13, Zenon
<1>17. /\ r.hooks \in Seq(Hook) /\ Len(r.hooks) = Len(q)
       /\ ToSet(r.hooks) = ToSet(q)
       /\ IsInjective(q) => IsInjective(r.hooks)
  BY <1>7, <1>8, <1>9, <1>13, Zenon
<1> QED BY <1>14, <1>15, <1>16, <1>17, Zenon DEF r

-----------------------------------------------------------------------------
(* The event. *)

(* Who changes the list is alone with it, who reads it has the read lock. *)
LockInv ==
  /\ writer # Nobody => readers = {}
  /\ \A t \in Threads :
       /\ pc[t] \in {"attach", "detach"} => writer = t
       /\ pc[t] \in {"asked", "walking"} => t \in readers

(* What a thread is about is new when it hooks it and hooked when it takes it out. *)
AboutInv ==
  \A t \in Threads :
    /\ pc[t] = "attach" =>
         \E f \in Functions : about[t] = HookOf(t, f) /\ status[t][f] = "new"
    /\ pc[t] = "asked" => \E f \in Functions : about[t] = HookOf(t, f)
    /\ pc[t] \in {"remove", "detach"} =>
         \E f \in Functions : about[t] = HookOf(t, f) /\ status[t][f] = "hooked"

(* Each hook is in the list once. *)
ListInv ==
  /\ count = Len(hooks)
  /\ IsInjective(hooks)
  /\ \A h \in Hook : h.level = 1 =>
       (h \in ToSet(hooks) <=> \E t \in Threads, f \in Functions :
                                 h = HookOf(t, f) /\ status[t][f] = "hooked")

(* The program goes on only with a list in order. *)
OrderInv == (error \/ Kept(hooks)) /\ (Satisfiable => ~ error)

(* A thread at place p of the list has called what is active up to there. *)
WalkedTo(t, p) ==
  /\ current[t] = HookAt(p)
  /\ \A x \in DOMAIN called[t] :
       FunctionActive(t, called[t][x]) /\ \E i \in 1 .. p - 1 : hooks[i] = called[t][x]
  /\ \A i \in 1 .. p - 1 : FunctionActive(t, hooks[i]) => hooks[i] \in ToSet(called[t])
  /\ \A x, y \in DOMAIN called[t] : \A i, j \in 1 .. p - 1 :
       x < y /\ hooks[i] = called[t][x] /\ hooks[j] = called[t][y] => i < j

WalkInv ==
  \A t \in Threads :
    IF pc[t] = "walking" THEN \E p \in 1 .. Len(hooks) + 1 : WalkedTo(t, p)
                         ELSE called[t] = <<>>

IInv == TypeOK /\ LockInv /\ AboutInv /\ ListInv /\ OrderInv /\ WalkInv

LEMMA Basics ==
  /\ N \in Nat \ {0} /\ Threads = 0 .. N - 1 /\ Nobody \notin Threads /\ 0 \in Threads
  /\ NoHook \notin Hook
  /\ \A t \in Threads, f \in Functions :
       /\ HookOf(t, f) \in Hook
       /\ HookOf(t, f).level = 1 /\ HookOf(t, f).function = f /\ HookOf(t, f).thread = t
  /\ \A t, u, f, g : HookOf(t, f) = HookOf(u, g) => t = u /\ f = g
<1>1. /\ N \in Nat \ {0} /\ Threads = 0 .. N - 1 /\ Nobody \notin Threads /\ 0 \in Threads
  BY HooksAssumption DEF Threads, Nobody
<1>2. NoHook \notin Hook
  BY HooksAssumption DEF NoHook, Hook
<1>3. \A t \in Threads, f \in Functions :
        /\ HookOf(t, f) \in Hook
        /\ HookOf(t, f).level = 1 /\ HookOf(t, f).function = f /\ HookOf(t, f).thread = t
  <2>1. 1 \in 0 .. 1
    OBVIOUS
  <2> QED BY <2>1 DEF HookOf, Hook, AllFunctions
<1>4. \A t, u, f, g : HookOf(t, f) = HookOf(u, g) => t = u /\ f = g
  BY DEF HookOf
<1> QED BY <1>1, <1>2, <1>3, <1>4

LEMMA InitInv == Init => IInv
<1> SUFFICES ASSUME Init PROVE IInv
  OBVIOUS
<1> USE Basics
<1> DEFINE l == Len(Outside)
           HookOutside(i) == [function |-> Outside[i], level |-> 0, thread |-> 0]
<1>1. /\ l \in Nat /\ DOMAIN Outside = 1 .. l
      /\ \A i \in 1 .. l : Outside[i] \in ToSet(Outside)
      /\ Outside = [i \in 1 .. l |-> Outside[i]]
  <2>1. Outside \in Seq(ToSet(Outside))
    BY OutsideAssumption
  <2> QED BY <2>1, LenProperties, ElementOfSeq
<1>2. hooks = [i \in 1 .. l |-> HookOutside(i)]
  BY <1>1 DEF Init
<1>3. \A i \in 1 .. l : HookOutside(i) \in Hook /\ HookOutside(i).level = 0
                        /\ HookOutside(i).function = Outside[i]
  BY <1>1 DEF Hook, AllFunctions
<1> HIDE DEF HookOutside
<1>4. hooks \in [1 .. l -> Hook] /\ \A i \in 1 .. l : hooks[i] = HookOutside(i)
  BY <1>2, <1>3
<1>5. hooks \in Seq(Hook) /\ DOMAIN hooks = 1 .. l /\ Len(hooks) = l
  BY <1>1, <1>4, FunctionIsSeq
<1>6. TypeOK
  <2>1. /\ readers = {} /\ writer = Nobody
    BY DEF Init, Lock!Init
  <2>2. called \in [Threads -> Seq(Hook)]
    BY DEF Init
  <2>3. left \in [Threads -> 0 .. Calls]
    BY HooksAssumption DEF Init
  <2> QED BY <1>1, <1>5, <2>1, <2>2, <2>3 DEF Init, TypeOK
<1>7. LockInv
  BY DEF Init, Lock!Init, LockInv
<1>8. AboutInv
  BY DEF Init, AboutInv
<1>9. ListInv
  <2>1. count = Len(hooks)
    BY <1>5 DEF Init
  <2>2. IsInjective(hooks)
    <3>1. IsInjective(Outside)
      BY OutsideAssumption
    <3> QED BY <1>1, <1>3, <1>4, <1>5, <3>1 DEF IsInjective
  <2>3. ASSUME NEW h \in Hook, h.level = 1
        PROVE  h \notin ToSet(hooks)
    BY <1>3, <1>4, <1>5, <2>3 DEF ToSet
  <2>4. \A t \in Threads, f \in Functions : status[t][f] = "new"
    BY DEF Init
  <2> QED BY <2>1, <2>2, <2>3, <2>4 DEF ListInv
<1>10. OrderInv
  <2> DEFINE fs == [i \in DOMAIN hooks |-> hooks[i].function]
  <2>1. fs = Outside
    BY <1>1, <1>3, <1>4, <1>5
  <2>2. InOrder(Outside)
    BY OutsideAssumption
  <2>3. Kept(hooks)
    BY <2>1, <2>2, Zenon DEF Kept
  <2> QED BY <2>3 DEF OrderInv, Init
<1>11. WalkInv
  BY DEF WalkInv, Init
<1> QED BY <1>6, <1>7, <1>8, <1>9, <1>10, <1>11 DEF IInv

(* What does not move a walking thread, and leaves the list, leaves its walk. *)
LEMMA WalkFrame ==
  ASSUME WalkInv, UNCHANGED <<hooks, current, called>>,
         \A t \in Threads : pc'[t] = "walking" <=> pc[t] = "walking"
  PROVE  WalkInv'
<1>1. \A t, p : WalkedTo(t, p)' <=> WalkedTo(t, p)
  BY DEF WalkedTo, HookAt, FunctionActive
<1> QED BY <1>1 DEF WalkInv

LEMMA ListFrame ==
  ASSUME ListInv, OrderInv, UNCHANGED <<list, status>>
  PROVE  ListInv' /\ OrderInv'
<1>1. hooks' = hooks /\ count' = count /\ error' = error /\ status' = status
  BY DEF list
<1>2. Kept(hooks)' <=> Kept(hooks)
  BY <1>1, Zenon DEF Kept, InOrder
<1> QED BY <1>1, <1>2 DEF ListInv, OrderInv

PCs == {"idle", "attach", "asked", "remove", "detach", "walking"}

LEMMA Moved ==
  ASSUME TypeOK, NEW t \in Threads, NEW from, NEW to \in PCs, Goto(t, from, to)
  PROVE  /\ pc' \in [Threads -> PCs] /\ pc[t] = from /\ pc'[t] = to
         /\ \A u \in Threads : u # t => pc'[u] = pc[u]
BY DEF TypeOK, Goto, PCs

(* The lock, as its readers and writer take it and give it back. *)
LEMMA Seized ==
  ASSUME TypeOK, LockInv, NEW t \in Threads, Lock!Seize(t),
         \A u \in Threads : u # t => pc'[u] = pc[u], pc'[t] \notin {"asked", "walking"}
  PROVE  LockInv' /\ readers' \subseteq Threads /\ writer' \in Threads \cup {Nobody}
BY Basics DEF TypeOK, LockInv, Lock!Seize

LEMMA Yielded ==
  ASSUME TypeOK, LockInv, NEW t \in Threads, Lock!Yield(t),
         \A u \in Threads : u # t => pc'[u] = pc[u], pc'[t] = "idle"
  PROVE  LockInv' /\ readers' \subseteq Threads /\ writer' \in Threads \cup {Nobody}
BY Basics DEF TypeOK, LockInv, Lock!Yield

LEMMA Entered ==
  ASSUME TypeOK, LockInv, NEW t \in Threads, Lock!Enter(t),
         \A u \in Threads : u # t => pc'[u] = pc[u], pc'[t] \in {"asked", "walking"}
  PROVE  LockInv' /\ readers' \subseteq Threads /\ writer' \in Threads \cup {Nobody}
BY Basics DEF TypeOK, LockInv, Lock!Enter

LEMMA Left ==
  ASSUME TypeOK, LockInv, NEW t \in Threads, Lock!Leave(t),
         \A u \in Threads : u # t => pc'[u] = pc[u], pc'[t] \in {"idle", "remove"}
  PROVE  LockInv' /\ readers' \subseteq Threads /\ writer' \in Threads \cup {Nobody}
BY Basics DEF TypeOK, LockInv, Lock!Leave

(* What others are about stays. *)
LEMMA AboutFrame ==
  ASSUME AboutInv, NEW t \in Threads,
         \A u \in Threads : u # t =>
           pc'[u] = pc[u] /\ about'[u] = about[u] /\ status'[u] = status[u],
         pc'[t] = "attach" =>
           \E f \in Functions : about'[t] = HookOf(t, f) /\ status'[t][f] = "new",
         pc'[t] = "asked" => \E f \in Functions : about'[t] = HookOf(t, f),
         pc'[t] \in {"remove", "detach"} =>
           \E f \in Functions : about'[t] = HookOf(t, f) /\ status'[t][f] = "hooked"
  PROVE  AboutInv'
<1> SUFFICES ASSUME NEW u \in Threads
             PROVE  /\ pc'[u] = "attach" =>
                         \E f \in Functions : about'[u] = HookOf(u, f) /\ status'[u][f] = "new"
                    /\ pc'[u] = "asked" => \E f \in Functions : about'[u] = HookOf(u, f)
                    /\ pc'[u] \in {"remove", "detach"} =>
                         \E f \in Functions : about'[u] = HookOf(u, f) /\ status'[u][f] = "hooked"
  BY Zenon DEF AboutInv
<1>1. CASE u = t
  BY <1>1, Zenon
<1>2. CASE u # t
  <2>1. pc'[u] = pc[u] /\ about'[u] = about[u] /\ status'[u] = status[u]
    BY <1>2
  <2>2. /\ pc[u] = "attach" =>
             \E f \in Functions : about[u] = HookOf(u, f) /\ status[u][f] = "new"
        /\ pc[u] = "asked" => \E f \in Functions : about[u] = HookOf(u, f)
        /\ pc[u] \in {"remove", "detach"} =>
             \E f \in Functions : about[u] = HookOf(u, f) /\ status[u][f] = "hooked"
    BY Zenon DEF AboutInv
  <2> QED BY <2>1, <2>2
<1> QED BY <1>1, <1>2

LEMMA StartAttachInv ==
  ASSUME IInv, NEW t \in Threads, NEW f \in Functions, StartAttach(t, f)
  PROVE  IInv'
<1>1. /\ status[t][f] = "new" /\ Goto(t, "idle", "attach") /\ Lock!Seize(t)
      /\ about' = [about EXCEPT ![t] = HookOf(t, f)]
      /\ UNCHANGED <<list, walk, status>>
  BY DEF StartAttach
<1>2. TypeOK /\ LockInv /\ AboutInv /\ ListInv /\ OrderInv /\ WalkInv
  BY DEF IInv
<1>3. /\ pc' \in [Threads -> PCs] /\ pc[t] = "idle" /\ pc'[t] = "attach"
      /\ \A u \in Threads : u # t => pc'[u] = pc[u]
  BY <1>1, <1>2, Moved DEF PCs
<1>4. LockInv' /\ readers' \subseteq Threads /\ writer' \in Threads \cup {Nobody}
  BY <1>1, <1>2, <1>3, Seized
<1>5. about' \in [Threads -> Hook \cup {NoHook}] /\ about'[t] = HookOf(t, f)
      /\ \A u \in Threads : u # t => about'[u] = about[u]
  BY <1>1, <1>2, Basics DEF TypeOK
<1>6. TypeOK'
  BY <1>1, <1>2, <1>3, <1>4, <1>5 DEF TypeOK, list, walk, PCs
<1>7. AboutInv'
  BY <1>1, <1>2, <1>3, <1>5, AboutFrame
<1>8. ListInv' /\ OrderInv'
  BY <1>1, <1>2, ListFrame
<1>9. WalkInv'
  BY <1>1, <1>2, <1>3, WalkFrame DEF list, walk
<1> QED BY <1>4, <1>6, <1>7, <1>8, <1>9 DEF IInv

LEMMA AskAttachedInv ==
  ASSUME IInv, NEW t \in Threads, NEW f \in Functions, AskAttached(t, f)
  PROVE  IInv'
<1>1. /\ Goto(t, "idle", "asked") /\ Lock!Enter(t)
      /\ about' = [about EXCEPT ![t] = HookOf(t, f)]
      /\ UNCHANGED <<list, current, called, status>>
  BY DEF AskAttached
<1>2. TypeOK /\ LockInv /\ AboutInv /\ ListInv /\ OrderInv /\ WalkInv
  BY DEF IInv
<1>10. left' \in [Threads -> 0 .. Calls]
  <2>1. left \in [Threads -> 0 .. Calls] /\ Calls \in Nat
    BY <1>2, HooksAssumption DEF TypeOK
  <2>2. CASE status[t][f] = "hooked"
    BY <2>1, <2>2 DEF AskAttached
  <2>3. CASE status[t][f] # "hooked"
    <3>1. left[t] > 0 /\ left' = [left EXCEPT ![t] = @ - 1]
      BY <2>3 DEF AskAttached
    <3> QED BY <2>1, <3>1
  <2> QED BY <2>2, <2>3
<1>3. /\ pc' \in [Threads -> PCs] /\ pc[t] = "idle" /\ pc'[t] = "asked"
      /\ \A u \in Threads : u # t => pc'[u] = pc[u]
  BY <1>1, <1>2, Moved DEF PCs
<1>4. LockInv' /\ readers' \subseteq Threads /\ writer' \in Threads \cup {Nobody}
  BY <1>1, <1>2, <1>3, Entered
<1>5. about' \in [Threads -> Hook \cup {NoHook}] /\ about'[t] = HookOf(t, f)
      /\ \A u \in Threads : u # t => about'[u] = about[u]
  BY <1>1, <1>2, Basics DEF TypeOK
<1>6. TypeOK'
  BY <1>1, <1>2, <1>3, <1>4, <1>5, <1>10 DEF TypeOK, list, PCs
<1>7. AboutInv'
  BY <1>1, <1>2, <1>3, <1>5, AboutFrame
<1>8. ListInv' /\ OrderInv'
  BY <1>1, <1>2, ListFrame
<1>9. WalkInv'
  BY <1>1, <1>2, <1>3, WalkFrame DEF list
<1> QED BY <1>4, <1>6, <1>7, <1>8, <1>9 DEF IInv

LEMMA IsAttachedInv ==
  ASSUME IInv, NEW t \in Threads, IsAttached(t)
  PROVE  IInv'
<1>1. /\ Lock!Leave(t) /\ UNCHANGED <<list, walk, status>>
      /\ \/ about[t] \in ToSet(hooks) /\ Goto(t, "asked", "remove") /\ UNCHANGED about
         \/ Goto(t, "asked", "idle") /\ Forget(t)
  BY DEF IsAttached
<1>2. TypeOK /\ LockInv /\ AboutInv /\ ListInv /\ OrderInv /\ WalkInv
  BY DEF IInv
<1>3. /\ pc' \in [Threads -> PCs] /\ pc[t] = "asked" /\ pc'[t] \in {"remove", "idle"}
      /\ \A u \in Threads : u # t => pc'[u] = pc[u]
  <2>1. "remove" \in PCs /\ "idle" \in PCs
    BY DEF PCs
  <2> QED BY <1>1, <1>2, <2>1, Moved
<1>4. LockInv' /\ readers' \subseteq Threads /\ writer' \in Threads \cup {Nobody}
  BY <1>1, <1>2, <1>3, Left
<1>5. about' \in [Threads -> Hook \cup {NoHook}]
      /\ \A u \in Threads : u # t => about'[u] = about[u]
  BY <1>1, <1>2 DEF TypeOK, Forget
<1>6. TypeOK'
  BY <1>1, <1>2, <1>3, <1>4, <1>5 DEF TypeOK, list, walk, PCs
<1>7. AboutInv'
  <2>1. pc'[t] = "remove" =>
          \E f \in Functions : about'[t] = HookOf(t, f) /\ status'[t][f] = "hooked"
    <3>1. SUFFICES ASSUME pc'[t] = "remove"
                   PROVE  \E f \in Functions : about'[t] = HookOf(t, f) /\ status'[t][f] = "hooked"
      OBVIOUS
    <3>2. about[t] \in ToSet(hooks) /\ about' = about /\ status' = status
      BY <1>1, <1>2, <3>1 DEF Goto, TypeOK
    <3>3. PICK f \in Functions : about[t] = HookOf(t, f)
      BY <1>2, <1>3 DEF AboutInv
    <3>4. PICK u \in Threads, g \in Functions : about[t] = HookOf(u, g) /\ status[u][g] = "hooked"
      BY <1>2, <3>2, <3>3, Basics DEF ListInv
    <3>5. u = t
      <4>1. HookOf(u, g) = HookOf(t, f)
        BY <3>3, <3>4, Zenon
      <4>2. \A a, b, c, d : HookOf(a, c) = HookOf(b, d) => a = b /\ c = d
        BY Basics
      <4> QED BY <4>1, <4>2, Zenon
    <3> QED BY <3>2, <3>4, <3>5
  <2>2. \A u \in Threads : u # t =>
          pc'[u] = pc[u] /\ about'[u] = about[u] /\ status'[u] = status[u]
    BY <1>1, <1>3, <1>5
  <2> QED BY <1>2, <1>3, <2>1, <2>2, AboutFrame
<1>8. ListInv' /\ OrderInv'
  BY <1>1, <1>2, ListFrame
<1>9. WalkInv'
  BY <1>1, <1>2, <1>3, WalkFrame DEF list, walk
<1> QED BY <1>4, <1>6, <1>7, <1>8, <1>9 DEF IInv

LEMMA StartDetachInv ==
  ASSUME IInv, NEW t \in Threads, NEW f \in Functions, StartDetach(t, f)
  PROVE  IInv'
<1>1. /\ \/ status[t][f] = "hooked" /\ Goto(t, "idle", "detach")
         \/ about[t] = HookOf(t, f) /\ Goto(t, "remove", "detach")
      /\ Lock!Seize(t)
      /\ about' = [about EXCEPT ![t] = HookOf(t, f)]
      /\ UNCHANGED <<list, walk, status>>
  BY DEF StartDetach
<1>2. TypeOK /\ LockInv /\ AboutInv /\ ListInv /\ OrderInv /\ WalkInv
  BY DEF IInv
<1>3. /\ pc' \in [Threads -> PCs] /\ pc[t] \in {"idle", "remove"} /\ pc'[t] = "detach"
      /\ \A u \in Threads : u # t => pc'[u] = pc[u]
  BY <1>1, <1>2, Moved DEF PCs
<1>4. status[t][f] = "hooked"
  <2>1. CASE about[t] = HookOf(t, f) /\ Goto(t, "remove", "detach")
    <3>1. pc[t] = "remove"
      BY <2>1 DEF Goto
    <3>2. PICK g \in Functions : about[t] = HookOf(t, g) /\ status[t][g] = "hooked"
      BY <1>2, <3>1 DEF AboutInv
    <3>3. HookOf(t, f) = HookOf(t, g)
      BY <2>1, <3>2
    <3>4. f = g
      BY <3>3 DEF HookOf
    <3> QED BY <3>2, <3>4
  <2> QED BY <1>1, <2>1
<1>5. LockInv' /\ readers' \subseteq Threads /\ writer' \in Threads \cup {Nobody}
  BY <1>1, <1>2, <1>3, Seized
<1>6. about' \in [Threads -> Hook \cup {NoHook}] /\ about'[t] = HookOf(t, f)
      /\ \A u \in Threads : u # t => about'[u] = about[u]
  BY <1>1, <1>2, Basics DEF TypeOK
<1>7. TypeOK'
  BY <1>1, <1>2, <1>3, <1>5, <1>6 DEF TypeOK, list, walk, PCs
<1>8. AboutInv'
  BY <1>1, <1>2, <1>3, <1>4, <1>6, AboutFrame
<1>9. ListInv' /\ OrderInv'
  BY <1>1, <1>2, ListFrame
<1>10. WalkInv'
  BY <1>1, <1>2, <1>3, WalkFrame DEF list, walk
<1> QED BY <1>5, <1>7, <1>8, <1>9, <1>10 DEF IInv

(* While a thread changes the list nobody walks it. *)
LEMMA NobodyWalks ==
  ASSUME IInv, NEW t \in Threads, pc[t] \in {"attach", "detach"}
  PROVE  \A u \in Threads : pc[u] # "walking" /\ called[u] = <<>>
<1>1. readers = {}
  BY Basics DEF IInv, LockInv
<1>2. \A u \in Threads : pc[u] # "walking"
  BY <1>1 DEF IInv, LockInv
<1> QED BY <1>2 DEF IInv, WalkInv

(* A list to which a hook is added. *)
LEMMA Appended ==
  ASSUME NEW q \in Seq(Hook), NEW h \in Hook
  PROVE  /\ Append(q, h) \in Seq(Hook) /\ Len(Append(q, h)) = Len(q) + 1
         /\ ToSet(Append(q, h)) = ToSet(q) \cup {h}
         /\ IsInjective(q) /\ h \notin ToSet(q) => IsInjective(Append(q, h))
<1> DEFINE n == Len(q)
           r == Append(q, h)
<1>1. n \in Nat /\ DOMAIN q = 1 .. n
  BY LenProperties
<1>2. /\ r \in Seq(Hook) /\ Len(r) = n + 1
      /\ \A i \in 1 .. n : r[i] = q[i]
      /\ r[n + 1] = h
  BY AppendProperties
<1>3. DOMAIN r = 1 .. n + 1
  BY <1>2, LenProperties
<1> HIDE DEF r, n
<1>4. \A x : x \in ToSet(r) <=> x \in ToSet(q) \/ x = h
  <2>1. \A x : x \in ToSet(r) <=> \E i \in 1 .. n + 1 : x = r[i]
    BY <1>3 DEF ToSet
  <2>2. \A x : x \in ToSet(q) <=> \E i \in 1 .. n : x = q[i]
    BY <1>1 DEF ToSet
  <2>3. \A i : i \in 1 .. n + 1 <=> i \in 1 .. n \/ i = n + 1
    BY <1>1
  <2> QED BY <1>2, <2>1, <2>2, <2>3
<1>5. IsInjective(q) /\ h \notin ToSet(q) => IsInjective(r)
  <2> SUFFICES ASSUME IsInjective(q), h \notin ToSet(q),
                      NEW x \in 1 .. n + 1, NEW y \in 1 .. n + 1, r[x] = r[y]
               PROVE  x = y
    BY <1>3 DEF IsInjective
  <2>1. \A i \in 1 .. n : q[i] # h
    BY <1>1 DEF ToSet
  <2>2. \A i, j \in 1 .. n : q[i] = q[j] => i = j
    BY <1>1 DEF IsInjective
  <2>3. x \in 1 .. n \/ x = n + 1
    BY <1>1
  <2>4. y \in 1 .. n \/ y = n + 1
    BY <1>1
  <2> QED BY <1>2, <2>1, <2>2, <2>3, <2>4
<1> QED BY <1>2, <1>4, <1>5 DEF r, n

LEMMA AttachInv ==
  ASSUME IInv, NEW t \in Threads, Attach(t)
  PROVE  IInv'
<1> DEFINE q == Append(hooks, about[t])
           resolved == Resolved(q)
<1>1. /\ Goto(t, "attach", "idle") /\ Lock!Yield(t)
      /\ hooks' = resolved.hooks /\ count' = count + 1 /\ error' = resolved.error
      /\ status' = [status EXCEPT ![t][about[t].function] = "hooked"]
      /\ Forget(t) /\ UNCHANGED walk
  BY DEF Attach
<1>2. TypeOK /\ LockInv /\ AboutInv /\ ListInv /\ OrderInv /\ WalkInv
  BY DEF IInv
<1>3. /\ pc' \in [Threads -> PCs] /\ pc[t] = "attach" /\ pc'[t] = "idle"
      /\ \A u \in Threads : u # t => pc'[u] = pc[u]
  BY <1>1, <1>2, Moved DEF PCs
<1>4. PICK f \in Functions : about[t] = HookOf(t, f) /\ status[t][f] = "new"
  BY <1>2, <1>3 DEF AboutInv
<1> DEFINE h == HookOf(t, f)
<1>5. h \in Hook /\ h.level = 1 /\ h.function = f
  BY Basics
<1>6. /\ status \in [Threads -> [Functions -> {"new", "hooked", "gone"}]]
      /\ hooks \in Seq(Hook)
  BY <1>2 DEF TypeOK
<1>7. status' = [status EXCEPT ![t][f] = "hooked"]
  <2>1. about[t].function = f
    BY <1>4, <1>5
  <2> QED BY <1>1, <2>1
<1>8. /\ status' \in [Threads -> [Functions -> {"new", "hooked", "gone"}]]
      /\ status'[t][f] = "hooked"
      /\ \A u \in Threads, g \in Functions :
           u # t \/ g # f => status'[u][g] = status[u][g]
      /\ \A u \in Threads : u # t => status'[u] = status[u]
  BY <1>6, <1>7
<1>9. h \notin ToSet(hooks)
  <2> SUFFICES ASSUME h \in ToSet(hooks) PROVE FALSE
    OBVIOUS
  <2>1. PICK u \in Threads, g \in Functions : h = HookOf(u, g) /\ status[u][g] = "hooked"
    BY <1>2, <1>5 DEF ListInv
  <2>2. u = t /\ g = f
    BY <2>1 DEF HookOf
  <2> QED BY <1>4, <2>1, <2>2
<1>10. q = Append(hooks, h)
  BY <1>4
<1> HIDE DEF q, h
<1>11. /\ q \in Seq(Hook) /\ Len(q) = Len(hooks) + 1
       /\ ToSet(q) = ToSet(hooks) \cup {h}
       /\ IsInjective(q)
  BY <1>2, <1>5, <1>6, <1>9, <1>10, Appended DEF ListInv
<1>12. /\ hooks' \in Seq(Hook) /\ Len(hooks') = Len(q) /\ error' \in BOOLEAN
       /\ ToSet(hooks') = ToSet(q) /\ IsInjective(hooks')
       /\ error' \/ Kept(hooks')
       /\ Satisfiable => ~ error'
  <2> DEFINE r == Resolved(q)
  <2>1. /\ r.hooks \in Seq(Hook) /\ Len(r.hooks) = Len(q) /\ r.error \in BOOLEAN
        /\ ToSet(r.hooks) = ToSet(q)
        /\ IsInjective(q) => IsInjective(r.hooks)
        /\ r.error \/ Kept(r.hooks)
        /\ Satisfiable => ~ r.error
    BY <1>11, ResolvedList
  <2>2. hooks' = r.hooks /\ error' = r.error
    BY <1>1
  <2> HIDE DEF r
  <2> QED BY <1>11, <2>1, <2>2, Zenon
<1>13. LockInv' /\ readers' \subseteq Threads /\ writer' \in Threads \cup {Nobody}
  BY <1>1, <1>2, <1>3, Yielded
<1>14. /\ about' \in [Threads -> Hook \cup {NoHook}]
       /\ \A u \in Threads : u # t => about'[u] = about[u]
  BY <1>1, <1>2 DEF TypeOK, Forget
<1>15. count' \in Nat
  BY <1>1, <1>2 DEF TypeOK
<1>16. TypeOK'
  BY <1>1, <1>2, <1>3, <1>8, <1>12, <1>13, <1>14, <1>15 DEF TypeOK, walk, PCs
<1>17. AboutInv'
  BY <1>2, <1>3, <1>8, <1>14, AboutFrame
<1>18. ListInv'
  <2>1. count' = Len(hooks')
    BY <1>1, <1>2, <1>11, <1>12 DEF ListInv
  <2>2. ASSUME NEW x \in Hook, x.level = 1
        PROVE  x \in ToSet(hooks') <=> \E u \in Threads, g \in Functions :
                                         x = HookOf(u, g) /\ status'[u][g] = "hooked"
    <3>1. x \in ToSet(hooks') <=> x \in ToSet(hooks) \/ x = h
      BY <1>11, <1>12
    <3>2. x \in ToSet(hooks) <=> \E u \in Threads, g \in Functions :
                                   x = HookOf(u, g) /\ status[u][g] = "hooked"
      BY <1>2, <2>2 DEF ListInv
    <3>3. CASE x = h
      BY <1>8, <3>1, <3>3 DEF h
    <3>4. CASE x # h
      <4>1. \A u \in Threads, g \in Functions : x = HookOf(u, g) => status'[u][g] = status[u][g]
        BY <1>8, <3>4 DEF h
      <4> QED BY <3>1, <3>2, <3>4, <4>1
    <3> QED BY <3>3, <3>4
  <2> QED BY <1>12, <2>1, <2>2, Zenon DEF ListInv
<1>19. OrderInv'
  BY <1>12, Zenon DEF OrderInv, Kept, InOrder
<1>20. WalkInv'
  <2>1. \A u \in Threads : pc[u] # "walking" /\ called[u] = <<>>
    BY <1>3, NobodyWalks
  <2>2. \A u \in Threads : pc'[u] # "walking" /\ called'[u] = <<>>
    BY <1>1, <1>3, <2>1 DEF walk
  <2> QED BY <2>2, Zenon DEF WalkInv
<1> QED BY <1>13, <1>16, <1>17, <1>18, <1>19, <1>20 DEF IInv

(* A list from which the hook at i is taken. *)
LEMMA Removed ==
  ASSUME NEW q \in Seq(Hook), NEW i \in 1 .. Len(q), IsInjective(q)
  PROVE  LET r == RemoveAt(q, i)
         IN  /\ r \in Seq(Hook) /\ Len(r) = Len(q) - 1
             /\ ToSet(r) = ToSet(q) \ {q[i]}
             /\ IsInjective(r)
             /\ Kept(q) => Kept(r)
<1> DEFINE n == Len(q)
           r == RemoveAt(q, i)
           Old(x) == IF x < i THEN x ELSE x + 1
           before == SubSeq(q, 1, i - 1)
           behind == SubSeq(q, i + 1, n)
<1>1. n \in Nat /\ DOMAIN q = 1 .. n /\ \A x \in 1 .. n : q[x] \in Hook
  BY LenProperties, ElementOfSeq
<1>2. /\ before \in Seq(Hook) /\ Len(before) = i - 1
      /\ \A x \in 1 .. i - 1 : before[x] = q[x]
  <2>1. \A x \in 1 .. i - 1 : q[x] \in Hook
    BY <1>1
  <2>2. 1 \in Int /\ i - 1 \in Int
    BY <1>1
  <2>3. /\ SubSeq(q, 1, i - 1) \in Seq(Hook)
        /\ Len(SubSeq(q, 1, i - 1)) = IF 1 <= i - 1 THEN i - 1 - 1 + 1 ELSE 0
        /\ \A x \in 1 .. i - 1 - 1 + 1 : SubSeq(q, 1, i - 1)[x] = q[1 + x - 1]
    BY <2>1, <2>2, SubSeqProperties
  <2> QED BY <1>1, <2>3
<1>3. /\ behind \in Seq(Hook) /\ Len(behind) = n - i
      /\ \A x \in 1 .. n - i : behind[x] = q[i + x]
  <2>1. \A x \in i + 1 .. n : q[x] \in Hook
    BY <1>1
  <2>2. i + 1 \in Int /\ n \in Int
    BY <1>1
  <2>3. /\ SubSeq(q, i + 1, n) \in Seq(Hook)
        /\ Len(SubSeq(q, i + 1, n)) = IF i + 1 <= n THEN n - (i + 1) + 1 ELSE 0
        /\ \A x \in 1 .. n - (i + 1) + 1 : SubSeq(q, i + 1, n)[x] = q[(i + 1) + x - 1]
    <3> HIDE DEF n
    <3> QED BY <2>1, <2>2, SubSeqProperties
  <2>4. ASSUME NEW x \in 1 .. n - i PROVE behind[x] = q[i + x]
    <3>1. x \in 1 .. n - (i + 1) + 1 /\ (i + 1) + x - 1 = i + x
      BY <1>1
    <3> QED BY <2>3, <3>1
  <2>5. Len(behind) = n - i
    <3>1. n \in Nat /\ i \in 1 .. n
      BY <1>1
    <3>2. Len(behind) = IF i + 1 <= n THEN n - (i + 1) + 1 ELSE 0
      BY <2>3
    <3> HIDE DEF n, behind
    <3> QED BY <3>1, <3>2
  <2> QED BY <2>3, <2>4, <2>5
<1>4. r = before \o behind
  BY DEF RemoveAt
<1> HIDE DEF before, behind, r
<1>5. /\ r \in Seq(Hook) /\ Len(r) = n - 1
      /\ \A x \in 1 .. n - 1 : r[x] = IF x <= i - 1 THEN before[x] ELSE behind[x - (i - 1)]
  <2>1. /\ before \o behind \in Seq(Hook)
        /\ Len(before \o behind) = Len(before) + Len(behind)
        /\ \A x \in 1 .. Len(before) + Len(behind) :
             (before \o behind)[x] =
               IF x <= Len(before) THEN before[x] ELSE behind[x - Len(before)]
    BY <1>2, <1>3, ConcatProperties
  <2>2. Len(before) + Len(behind) = n - 1 /\ Len(before) = i - 1
    BY <1>1, <1>2, <1>3
  <2> QED BY <1>4, <2>1, <2>2
<1>6. \A x \in 1 .. n - 1 : r[x] = q[Old(x)] /\ Old(x) \in 1 .. n /\ Old(x) # i
  <2> SUFFICES ASSUME NEW x \in 1 .. n - 1
               PROVE  r[x] = q[Old(x)] /\ Old(x) \in 1 .. n /\ Old(x) # i
    OBVIOUS
  <2>1. CASE x < i
    <3>1. x \in 1 .. i - 1 /\ x <= i - 1
      BY <1>1, <2>1
    <3> QED BY <1>1, <1>2, <1>5, <2>1, <3>1
  <2>2. CASE ~ (x < i)
    <3>1. x - (i - 1) \in 1 .. n - i /\ ~ (x <= i - 1) /\ i + (x - (i - 1)) = x + 1
      BY <1>1, <2>2
    <3>2. r[x] = behind[x - (i - 1)]
      BY <1>5, <3>1
    <3>3. behind[x - (i - 1)] = q[i + (x - (i - 1))]
      BY <1>3, <3>1
    <3> QED BY <1>1, <2>2, <3>1, <3>2, <3>3
  <2> QED BY <2>1, <2>2
<1>7. DOMAIN r = 1 .. n - 1
  BY <1>1, <1>5, LenProperties
<1>8. \A x, y \in 1 .. n - 1 : /\ Old(x) < Old(y) => x < y
                               /\ Old(x) = Old(y) => x = y
  BY <1>1
<1>9. \A y \in 1 .. n : y # i => \E x \in 1 .. n - 1 : Old(x) = y
  <2> SUFFICES ASSUME NEW y \in 1 .. n, y # i
               PROVE  \E x \in 1 .. n - 1 : Old(x) = y
    OBVIOUS
  <2>1. CASE y < i
    <3>1. y \in 1 .. n - 1 /\ Old(y) = y
      BY <1>1, <2>1
    <3> QED BY <3>1
  <2>2. CASE ~ (y < i)
    <3>1. y - 1 \in 1 .. n - 1 /\ Old(y - 1) = y
      BY <1>1, <2>2
    <3> QED BY <3>1
  <2> QED BY <2>1, <2>2
<1>10. \A x, y \in 1 .. n : q[x] = q[y] => x = y
  BY <1>1 DEF IsInjective
<1> HIDE DEF Old, n
<1>11. ToSet(r) = ToSet(q) \ {q[i]}
  <2>1. \A h : h \in ToSet(r) <=> \E x \in 1 .. n - 1 : h = r[x]
    BY <1>7 DEF ToSet
  <2>2. \A h : h \in ToSet(q) <=> \E x \in 1 .. n : h = q[x]
    BY <1>1 DEF ToSet
  <2>3. i \in 1 .. n
    BY DEF n
  <2>4. ASSUME NEW h, h \in ToSet(r) PROVE h \in ToSet(q) /\ h # q[i]
    BY <1>6, <1>10, <2>1, <2>2, <2>3, <2>4
  <2>5. ASSUME NEW h, h \in ToSet(q), h # q[i] PROVE h \in ToSet(r)
    <3>1. PICK y \in 1 .. n : h = q[y]
      BY <2>2, <2>5
    <3>2. PICK x \in 1 .. n - 1 : Old(x) = y
      BY <1>9, <2>5, <3>1
    <3> QED BY <1>6, <2>1, <3>1, <3>2
  <2> QED BY <2>4, <2>5
<1>12. IsInjective(r)
  BY <1>6, <1>7, <1>8, <1>10 DEF IsInjective
<1>13. ASSUME Kept(q) PROVE Kept(r)
  <2>1. \A x, d, y : Wants(q, x, d, y) => IF d.direction = "after" THEN y < x ELSE x < y
    BY <1>13, KeptMeans
  <2>2. ASSUME NEW x, NEW d, NEW y, Wants(r, x, d, y)
        PROVE  IF d.direction = "after" THEN y < x ELSE x < y
    <3>1. /\ x \in 1 .. n - 1 /\ y \in 1 .. n - 1
          /\ d \in ToSet(DependenciesOf[r[x].function]) /\ r[y].function \in d.matches
      BY <1>5, <2>2 DEF Wants
    <3>2. Wants(q, Old(x), d, Old(y))
      BY <1>6, <3>1 DEF Wants, n
    <3>3. IF d.direction = "after" THEN Old(y) < Old(x) ELSE Old(x) < Old(y)
      BY <2>1, <3>2
    <3> QED BY <1>8, <3>1, <3>3
  <2> QED BY <1>5, <2>2, KeptMeans
<1> QED BY <1>5, <1>11, <1>12, <1>13 DEF r, n

(* Where detach and call find a hook. *)
LEMMA PlaceOfHook ==
  ASSUME hooks \in Seq(Hook), IsInjective(hooks), NEW i \in 1 .. Len(hooks)
  PROVE  PlaceOf(hooks[i]) = i
<1> DEFINE I == {j \in 1 .. Len(hooks) : hooks[j] = hooks[i]}
<1>1. DOMAIN hooks = 1 .. Len(hooks)
  BY LenProperties
<1>2. I = {i}
  BY <1>1 DEF IsInjective
<1>3. Min(I) = i
  BY <1>2 DEF Min
<1>4. PlaceOf(hooks[i]) = IF I # {} THEN Min(I) ELSE 0
  BY DEF PlaceOf, SelectInSeq
<1> HIDE DEF I
<1> QED BY <1>2, <1>3, <1>4

LEMMA DetachInv ==
  ASSUME IInv, NEW t \in Threads, Detach(t)
  PROVE  IInv'
<1>1. /\ Goto(t, "detach", "idle") /\ Lock!Yield(t)
      /\ IF PlaceOf(about[t]) > 0
         THEN hooks' = Unlinked(PlaceOf(about[t])) /\ count' = count - 1 /\ UNCHANGED error
         ELSE error' = TRUE /\ UNCHANGED <<hooks, count>>
      /\ status' = [status EXCEPT ![t][about[t].function] = "gone"]
      /\ Forget(t) /\ UNCHANGED walk
  BY DEF Detach
<1>2. TypeOK /\ LockInv /\ AboutInv /\ ListInv /\ OrderInv /\ WalkInv
  BY DEF IInv
<1>3. /\ pc' \in [Threads -> PCs] /\ pc[t] = "detach" /\ pc'[t] = "idle"
      /\ \A u \in Threads : u # t => pc'[u] = pc[u]
  BY <1>1, <1>2, Moved DEF PCs
<1>4. PICK f \in Functions : about[t] = HookOf(t, f) /\ status[t][f] = "hooked"
  BY <1>2, <1>3 DEF AboutInv
<1> DEFINE h == HookOf(t, f)
<1>5. h \in Hook /\ h.level = 1 /\ h.function = f
  BY Basics
<1>6. /\ status \in [Threads -> [Functions -> {"new", "hooked", "gone"}]]
      /\ hooks \in Seq(Hook) /\ IsInjective(hooks) /\ count = Len(hooks)
  BY <1>2 DEF TypeOK, ListInv
<1>7. status' = [status EXCEPT ![t][f] = "gone"]
  <2>1. about[t].function = f
    BY <1>4, <1>5
  <2> QED BY <1>1, <2>1
<1>8. /\ status' \in [Threads -> [Functions -> {"new", "hooked", "gone"}]]
      /\ status'[t][f] = "gone"
      /\ \A u \in Threads, g \in Functions :
           u # t \/ g # f => status'[u][g] = status[u][g]
      /\ \A u \in Threads : u # t => status'[u] = status[u]
  BY <1>6, <1>7
<1>9. h \in ToSet(hooks)
  BY <1>2, <1>4, <1>5 DEF ListInv
<1>10. PICK i \in 1 .. Len(hooks) : h = hooks[i]
  <2>1. DOMAIN hooks = 1 .. Len(hooks)
    BY <1>6, LenProperties
  <2> QED BY <1>9, <2>1 DEF ToSet
<1>11. PlaceOf(about[t]) = i
  BY <1>4, <1>6, <1>10, PlaceOfHook
<1>12. Len(hooks) \in Nat /\ i > 0
  BY <1>6, LenProperties
<1>13. hooks' = RemoveAt(hooks, i) /\ count' = count - 1 /\ error' = error
  BY <1>1, <1>11, <1>12 DEF Unlinked
<1> HIDE DEF h
<1>14. /\ hooks' \in Seq(Hook) /\ Len(hooks') = Len(hooks) - 1
       /\ ToSet(hooks') = ToSet(hooks) \ {h}
       /\ IsInjective(hooks')
       /\ Kept(hooks) => Kept(hooks')
  <2> DEFINE r == RemoveAt(hooks, i)
  <2>1. /\ r \in Seq(Hook) /\ Len(r) = Len(hooks) - 1
        /\ ToSet(r) = ToSet(hooks) \ {hooks[i]}
        /\ IsInjective(r)
        /\ Kept(hooks) => Kept(r)
    BY <1>6, Removed
  <2>2. hooks' = r
    BY <1>13
  <2> HIDE DEF r
  <2> QED BY <1>10, <2>1, <2>2, Zenon
<1>15. LockInv' /\ readers' \subseteq Threads /\ writer' \in Threads \cup {Nobody}
  BY <1>1, <1>2, <1>3, Yielded
<1>16. /\ about' \in [Threads -> Hook \cup {NoHook}]
       /\ \A u \in Threads : u # t => about'[u] = about[u]
  BY <1>1, <1>2 DEF TypeOK, Forget
<1>17. count' \in Nat
  BY <1>6, <1>12, <1>13
<1>18. TypeOK'
  BY <1>1, <1>2, <1>3, <1>8, <1>13, <1>14, <1>15, <1>16, <1>17 DEF TypeOK, walk, PCs
<1>19. AboutInv'
  BY <1>2, <1>3, <1>8, <1>16, AboutFrame
<1>20. ListInv'
  <2>1. count' = Len(hooks')
    BY <1>6, <1>13, <1>14
  <2>2. ASSUME NEW x \in Hook, x.level = 1
        PROVE  x \in ToSet(hooks') <=> \E u \in Threads, g \in Functions :
                                         x = HookOf(u, g) /\ status'[u][g] = "hooked"
    <3>1. x \in ToSet(hooks') <=> x \in ToSet(hooks) /\ x # h
      BY <1>14
    <3>2. x \in ToSet(hooks) <=> \E u \in Threads, g \in Functions :
                                   x = HookOf(u, g) /\ status[u][g] = "hooked"
      BY <1>2, <2>2 DEF ListInv
    <3>3. CASE x = h
      <4>1. \A u, g : x = HookOf(u, g) => u = t /\ g = f
        BY <3>3 DEF h, HookOf
      <4> QED BY <1>8, <3>1, <3>3, <4>1
    <3>4. CASE x # h
      <4>1. \A u \in Threads, g \in Functions : x = HookOf(u, g) => status'[u][g] = status[u][g]
        BY <1>8, <3>4 DEF h
      <4> QED BY <3>1, <3>2, <3>4, <4>1
    <3> QED BY <3>3, <3>4
  <2> QED BY <1>14, <2>1, <2>2, Zenon DEF ListInv
<1>21. OrderInv'
  <2>1. (error' \/ Kept(hooks')) /\ (Satisfiable => ~ error')
    BY <1>2, <1>13, <1>14, Zenon DEF OrderInv
  <2> QED BY <2>1, Zenon DEF OrderInv, Kept, InOrder
<1>22. WalkInv'
  <2>1. \A u \in Threads : pc[u] # "walking" /\ called[u] = <<>>
    BY <1>3, NobodyWalks
  <2>2. \A u \in Threads : pc'[u] # "walking" /\ called'[u] = <<>>
    BY <1>1, <1>3, <2>1 DEF walk
  <2> QED BY <2>2, Zenon DEF WalkInv
<1> QED BY <1>15, <1>18, <1>19, <1>20, <1>21, <1>22 DEF IInv

(* What one thread does to its walk leaves those of others. *)
LEMMA WalkOfOne ==
  ASSUME WalkInv, UNCHANGED hooks, NEW t \in Threads,
         \A u \in Threads : u # t =>
           pc'[u] = pc[u] /\ current'[u] = current[u] /\ called'[u] = called[u],
         IF pc'[t] = "walking" THEN \E p \in 1 .. Len(hooks) + 1 : WalkedTo(t, p)'
                               ELSE called'[t] = <<>>
  PROVE  WalkInv'
<1> SUFFICES ASSUME NEW u \in Threads
             PROVE  IF pc'[u] = "walking" THEN \E p \in 1 .. Len(hooks') + 1 : WalkedTo(u, p)'
                                          ELSE called'[u] = <<>>
  BY Zenon DEF WalkInv
<1>1. CASE u = t
  BY <1>1
<1>2. CASE u # t
  <2>1. \A p : WalkedTo(u, p)' <=> WalkedTo(u, p)
    BY <1>2 DEF WalkedTo, HookAt, FunctionActive
  <2>2. IF pc[u] = "walking" THEN \E p \in 1 .. Len(hooks) + 1 : WalkedTo(u, p)
                             ELSE called[u] = <<>>
    BY DEF WalkInv
  <2> QED BY <1>2, <2>1, <2>2
<1> QED BY <1>1, <1>2

LEMMA HookAtIs ==
  ASSUME TypeOK
  PROVE  /\ Len(hooks) \in Nat /\ DOMAIN hooks = 1 .. Len(hooks)
         /\ \A p \in 1 .. Len(hooks) : HookAt(p) = hooks[p] /\ hooks[p] \in Hook
         /\ HookAt(Len(hooks) + 1) = NoHook
         /\ \A p : HookAt(p) \in Hook \cup {NoHook}
<1>1. hooks \in Seq(Hook)
  BY DEF TypeOK
<1>2. Len(hooks) \in Nat /\ DOMAIN hooks = 1 .. Len(hooks)
      /\ \A p \in 1 .. Len(hooks) : hooks[p] \in Hook
  BY <1>1, LenProperties, ElementOfSeq
<1> QED BY <1>2 DEF HookAt

LEMMA TriggerInv ==
  ASSUME IInv, NEW t \in Threads, Trigger(t)
  PROVE  IInv'
<1>1. /\ left[t] > 0 /\ Goto(t, "idle", "walking") /\ Lock!Enter(t)
      /\ current' = [current EXCEPT ![t] = HookAt(1)]
      /\ left' = [left EXCEPT ![t] = left[t] - 1]
      /\ UNCHANGED <<list, called, about, status>>
  BY DEF Trigger
<1>2. TypeOK /\ LockInv /\ AboutInv /\ ListInv /\ OrderInv /\ WalkInv
  BY DEF IInv
<1>3. /\ pc' \in [Threads -> PCs] /\ pc[t] = "idle" /\ pc'[t] = "walking"
      /\ \A u \in Threads : u # t => pc'[u] = pc[u]
  BY <1>1, <1>2, Moved DEF PCs
<1>4. LockInv' /\ readers' \subseteq Threads /\ writer' \in Threads \cup {Nobody}
  BY <1>1, <1>2, <1>3, Entered
<1>5. /\ current' \in [Threads -> Hook \cup {NoHook}] /\ current'[t] = HookAt(1)
      /\ \A u \in Threads : u # t => current'[u] = current[u]
  BY <1>1, <1>2, HookAtIs DEF TypeOK
<1>6. left' \in [Threads -> 0 .. Calls]
  BY <1>1, <1>2, HooksAssumption DEF TypeOK
<1>7. TypeOK'
  BY <1>1, <1>2, <1>3, <1>4, <1>5, <1>6 DEF TypeOK, list, PCs
<1>8. AboutInv'
  BY <1>1, <1>2, <1>3, AboutFrame
<1>9. ListInv' /\ OrderInv'
  BY <1>1, <1>2, ListFrame
<1>10. WalkInv'
  <2>1. called[t] = <<>> /\ called' = called /\ hooks' = hooks
    BY <1>1, <1>2, <1>3 DEF WalkInv, list
  <2>2. WalkedTo(t, 1)'
    BY <1>5, <2>1 DEF WalkedTo, HookAt
  <2>3. 1 \in 1 .. Len(hooks) + 1
    BY <1>2, HookAtIs
  <2> QED BY <1>2, <1>3, <1>5, <2>1, <2>2, <2>3, WalkOfOne
<1> QED BY <1>4, <1>7, <1>8, <1>9, <1>10 DEF IInv

LEMMA ReturnInv ==
  ASSUME IInv, NEW t \in Threads, Return(t)
  PROVE  IInv'
<1>1. /\ Goto(t, "walking", "idle") /\ Lock!Leave(t)
      /\ called' = [called EXCEPT ![t] = <<>>]
      /\ UNCHANGED <<list, current, left, about, status>>
  BY DEF Return
<1>2. TypeOK /\ LockInv /\ AboutInv /\ ListInv /\ OrderInv /\ WalkInv
  BY DEF IInv
<1>3. /\ pc' \in [Threads -> PCs] /\ pc[t] = "walking" /\ pc'[t] = "idle"
      /\ \A u \in Threads : u # t => pc'[u] = pc[u]
  BY <1>1, <1>2, Moved DEF PCs
<1>4. LockInv' /\ readers' \subseteq Threads /\ writer' \in Threads \cup {Nobody}
  BY <1>1, <1>2, <1>3, Left
<1>5. /\ called' \in [Threads -> Seq(Hook)] /\ called'[t] = <<>>
      /\ \A u \in Threads : u # t => called'[u] = called[u]
  BY <1>1, <1>2 DEF TypeOK
<1>6. TypeOK'
  BY <1>1, <1>2, <1>3, <1>4, <1>5 DEF TypeOK, list, PCs
<1>7. AboutInv'
  BY <1>1, <1>2, <1>3, AboutFrame
<1>8. ListInv' /\ OrderInv'
  BY <1>1, <1>2, ListFrame
<1>9. WalkInv'
  BY <1>1, <1>2, <1>3, <1>5, WalkOfOne DEF list
<1> QED BY <1>4, <1>6, <1>7, <1>8, <1>9 DEF IInv

LEMMA CallInv ==
  ASSUME IInv, NEW t \in Threads, Call(t)
  PROVE  IInv'
<1>1. /\ pc[t] = "walking" /\ current[t] # NoHook
      /\ called' = IF FunctionActive(t, current[t])
                   THEN [called EXCEPT ![t] = Append(called[t], current[t])]
                   ELSE called
      /\ current' = [current EXCEPT ![t] = HookAt(PlaceOf(current[t]) + 1)]
      /\ UNCHANGED <<lock, list, left, pc, about, status>>
  BY DEF Call
<1>2. TypeOK /\ LockInv /\ AboutInv /\ ListInv /\ OrderInv /\ WalkInv
  BY DEF IInv
<1>3. PICK p \in 1 .. Len(hooks) + 1 : WalkedTo(t, p)
  BY <1>1, <1>2 DEF WalkInv
<1>4. /\ Len(hooks) \in Nat /\ DOMAIN hooks = 1 .. Len(hooks)
      /\ \A i \in 1 .. Len(hooks) : HookAt(i) = hooks[i] /\ hooks[i] \in Hook
      /\ HookAt(Len(hooks) + 1) = NoHook
      /\ \A i : HookAt(i) \in Hook \cup {NoHook}
  BY <1>2, HookAtIs
<1>5. p \in 1 .. Len(hooks) /\ current[t] = hooks[p] /\ hooks[p] \in Hook
  BY <1>1, <1>3, <1>4 DEF WalkedTo
<1>6. PlaceOf(current[t]) = p
  BY <1>2, <1>5, PlaceOfHook DEF TypeOK, ListInv
<1>7. /\ current' \in [Threads -> Hook \cup {NoHook}] /\ current'[t] = HookAt(p + 1)
      /\ \A u \in Threads : u # t => current'[u] = current[u]
  BY <1>1, <1>2, <1>4, <1>6 DEF TypeOK
<1> DEFINE q == called[t]
           h == hooks[p]
<1>8. q \in Seq(Hook) /\ called \in [Threads -> Seq(Hook)]
  BY <1>2 DEF TypeOK
<1>9. Append(q, h) \in Seq(Hook)
  BY <1>5, <1>8, AppendProperties
<1>10. /\ called' \in [Threads -> Seq(Hook)]
       /\ called'[t] = IF FunctionActive(t, h) THEN Append(q, h) ELSE q
       /\ \A u \in Threads : u # t => called'[u] = called[u]
  BY <1>1, <1>5, <1>8, <1>9
<1>11. /\ hooks' = hooks /\ pc' = pc /\ about' = about /\ status' = status
       /\ readers' = readers /\ writer' = writer
  BY <1>1 DEF list, lock
<1>12. TypeOK'
  <2>1. count' = count /\ error' = error /\ left' = left
    BY <1>1 DEF list
  <2>2. current' \in [Threads -> Hook \cup {NoHook}] /\ called' \in [Threads -> Seq(Hook)]
    BY <1>7, <1>10
  <2>3. TypeOK
    BY <1>2
  <2> HIDE DEF q, h
  <2> QED BY ONLY <1>11, <2>1, <2>2, <2>3 DEF TypeOK
<1>13. LockInv' /\ AboutInv'
  <2>1. LockInv'
    BY <1>2, <1>11, Zenon DEF LockInv
  <2>2. AboutInv'
    <3>1. pc'[t] = "walking"
      BY <1>1, <1>11
    <3>2. \A u \in Threads : pc'[u] = pc[u] /\ about'[u] = about[u] /\ status'[u] = status[u]
      BY <1>11
    <3> QED BY <1>2, <3>1, <3>2, AboutFrame
  <2> QED BY <2>1, <2>2
<1>14. ListInv' /\ OrderInv'
  BY <1>1, <1>2, ListFrame
<1>15. WalkInv'
  <2>1. p + 1 \in 1 .. Len(hooks) + 1 /\ (p + 1) - 1 = p
    BY <1>4, <1>5
  <2> DEFINE r == called'[t]
             l == Len(q)
  <2>2. /\ l \in Nat /\ DOMAIN q = 1 .. l
        /\ \A x \in 1 .. l : FunctionActive(t, q[x]) /\ \E i \in 1 .. p - 1 : hooks[i] = q[x]
        /\ \A i \in 1 .. p - 1 : FunctionActive(t, hooks[i]) => hooks[i] \in ToSet(q)
        /\ \A x, y \in 1 .. l : \A i, j \in 1 .. p - 1 :
             x < y /\ hooks[i] = q[x] /\ hooks[j] = q[y] => i < j
    <3>1. l \in Nat /\ DOMAIN q = 1 .. l
      BY <1>8, LenProperties
    <3> QED BY <1>3, <3>1 DEF WalkedTo
  <2>3. \A i, j \in 1 .. Len(hooks) : hooks[i] = hooks[j] => i = j
    BY <1>2, <1>4 DEF ListInv, IsInjective
  <2>4. /\ \A x \in DOMAIN r : FunctionActive(t, r[x]) /\ \E i \in 1 .. p : hooks[i] = r[x]
        /\ \A i \in 1 .. p : FunctionActive(t, hooks[i]) => hooks[i] \in ToSet(r)
        /\ \A x, y \in DOMAIN r : \A i, j \in 1 .. p :
             x < y /\ hooks[i] = r[x] /\ hooks[j] = r[y] => i < j
    <3>1. CASE ~ FunctionActive(t, h)
      <4>1. r = q
        BY <1>10, <3>1
      <4>2. \A x \in 1 .. l : \A i \in 1 .. p : hooks[i] = q[x] => i \in 1 .. p - 1
        <5> SUFFICES ASSUME NEW x \in 1 .. l, NEW i \in 1 .. p, hooks[i] = q[x]
                     PROVE  i # p
          BY <1>5
        <5>1. FunctionActive(t, hooks[i])
          BY <2>2
        <5> QED BY <3>1, <5>1
      <4>3. \A i \in 1 .. p : i = p \/ i \in 1 .. p - 1
        BY <1>5
      <4>4. \A x \in DOMAIN r : FunctionActive(t, r[x]) /\ \E i \in 1 .. p : hooks[i] = r[x]
        <5>1. \A i \in 1 .. p - 1 : i \in 1 .. p
          BY <1>5
        <5> QED BY <2>2, <4>1, <5>1, Zenon
      <4>5. \A i \in 1 .. p : FunctionActive(t, hooks[i]) => hooks[i] \in ToSet(r)
        BY <2>2, <3>1, <4>1, <4>3, Zenon
      <4>6. \A x, y \in DOMAIN r : \A i, j \in 1 .. p :
              x < y /\ hooks[i] = r[x] /\ hooks[j] = r[y] => i < j
        BY <2>2, <4>1, <4>2, Zenon
      <4> QED BY <4>4, <4>5, <4>6
    <3>2. CASE FunctionActive(t, h)
      <4>1. /\ r = Append(q, h) /\ DOMAIN r = 1 .. l + 1
            /\ r[l + 1] = h /\ \A x \in 1 .. l : r[x] = q[x]
        BY <1>5, <1>8, <1>10, <2>2, <3>2, AppendProperties
      <4>2. \A x \in 1 .. l + 1 : x = l + 1 \/ x \in 1 .. l
        BY <2>2
      <4>3. p \in 1 .. p /\ \A i \in 1 .. p - 1 : i \in 1 .. p
        BY <1>5
      <4>4. \A i \in 1 .. p : i \in 1 .. Len(hooks) /\ (i = p \/ i \in 1 .. p - 1)
        BY <1>4, <1>5
      <4> HIDE DEF r, l, q, h
      <4>5. \A x \in DOMAIN r : FunctionActive(t, r[x]) /\ \E i \in 1 .. p : hooks[i] = r[x]
        BY <2>2, <3>2, <4>1, <4>2, <4>3, Zenon DEF h
      <4>6. \A i \in 1 .. p : FunctionActive(t, hooks[i]) => hooks[i] \in ToSet(r)
        <5>1. \A x \in 1 .. l + 1 : r[x] \in ToSet(r)
          BY <4>1, Zenon DEF ToSet
        <5>2. l + 1 \in 1 .. l + 1 /\ \A x \in 1 .. l : x \in 1 .. l + 1
          BY <2>2
        <5>3. h \in ToSet(r)
          BY <4>1, <5>1, <5>2, Zenon
        <5>4. \A x \in 1 .. l : q[x] \in ToSet(r)
          BY <4>1, <5>1, <5>2, Zenon
        <5>5. \A e \in ToSet(q) : e \in ToSet(r)
          BY <2>2, <5>4, Zenon DEF ToSet
        <5> QED BY <2>2, <4>4, <5>3, <5>5, Zenon DEF h
      <4>7. ASSUME NEW x \in DOMAIN r, NEW y \in DOMAIN r, NEW i \in 1 .. p, NEW j \in 1 .. p,
                   x < y, hooks[i] = r[x], hooks[j] = r[y]
            PROVE  i < j
        <5>1. x \in 1 .. l /\ r[x] = q[x]
          BY <2>2, <4>1, <4>7
        <5>2. i \in 1 .. p - 1
          <6>1. PICK k \in 1 .. p - 1 : hooks[k] = q[x]
            BY <2>2, <5>1, Zenon
          <6>2. i = k
            BY <2>3, <4>3, <4>4, <4>7, <5>1, <6>1, Zenon
          <6> QED BY <6>1, <6>2
        <5>3. CASE y = l + 1
          <6>1. hooks[j] = hooks[p]
            BY <4>1, <4>7, <5>3 DEF h
          <6>2. j = p
            BY <2>3, <4>3, <4>4, <6>1, Zenon
          <6> QED BY <1>5, <5>2, <6>2
        <5>4. CASE y # l + 1
          <6>1. y \in 1 .. l /\ r[y] = q[y]
            BY <4>1, <4>2, <5>4, Zenon
          <6>2. PICK k \in 1 .. p - 1 : hooks[k] = q[y]
            BY <2>2, <6>1, Zenon
          <6>3. j = k
            BY <2>3, <4>3, <4>4, <4>7, <6>1, <6>2, Zenon
          <6> QED BY <2>2, <4>7, <5>1, <5>2, <6>1, <6>3, Zenon
        <5> QED BY <5>3, <5>4
      <4> QED BY <4>5, <4>6, <4>7
    <3> QED BY <3>1, <3>2
  <2>5. WalkedTo(t, p + 1)'
    <3>1. current'[t] = HookAt(p + 1)'
      BY <1>7, <1>11 DEF HookAt
    <3>2. \A g : FunctionActive(t, g)' <=> FunctionActive(t, g)
      BY DEF FunctionActive
    <3> HIDE DEF r, l, q, h
    <3> QED BY <1>11, <2>1, <2>4, <3>1, <3>2 DEF WalkedTo, r
  <2> QED BY <1>1, <1>2, <1>7, <1>10, <1>11, <2>1, <2>5, WalkOfOne
<1> QED BY <1>12, <1>13, <1>14, <1>15 DEF IInv

LEMMA NextInv == IInv /\ [Next]_vars => IInv'
<1> SUFFICES ASSUME IInv, [Next]_vars PROVE IInv'
  OBVIOUS
<1>1. ASSUME NEW t \in Threads, Act(t)
      PROVE  IInv'
  <2>1. ASSUME NEW f \in Functions, StartAttach(t, f) PROVE IInv'
    BY <2>1, StartAttachInv
  <2>2. ASSUME NEW f \in Functions, AskAttached(t, f) PROVE IInv'
    BY <2>2, AskAttachedInv
  <2>3. ASSUME NEW f \in Functions, StartDetach(t, f) PROVE IInv'
    BY <2>3, StartDetachInv
  <2>4. CASE Attach(t)
    BY <2>4, AttachInv
  <2>5. CASE IsAttached(t)
    BY <2>5, IsAttachedInv
  <2>6. CASE Detach(t)
    BY <2>6, DetachInv
  <2>7. CASE Trigger(t)
    BY <2>7, TriggerInv
  <2>8. CASE Call(t)
    BY <2>8, CallInv
  <2>9. CASE Return(t)
    BY <2>9, ReturnInv
  <2> QED
    BY <1>1, <2>1, <2>2, <2>3, <2>4, <2>5, <2>6, <2>7, <2>8, <2>9 DEF Act
<1>2. ASSUME UNCHANGED vars
      PROVE  IInv'
  <2>1. /\ UNCHANGED <<list, walk, pc, about, status>>
        /\ readers' = readers /\ writer' = writer
        /\ hooks' = hooks /\ count' = count /\ error' = error
        /\ current' = current /\ called' = called /\ left' = left
    BY <1>2 DEF vars, list, walk, lock
  <2>2. TypeOK' /\ LockInv' /\ AboutInv'
    BY <2>1 DEF IInv, TypeOK, LockInv, AboutInv
  <2>3. ListInv' /\ OrderInv'
    BY <2>1, ListFrame DEF IInv
  <2>4. WalkInv'
    BY <2>1, WalkFrame DEF IInv
  <2> QED BY <2>2, <2>3, <2>4 DEF IInv
<1> QED BY <1>1, <1>2 DEF Next, Finished

LEMMA Invariant == Spec => []IInv
<1> QED BY InitInv, NextInv, PTL DEF Spec

(* The lock, the list, what the threads are about and their walks have their types. *)
THEOREM TypeCorrect == Spec => []TypeOK
<1>1. IInv => TypeOK
  BY DEF IInv
<1> QED BY <1>1, Invariant, PTL

(* Whatever is hooked and taken out, by however many threads, the list of the event
   holds what is hooked, each hook once, and count_ is its length. *)
THEOREM ListHoldsWhatIsHooked == Spec => []ListIsWhatWasHooked
<1>1. IInv => ListIsWhatWasHooked
  <2> SUFFICES ASSUME IInv PROVE ListIsWhatWasHooked
    OBVIOUS
  <2>1. TypeOK /\ ListInv
    BY DEF IInv
  <2>2. /\ Len(hooks) \in Nat /\ DOMAIN hooks = 1 .. Len(hooks)
        /\ \A i \in 1 .. Len(hooks) : hooks[i] \in Hook
    BY <2>1, HookAtIs
  <2>3. Cardinality(ToSet(hooks)) = Len(hooks)
    <3> DEFINE g == [i \in 1 .. Len(hooks) |-> hooks[i]]
    <3>1. g \in Bijection(1 .. Len(hooks), ToSet(hooks))
      BY <2>1, <2>2
         DEF ListInv, IsInjective, ToSet, Bijection, Injection, Surjection
    <3>2. ExistsBijection(1 .. Len(hooks), ToSet(hooks))
      BY <3>1 DEF ExistsBijection
    <3> QED BY <2>2, <3>2, FS_CountingElements
  <2>4. {h \in ToSet(hooks) : h.level = 1} =
          {HookOf(x[1], x[2]) : x \in {y \in Threads \X Functions :
                                         status[y[1]][y[2]] = "hooked"}}
    <3>1. ASSUME NEW h \in ToSet(hooks), h.level = 1
          PROVE  \E x \in {y \in Threads \X Functions : status[y[1]][y[2]] = "hooked"} :
                   h = HookOf(x[1], x[2])
      <4>1. h \in Hook
        BY <2>2 DEF ToSet
      <4>2. PICK t \in Threads, f \in Functions : h = HookOf(t, f) /\ status[t][f] = "hooked"
        BY <2>1, <3>1, <4>1 DEF ListInv
      <4> DEFINE x == <<t, f>>
      <4>3. x \in Threads \X Functions /\ x[1] = t /\ x[2] = f
        OBVIOUS
      <4> HIDE DEF x
      <4>4. x \in {y \in Threads \X Functions : status[y[1]][y[2]] = "hooked"}
        BY <4>2, <4>3
      <4> QED BY <4>2, <4>3, <4>4, Zenon
    <3>2. ASSUME NEW x \in {y \in Threads \X Functions : status[y[1]][y[2]] = "hooked"}
          PROVE  HookOf(x[1], x[2]) \in ToSet(hooks) /\ HookOf(x[1], x[2]).level = 1
      <4>1. x[1] \in Threads /\ x[2] \in Functions /\ status[x[1]][x[2]] = "hooked"
        OBVIOUS
      <4>2. HookOf(x[1], x[2]) \in Hook /\ HookOf(x[1], x[2]).level = 1
        BY <4>1, Basics
      <4> QED BY <2>1, <4>1, <4>2 DEF ListInv
    <3> QED BY <3>1, <3>2
  <2> QED BY <2>1, <2>3, <2>4 DEF ListIsWhatWasHooked, ListInv
<1> QED BY <1>1, Invariant, PTL

(* While the program goes on, all that is hooked is in an order that keeps all
   dependencies, be it that of one thread or of several, and whatever was hooked and
   taken out before: resolveDependencies would have stopped the program otherwise. *)
THEOREM InOrderUnlessStopped == Spec => [](error \/ DependenciesKept)
<1>1. IInv => error \/ DependenciesKept
  BY Zenon DEF IInv, OrderInv, Kept, DependenciesKept
<1> QED BY <1>1, Invariant, PTL

(* When there is an order of the functions that keeps all dependencies, the program
   does not stop: each sort of the list succeeds, and each hook that a thread takes
   out is found. *)
THEOREM GoesOn == Satisfiable /\ Spec => []NeverStops
<1>1. Satisfiable /\ IInv => NeverStops
  BY Zenon DEF IInv, OrderInv, NeverStops
<1>2. Satisfiable => Satisfiable'
  BY Zenon DEF Satisfiable
<1>3. Satisfiable /\ [Next]_vars => Satisfiable'
  BY <1>2
<1> QED BY <1>1, <1>3, Invariant, PTL DEF Spec

(* In such a program what is hooked is always in order. *)
THEOREM AlwaysInOrder == Satisfiable /\ Spec => []DependenciesKept
<1>1. NeverStops /\ (error \/ DependenciesKept) => DependenciesKept
  BY DEF NeverStops
<1> QED BY <1>1, GoesOn, InOrderUnlessStopped, PTL

(* The hook at which a thread is in its walk is in the list: no other thread can have
   taken it out and deallocated it. *)
THEOREM HookOfAWalkIsThere == Spec => []NoDanglingHook
<1>1. IInv => NoDanglingHook
  <2> SUFFICES ASSUME IInv, NEW t \in Threads, pc[t] = "walking"
               PROVE  current[t] \in ToSet(hooks) \cup {NoHook}
    BY DEF NoDanglingHook
  <2>1. PICK p \in 1 .. Len(hooks) + 1 : current[t] = HookAt(p)
    BY DEF IInv, WalkInv, WalkedTo
  <2> QED BY <2>1 DEF HookAt, ToSet
<1> QED BY <1>1, Invariant, PTL

(* A thread that has come to the end of the list has called what was hooked for it, in
   the order of the list, each once, although other threads walk the same list and wait
   to change it. *)
THEOREM WalkCallsAll == Spec => []CallsAllThatIsHooked
<1>1. IInv => CallsAllThatIsHooked
  <2> SUFFICES ASSUME IInv, NEW t \in Threads, pc[t] = "walking", current[t] = NoHook
               PROVE  /\ ToSet(called[t]) = {h \in ToSet(hooks) : FunctionActive(t, h)}
                      /\ \A x, y \in DOMAIN called[t] :
                           x < y => PlaceOf(called[t][x]) < PlaceOf(called[t][y])
    BY Zenon DEF CallsAllThatIsHooked
  <2>1. TypeOK /\ ListInv /\ WalkInv
    BY DEF IInv
  <2>2. /\ Len(hooks) \in Nat /\ DOMAIN hooks = 1 .. Len(hooks)
        /\ \A i \in 1 .. Len(hooks) : HookAt(i) \in Hook
    BY <2>1, HookAtIs
  <2>3. PICK p \in 1 .. Len(hooks) + 1 : WalkedTo(t, p)
    BY <2>1 DEF WalkInv
  <2>4. p = Len(hooks) + 1
    <3>1. p \notin 1 .. Len(hooks)
      BY <2>2, <2>3, Basics DEF WalkedTo
    <3> QED BY <2>2, <3>1
  <2>5. p - 1 = Len(hooks)
    BY <2>2, <2>4
  <2>6. /\ \A x \in DOMAIN called[t] :
             /\ FunctionActive(t, called[t][x])
             /\ \E i \in 1 .. Len(hooks) : hooks[i] = called[t][x]
        /\ \A i \in 1 .. Len(hooks) :
             FunctionActive(t, hooks[i]) => hooks[i] \in ToSet(called[t])
        /\ \A x, y \in DOMAIN called[t] : \A i, j \in 1 .. Len(hooks) :
             x < y /\ hooks[i] = called[t][x] /\ hooks[j] = called[t][y] => i < j
    BY <2>3, <2>5, Zenon DEF WalkedTo
  <2>7. ToSet(called[t]) = {h \in ToSet(hooks) : FunctionActive(t, h)}
    BY <2>2, <2>6, Zenon DEF ToSet
  <2>8. ASSUME NEW x \in DOMAIN called[t], NEW y \in DOMAIN called[t], x < y
        PROVE  PlaceOf(called[t][x]) < PlaceOf(called[t][y])
    <3>1. PICK i \in 1 .. Len(hooks) : hooks[i] = called[t][x]
      BY <2>6, Zenon
    <3>2. PICK j \in 1 .. Len(hooks) : hooks[j] = called[t][y]
      BY <2>6, Zenon
    <3>3. PlaceOf(hooks[i]) = i /\ PlaceOf(hooks[j]) = j
      BY <2>1, PlaceOfHook DEF TypeOK, ListInv
    <3>4. i < j
      BY <2>6, <2>8, <3>1, <3>2, Zenon
    <3> QED BY <3>1, <3>2, <3>3, <3>4
  <2> QED BY <2>7, <2>8
<1> QED BY <1>1, Invariant, PTL
=============================================================================
