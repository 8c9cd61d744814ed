------------------------- MODULE ForestOutputs_proofs -------------------------
(***************************************************************************)
(* Theorems about what the task of evolving forests does with outputs and  *)
(* universal events: that events are performed in the order of their       *)
(* times, that the errors that the code calls impossible are never         *)
(* reported, that every forest is output in turn and none is lost, that a  *)
(* run which ends is complete, that the task implements ForestLedger, and  *)
(* that one thread never takes a universe that can evolve for deadlocked.  *)
(***************************************************************************)
EXTENDS ForestTask_proofs

USE TeamAssumption, ForestAssumption, FlagAssumption

-------------------------------------------------------------------------------
(* The list of universal events *)

(* Every event lies no earlier than the last time found, *)
EventsAhead == \A i \in DOMAIN events : universalEvolveToTime <= events[i].time

(* and no creator has two on the list. *)
OneEventEach ==
  \A i, j \in DOMAIN events : events[i].creator = events[j].creator => i = j

EventsInv == EventsAhead /\ OneEventEach

LEMMA EventsTyped ==
  ASSUME TypeInv
  PROVE  /\ Len(events) \in Nat /\ DOMAIN events = 1 .. Len(events)
         /\ \A i \in DOMAIN events : events[i] \in Event /\ events[i].time \in Nat
         /\ universalEvolveToTime \in Nat
<1>1. events \in Seq(Event) /\ universalEvolveToTime \in Nat
  BY DEF TypeInv, TypeOK, UniverseOK
<1>2. /\ Len(events) \in Nat /\ DOMAIN events = 1 .. Len(events)
      /\ \A i \in DOMAIN events : events[i] \in Event
  BY <1>1, LenProperties
<1> QED
  BY <1>1, <1>2, EventTimes

LEMMA EventsTypedPrime ==
  ASSUME TypeInv'
  PROVE  \A i \in DOMAIN events' : events'[i].time \in Nat
<1>1. events' \in Seq(Event)
  BY DEF TypeInv, TypeOK, UniverseOK, Event, EventOf
<1>2. \A i \in DOMAIN events' : events'[i] \in Event
  BY <1>1, LenProperties
<1> QED
  BY <1>2, EventTimes

(* The time a thread evolves its tree to is that of the output it is due at, or
   that of the first event before it; no event lies before it. *)
LEMMA FirstEventBefore ==
  ASSUME TypeInv, NEW target \in Nat
  PROVE  LET before == EventBefore(target)
             first  == Least(before \union {target})
         IN  /\ first \in Nat
             /\ \A i \in DOMAIN events : first <= events[i].time
             /\ before = {} => first = target
             /\ before # {} => /\ first < target
                               /\ \E i \in DOMAIN events : first = events[i].time
<1> DEFINE before == EventBefore(target)
           first  == Least(before \union {target})
<1>1. /\ \A i \in DOMAIN events : events[i].time \in Nat
      /\ \A x : x \in before <=> \E i \in DOMAIN events :
                                   x = events[i].time /\ events[i].time < target
  BY EventsTyped, Zenon DEF EventBefore, ElementsOf
<1> HIDE DEF before
<1>2. before \subseteq Nat
  BY <1>1
<1>3. first \in before \union {target} /\ \A y \in before \union {target} : first <= y
  BY <1>2, LeastIsLeast
<1> HIDE DEF first
<1>4. first \in Nat /\ first <= target
  BY <1>2, <1>3
<1>5. \A i \in DOMAIN events : first <= events[i].time
  <2> SUFFICES ASSUME NEW i \in DOMAIN events PROVE first <= events[i].time
    OBVIOUS
  <2>1. CASE events[i].time < target
    <3>1. events[i].time \in before
      BY <1>1, <2>1
    <3> QED
      BY <1>3, <3>1
  <2>2. CASE ~(events[i].time < target)
    BY <1>1, <1>4, <2>2
  <2> QED
    BY <2>1, <2>2
<1>6. before = {} => first = target
  BY <1>3
<1>7. ASSUME before # {}
      PROVE  first < target /\ \E i \in DOMAIN events : first = events[i].time
  <2>1. PICK y \in before : TRUE
    BY <1>7
  <2>2. y < target /\ y \in Nat /\ first <= y
    BY <1>1, <1>3, <2>1
  <2>3. first < target
    BY <1>4, <2>2
  <2>4. first \in before
    BY <1>3, <2>3, <1>4
  <2> QED
    BY <1>1, <2>3, <2>4
<1> QED
  BY <1>4, <1>5, <1>6, <1>7 DEF before, first

(* What Without leaves out of a sequence, and where the rest is. *)
LEMMA WithoutIs ==
  ASSUME NEW S, NEW q \in Seq(S), NEW i \in DOMAIN q
  PROVE  /\ Without(q, i) \in Seq(S)
         /\ Len(Without(q, i)) = Len(q) - 1
         /\ \A j \in 1 .. Len(q) - 1 :
              Without(q, i)[j] = IF j < i THEN q[j] ELSE q[j + 1]
<1>1. Len(q) \in Nat /\ i \in 1 .. Len(q) /\ \A j \in 1 .. Len(q) : q[j] \in S
  BY LenProperties
<1> DEFINE a == SubSeq(q, 1, i - 1)
           b == SubSeq(q, i + 1, Len(q))
<1>2. a \in Seq(S) /\ Len(a) = i - 1 /\ \A j \in 1 .. i - 1 : a[j] = q[j]
  BY <1>1, SubSeqProperties
<1>3. b \in Seq(S) /\ Len(b) = Len(q) - i /\ \A j \in 1 .. Len(q) - i : b[j] = q[j + i]
  BY <1>1, SubSeqProperties
<1>5. Without(q, i) = a \o b
  BY DEF Without
<1> HIDE DEF a, b
<1>4. /\ a \o b \in Seq(S) /\ Len(a \o b) = Len(a) + Len(b)
      /\ \A j \in 1 .. Len(a) + Len(b) :
           (a \o b)[j] = IF j <= Len(a) THEN a[j] ELSE b[j - Len(a)]
  <2>0. a \in Seq(S) /\ b \in Seq(S)
    BY <1>2, <1>3
  <2>1. a \o b \in Seq(S) /\ Len(a \o b) = Len(a) + Len(b)
    BY ONLY <2>0
  <2>2. ASSUME NEW j \in 1 .. Len(a) + Len(b)
        PROVE  (a \o b)[j] = IF j <= Len(a) THEN a[j] ELSE b[j - Len(a)]
    BY ONLY <2>0, <2>2
  <2> QED
    BY <2>1, <2>2
<1>6. Len(a) = i - 1 /\ Len(b) = Len(q) - i /\ Len(a) + Len(b) = Len(q) - 1
  BY <1>1, <1>2, <1>3
<1>7. ASSUME NEW j \in 1 .. Len(q) - 1
      PROVE  (a \o b)[j] = IF j < i THEN q[j] ELSE q[j + 1]
  <2>1. (a \o b)[j] = IF j <= i - 1 THEN a[j] ELSE b[j - (i - 1)]
    BY <1>4, <1>6
  <2>2. CASE j < i
    <3>1. j \in 1 .. i - 1
      BY <1>1, <2>2
    <3> QED
      BY <1>2, <2>1, <3>1
  <2>3. CASE ~(j < i)
    <3>1. j - (i - 1) \in 1 .. Len(q) - i /\ (j - (i - 1)) + i = j + 1 /\ ~(j <= i - 1)
      BY <1>1, <2>3
    <3>2. b[j - (i - 1)] = q[j + 1]
      BY <1>3, <3>1
    <3> QED
      BY <2>1, <2>3, <3>1, <3>2
  <2> QED
    BY <2>2, <2>3
<1> QED
  BY <1>4, <1>5, <1>6, <1>7

(* The task of an event attaches at most one, of the same creator and later. *)
LEMMA NextEventIs ==
  ASSUME NEW e \in Event
  PROVE  \/ NextEvent(e) = <<>>
         \/ \E x \in Event : /\ NextEvent(e) = <<x>>
                             /\ x.creator = e.creator
                             /\ e.time < x.time
<1>0. PICK c \in Creators : \E k \in DOMAIN Schedule[c] : e = EventOf(c, k)
  BY DEF Event
<1>1. PICK k \in DOMAIN Schedule[c] : e = EventOf(c, k)
  BY <1>0
<1>2. CASE NextEvent(e) = <<EventOf(c, k + 1)>> /\ k < Len(Schedule[c])
  <2>1. Schedule[c] \in Seq(Nat) /\ DOMAIN Schedule[c] = 1 .. Len(Schedule[c])
        /\ Len(Schedule[c]) \in Nat
    BY EventAssumption, LenProperties
  <2>2. k + 1 \in DOMAIN Schedule[c] /\ k < k + 1
    BY <1>2, <2>1
  <2>3. EventOf(c, k + 1) \in Event
    BY <2>2 DEF Event
  <2>4. Schedule[c][k] < Schedule[c][k + 1]
    BY <1>1, <2>1, <2>2, EventAssumption
  <2> QED
    BY <1>1, <1>2, <2>3, <2>4 DEF EventOf
<1> QED
  BY <1>1, <1>2 DEF NextEvent, EventOf

(* The list after the i-th event has been performed. *)
After(i) == Without(events, i) \o NextEvent(events[i])

LEMMA AfterIs ==
  ASSUME TypeInv, OneEventEach, NEW i \in DOMAIN events
  PROVE  /\ DOMAIN After(i) \subseteq Nat
         /\ \A j \in DOMAIN After(i) :
              \/ \E k \in DOMAIN events \ {i} : After(i)[j] = events[k]
              \/ /\ After(i)[j] \in Event
                 /\ After(i)[j].creator = events[i].creator
                 /\ events[i].time < After(i)[j].time
         /\ \A k \in DOMAIN events \ {i} :
              \E j \in DOMAIN After(i) : After(i)[j] = events[k]
         /\ \A j, m \in DOMAIN After(i) :
              After(i)[j].creator = After(i)[m].creator => j = m
<1> DEFINE q == Without(events, i)
           n == Len(events)
<1>1. /\ n \in Nat /\ i \in 1 .. n /\ DOMAIN events = 1 .. n
      /\ \A k \in 1 .. n : events[k] \in Event
  BY EventsTyped
<1>2. /\ q \in Seq(Event) /\ Len(q) = n - 1 /\ DOMAIN q = 1 .. n - 1
      /\ \A j \in 1 .. n - 1 : q[j] = IF j < i THEN events[j] ELSE events[j + 1]
  <2>1. events \in Seq(Event)
    BY DEF TypeInv, TypeOK, UniverseOK
  <2>2. /\ q \in Seq(Event) /\ Len(q) = n - 1
        /\ \A j \in 1 .. n - 1 : q[j] = IF j < i THEN events[j] ELSE events[j + 1]
    BY <2>1, WithoutIs
  <2> QED
    BY <2>2, LenProperties
<1> HIDE DEF q, n
<1>3. \A j \in 1 .. n - 1 : \E k \in DOMAIN events \ {i} :
        q[j] = events[k] /\ k = IF j < i THEN j ELSE j + 1
  BY <1>1, <1>2
<1>4. \A k \in DOMAIN events \ {i} : \E j \in 1 .. n - 1 : q[j] = events[k]
  <2> SUFFICES ASSUME NEW k \in 1 .. n, k # i
               PROVE  \E j \in 1 .. n - 1 : q[j] = events[k]
    BY <1>1
  <2>1. CASE k < i
    BY <1>1, <1>2, <2>1
  <2>2. CASE k > i
    <3>1. k - 1 \in 1 .. n - 1 /\ ~(k - 1 < i) /\ (k - 1) + 1 = k
      BY <1>1, <2>2
    <3> QED
      BY <1>2, <3>1
  <2> QED
    BY <1>1, <2>1, <2>2
<1>5. \A j, m \in 1 .. n - 1 : q[j].creator = q[m].creator => j = m
  <2> SUFFICES ASSUME NEW j \in 1 .. n - 1, NEW m \in 1 .. n - 1,
                      q[j].creator = q[m].creator
               PROVE  j = m
    OBVIOUS
  <2>1. PICK k \in DOMAIN events : q[j] = events[k] /\ k = IF j < i THEN j ELSE j + 1
    BY <1>3
  <2>2. PICK l \in DOMAIN events : q[m] = events[l] /\ l = IF m < i THEN m ELSE m + 1
    BY <1>3
  <2>3. k = l
    BY <2>1, <2>2 DEF OneEventEach
  <2> QED
    BY <1>1, <2>1, <2>2, <2>3
<1>6. \A j \in 1 .. n - 1 : q[j].creator # events[i].creator
  BY <1>1, <1>3 DEF OneEventEach
<1>7. CASE NextEvent(events[i]) = <<>>
  <2>1. After(i) = q
    BY <1>2, <1>7, ConcatEmptySeq DEF After, q
  <2>2. DOMAIN After(i) = 1 .. n - 1 /\ 1 .. n - 1 \subseteq Nat
    BY <1>1, <1>2, <2>1
  <2>3. \A j \in 1 .. n - 1 : \E k \in DOMAIN events \ {i} : q[j] = events[k]
    BY <1>3
  <2> QED
    BY <1>4, <1>5, <2>1, <2>2, <2>3
<1>8. ASSUME NEW x \in Event, NextEvent(events[i]) = <<x>>,
             x.creator = events[i].creator, events[i].time < x.time
      PROVE  /\ DOMAIN After(i) = 1 .. n
             /\ After(i)[n] = x
             /\ \A j \in 1 .. n - 1 : After(i)[j] = q[j]
  <2>1. After(i) = q \o <<x>> /\ <<x>> \in Seq(Event)
    BY <1>8 DEF After, q
  <2>2. Append(q, x) = q \o <<x>>
    BY <1>2, AppendIsConcat
  <2>3. /\ Append(q, x) \in Seq(Event) /\ Len(Append(q, x)) = n
        /\ Append(q, x)[n] = x
        /\ \A j \in 1 .. n - 1 : Append(q, x)[j] = q[j]
    <3>1. (n - 1) + 1 = n
      BY <1>1
    <3> QED
      BY <1>2, <3>1, AppendProperties
  <2> QED
    BY <2>1, <2>2, <2>3, LenProperties
<1>9. ASSUME NEW x \in Event, NextEvent(events[i]) = <<x>>,
             x.creator = events[i].creator, events[i].time < x.time
      PROVE  /\ DOMAIN After(i) \subseteq Nat
             /\ \A j \in DOMAIN After(i) :
                  \/ \E k \in DOMAIN events \ {i} : After(i)[j] = events[k]
                  \/ /\ After(i)[j] \in Event
                     /\ After(i)[j].creator = events[i].creator
                     /\ events[i].time < After(i)[j].time
             /\ \A k \in DOMAIN events \ {i} :
                  \E j \in DOMAIN After(i) : After(i)[j] = events[k]
             /\ \A j, m \in DOMAIN After(i) :
                  After(i)[j].creator = After(i)[m].creator => j = m
  <2>1. /\ DOMAIN After(i) = 1 .. n
        /\ After(i)[n] = x
        /\ \A j \in 1 .. n - 1 : After(i)[j] = q[j]
    BY <1>8, <1>9
  <2>2. \A j \in 1 .. n : j = n \/ j \in 1 .. n - 1
    BY <1>1
  <2>3. ASSUME NEW j \in DOMAIN After(i)
        PROVE  \/ \E k \in DOMAIN events \ {i} : After(i)[j] = events[k]
               \/ /\ After(i)[j] \in Event
                  /\ After(i)[j].creator = events[i].creator
                  /\ events[i].time < After(i)[j].time
    BY <1>3, <1>9, <2>1, <2>2
  <2>4. ASSUME NEW k \in DOMAIN events \ {i}
        PROVE  \E j \in DOMAIN After(i) : After(i)[j] = events[k]
    <3>1. PICK j \in 1 .. n - 1 : q[j] = events[k]
      BY <1>4
    <3>2. j \in 1 .. n
      BY <1>1
    <3> QED
      BY <2>1, <3>1, <3>2
  <2>5. ASSUME NEW j \in DOMAIN After(i), NEW m \in DOMAIN After(i),
               After(i)[j].creator = After(i)[m].creator
        PROVE  j = m
    BY <1>5, <1>6, <1>9, <2>1, <2>2, <2>5
  <2> QED
    BY <1>1, <2>1, <2>3, <2>4, <2>5
<1> QED
  BY <1>1, <1>7, <1>9, NextEventIs

-------------------------------------------------------------------------------
(* At most one event is performed, the first of the list at the time that was
   found, which is the earliest; those its task attaches lie after it. *)
Performed ==
  \E e \in ElementsOf(events) :
    /\ e \notin ElementsOf(events')
    /\ e.time = universalEvolveToTime
    /\ ElementsOf(events) \ {e} \subseteq ElementsOf(events')
    /\ \A x \in ElementsOf(events') \ ElementsOf(events) : e.time < x.time

LEMMA PerformIs ==
  ASSUME TypeInv, EventsInv, PerformEvent
  PROVE  /\ error' = error
         /\ events' = events \/ Performed
         /\ \A j \in DOMAIN events' : universalEvolveToTime <= events'[j].time
         /\ OneEventEach'
<1>1. CASE UNCHANGED <<events, error>>
  BY <1>1 DEF EventsInv, EventsAhead, OneEventEach
<1>2. ASSUME NEW i \in DOMAIN events, events[i].time <= universalEvolveToTime,
             IF events[i].time < universalEvolveToTime
             THEN error' = "event in the past" /\ UNCHANGED events
             ELSE events' = After(i) /\ UNCHANGED error
      PROVE  /\ error' = error
             /\ Performed
             /\ \A j \in DOMAIN events' : universalEvolveToTime <= events'[j].time
             /\ OneEventEach'
  <2>1. /\ events[i].time = universalEvolveToTime
        /\ universalEvolveToTime \in Nat
        /\ \A k \in DOMAIN events : events[k].time \in Nat
    <3>1. /\ universalEvolveToTime \in Nat
          /\ \A k \in DOMAIN events : events[k].time \in Nat
      BY EventsTyped
    <3>2. universalEvolveToTime <= events[i].time
      BY DEF EventsInv, EventsAhead
    <3>3. events[i].time <= universalEvolveToTime
      BY <1>2
    <3>4. \A a, b \in Nat : a <= b /\ b <= a => a = b
      OBVIOUS
    <3> QED
      BY <3>1, <3>2, <3>3, <3>4
  <2>2. events' = After(i) /\ error' = error
    <3>1. ~(events[i].time < universalEvolveToTime)
      BY <2>1
    <3> QED
      BY <1>2, <3>1
  <2>3. OneEventEach
    BY DEF EventsInv
  <2>4. \A j \in DOMAIN events' : universalEvolveToTime <= events'[j].time
    <3> SUFFICES ASSUME NEW j \in DOMAIN After(i)
                 PROVE  universalEvolveToTime <= After(i)[j].time
      BY <2>2
    <3>1. CASE \E k \in DOMAIN events \ {i} : After(i)[j] = events[k]
      BY <3>1 DEF EventsInv, EventsAhead
    <3>2. CASE After(i)[j] \in Event /\ events[i].time < After(i)[j].time
      <4>1. After(i)[j].time \in Nat
        BY <3>2, EventTimes
      <4> QED
        BY <2>1, <3>2, <4>1
    <3> QED
      BY <2>3, <3>1, <3>2, AfterIs
  <2>5. OneEventEach'
    BY <2>2, <2>3, AfterIs DEF OneEventEach
  <2>6. events[i] \notin ElementsOf(events')
    <3> SUFFICES ASSUME NEW j \in DOMAIN After(i), After(i)[j] = events[i]
                 PROVE  FALSE
      BY <2>2, Zenon DEF ElementsOf
    <3>1. ASSUME NEW k \in DOMAIN events \ {i}, events[i] = events[k] PROVE FALSE
      BY <3>1, <2>3 DEF OneEventEach
    <3>2. ~(events[i].time < events[i].time)
      BY <2>1
    <3> QED
      BY <2>3, <3>1, <3>2, AfterIs
  <2>7. ASSUME NEW e \in ElementsOf(events) \ {events[i]}
        PROVE  e \in ElementsOf(events')
    <3>1. PICK k \in DOMAIN events : e = events[k]
      BY Zenon DEF ElementsOf
    <3>2. k \in DOMAIN events \ {i}
      BY <2>7, <3>1
    <3>3. PICK j \in DOMAIN After(i) : After(i)[j] = events[k]
      BY <2>3, <3>2, AfterIs
    <3> QED
      BY <2>2, <3>1, <3>3, Zenon DEF ElementsOf
  <2>8. ASSUME NEW x \in ElementsOf(events') \ ElementsOf(events)
        PROVE  events[i].time < x.time
    <3>1. PICK j \in DOMAIN After(i) : x = After(i)[j]
      BY <2>2, Zenon DEF ElementsOf
    <3>2. ASSUME NEW k \in DOMAIN events PROVE x # events[k]
      BY <2>8, Zenon DEF ElementsOf
    <3> QED
      BY <2>3, <3>1, <3>2, AfterIs
  <2>9. events[i] \in ElementsOf(events)
    BY Zenon DEF ElementsOf
  <2> QED
    BY <2>1, <2>2, <2>4, <2>5, <2>6, <2>7, <2>8, <2>9 DEF Performed
<1> QED
  BY <1>1, <1>2 DEF PerformEvent, After

-------------------------------------------------------------------------------
(* What a step of thread u leaves alone: the private variables of the others,
   the events, and every forest but its own, whose time does not go back.  Only
   Limit finds an event time, only FinalizeShort reports an error. *)
Private(t) == <<pc[t], tree[t], treeIsNew[t], treeIsFinished[t], iOutput[t],
                evolveToTime[t], evolutionIsEventLimited[t], suspendTree[t]>>

Frame(u) ==
  /\ \A t \in Threads \ {u} : Private(t)' = Private(t)
  /\ UNCHANGED <<deadlockReport, events>>
  /\ Limit(u) \/ UNCHANGED universalEvolveToTime
  /\ FinalizeShort(u) \/ UNCHANGED error
  /\ emptied \subseteq emptied' /\ emptied' \subseteq emptied \union {tree[u]}
  /\ \A f \in Forest : /\ time[f] <= time'[f]
                       /\ f # tree[u] => time'[f] = time[f] /\ output'[f] = output[f]
  /\ pulled \subseteq pulled'

\* The groups of variables an action leaves alone.
USE DEF didEvolve, deadlock, universal, stacks, nodes, team, shared, loop, plan,
        limit, private, forests, At, Goto

LEMMA ThreadStepFrames ==
  ASSUME TypeInv, NEW u \in Threads, ThreadStep(u)
  PROVE  Frame(u)
<1> USE DEF TypeInv, TypeOK, FlagsOK, UniverseOK, ThreadsOK, ForestsOK, Frame, Private
<1>1. CASE FetchNew(u)
  BY <1>1 DEF FetchNew
<1>2. CASE FetchNone(u)
  BY <1>2 DEF FetchNone
<1>3. CASE Resume(u)
  BY <1>3 DEF Resume
<1>4. CASE ResumeNone(u)
  BY <1>4 DEF ResumeNone
<1>5. CASE Plan(u)
  BY <1>5 DEF Plan
<1>6. CASE Limit(u)
  BY <1>6 DEF Limit
<1>7. CASE EvolveBegin(u)
  BY <1>7 DEF EvolveBegin
<1>8. CASE EvolveAdvance(u)
  BY <1>8 DEF EvolveAdvance
<1>9. CASE EvolvePush(u)
  BY <1>9 DEF EvolvePush
<1>10. CASE EvolvePull(u)
  BY <1>10 DEF EvolvePull
<1>11. CASE EvolveSuspend(u)
  BY <1>11 DEF EvolveSuspend
<1>12. CASE EvolveEnd(u)
  BY <1>12 DEF EvolveEnd
<1>13. CASE Record(u)
  <2>1. Remnant(u) \subseteq {tree[u]}
    BY DEF Remnant
  <2>2. emptied \subseteq emptied' /\ emptied' \subseteq emptied \union {tree[u]}
    BY <1>13, <2>1 DEF Record
  <2>3. /\ UNCHANGED <<deadlockReport, universal, error, time, output, pulled>>
    BY <1>13 DEF Record
  <2>4. \A t \in Threads \ {u} : Private(t)' = Private(t)
    BY <1>13 DEF Record
  <2>5. \A f \in Forest : /\ time[f] <= time'[f]
                          /\ f # tree[u] => time'[f] = time[f] /\ output'[f] = output[f]
    BY <2>3
  <2> QED
    BY <2>2, <2>3, <2>4, <2>5
<1>14. CASE FinalizeShort(u)
  <2>1. UNCHANGED pc \/ pc' = [pc EXCEPT ![u] = "release"]
    BY <1>14 DEF FinalizeShort
  <2>2. UNCHANGED <<deadlock, universal, nodes, loop, plan, limit, forests>>
    BY <1>14 DEF FinalizeShort
  <2>3. FinalizeShort(u)
    BY <1>14
  <2> QED
    BY <2>1, <2>2, <2>3
<1>15. CASE FinalizeLimited(u)
  BY <1>15 DEF FinalizeLimited
<1>16. CASE FinalizeOutput(u)
  BY <1>16 DEF FinalizeOutput
<1>17. CASE Destroy(u)
  BY <1>17 DEF Destroy
<1>18. CASE Suspend(u)
  BY <1>18 DEF Suspend
<1>19. CASE Decide(u)
  BY <1>19 DEF Decide
<1> QED
  BY <1>1, <1>2, <1>3, <1>4, <1>5, <1>6, <1>7, <1>8, <1>9, <1>10, <1>11, <1>12,
     <1>13, <1>14, <1>15, <1>16, <1>17, <1>18, <1>19
     DEF ThreadStep, Fetch, Evolve, Finalize

LEMMA InitEventsInv == Init => EventsInv
<1> SUFFICES ASSUME Init PROVE EventsInv
  OBVIOUS
<1>1. TypeInv
  BY InitTypeInv
<1>2. EventsAhead
  <2>1. universalEvolveToTime = 0
    BY DEF Init
  <2> QED
    BY <1>1, <2>1, EventsTyped DEF EventsAhead
<1>3. OneEventEach
  <2> DEFINE active == {c \in Creators : Schedule[c] # <<>>}
  <2>1. /\ \A i \in DOMAIN events : events[i] \in {EventOf(c, 1) : c \in active}
        /\ \A i, j \in DOMAIN events : i # j => events[i] # events[j]
    BY DEF Init, FirstEvents
  <2>2. \A i \in DOMAIN events : events[i] = EventOf(events[i].creator, 1)
    BY <2>1 DEF EventOf
  <2> QED
    BY <2>1, <2>2 DEF OneEventEach
<1> QED
  BY <1>2, <1>3 DEF EventsInv

LEMMA StepEventsInv == TypeInv /\ EventsInv /\ [Next]_vars => EventsInv'
<1> SUFFICES ASSUME TypeInv, EventsInv, [Next]_vars PROVE EventsInv'
  OBVIOUS
<1>1. ASSUME UNCHANGED universal PROVE EventsInv'
  BY <1>1 DEF EventsInv, EventsAhead, OneEventEach
<1>2. ASSUME NEW t \in Threads, Limit(t) PROVE EventsInv'
  <2> DEFINE target == OutputTime[iOutput[t]]
             before == EventBefore(target)
             first  == Least(before \union {target})
  <2>1. target \in Nat
    BY <1>2, OutputTimes DEF Limit, TypeInv, HasOutput, Evolving
  <2>2. \A i \in DOMAIN events : first <= events[i].time
    BY <2>1, FirstEventBefore
  <2>3. UNCHANGED events /\ universalEvolveToTime' \in {first, universalEvolveToTime}
    BY <1>2 DEF Limit
  <2> HIDE DEF first
  <2> QED
    BY <2>2, <2>3 DEF EventsInv, EventsAhead, OneEventEach
<1>3. ASSUME NEW t \in Threads, ThreadStep(t) PROVE EventsInv'
  BY <1>1, <1>2, <1>3, ThreadStepFrames DEF Frame
<1>4. CASE MasterTransfers
  <2>1. CASE UNCHANGED events
    BY <1>1, <1>4, <2>1 DEF MasterTransfers
  <2>2. CASE PerformEvent
    <3>1. universalEvolveToTime' = universalEvolveToTime
      BY <1>4 DEF MasterTransfers
    <3> QED
      BY <2>2, <3>1, PerformIs DEF EventsInv, EventsAhead
  <2> QED
    BY <1>4, <2>1, <2>2 DEF MasterTransfers
<1>5. CASE MasterStops \/ Reset \/ PassBarrier \/ UNCHANGED vars
  BY <1>1, <1>5 DEF MasterStops, Reset, PassBarrier, vars
<1> QED
  BY <1>3, <1>4, <1>5 DEF Next, MasterStep, Terminated

-------------------------------------------------------------------------------
(* The errors that the code calls impossible *)

(* The tree of thread t stopped before the time it was to be evolved to. *)
Short(t) == /\ tree[t] \notin emptied
            /\ EndTime[tree[t]] > evolveToTime[t]
            /\ time[tree[t]] < evolveToTime[t]

(* It does so only for a known reason: an event, a node that has not arrived, or
   the report of a deadlock. *)
Excused(t) ==
  /\ pc[t] = "record" /\ Short(t) => Limited(t) \/ deadlockReport
  /\ pc[t] = "finalize" /\ Short(t) => evolutionIsEventLimited[t] \/ deadlockReport

Explained == \A t \in Threads : Excused(t)

LEMMA ExcusedKept ==
  ASSUME TypeInv, NEW t \in Threads, Excused(t), UNCHANGED Private(t),
         pc[t] \in Holding,
         deadlockReport => deadlockReport', emptied \subseteq emptied',
         \A f \in Forest : time[f] <= time'[f], TypeInv'
  PROVE  Excused(t)'
<1>1. tree[t] \in Forest /\ tree'[t] = tree[t]
  BY DEF TypeInv, HoldsForest, Private
<1>2. time[tree[t]] \in Nat /\ time'[tree[t]] \in Nat /\ evolveToTime[t] \in Nat
  BY <1>1 DEF TypeInv, TypeOK, ForestsOK, ThreadsOK
<1>3. /\ pc'[t] = pc[t] /\ evolveToTime'[t] = evolveToTime[t]
      /\ evolutionIsEventLimited'[t] = evolutionIsEventLimited[t]
      /\ suspendTree'[t] = suspendTree[t]
  BY DEF Private
<1>4. Short(t)' => Short(t)
  BY <1>1, <1>2, <1>3 DEF Short
<1> QED
  BY <1>3, <1>4 DEF Excused, Limited

LEMMA StepExplained ==
  TypeInv /\ TypeInv' /\ Explained /\ [Next]_vars => Explained'
<1> SUFFICES ASSUME TypeInv, TypeInv', Explained, [Next]_vars, NEW t \in Threads
             PROVE  Excused(t)'
  BY DEF Explained
<1>0. /\ pc \in [Threads -> Points] /\ deadlockReport \in BOOLEAN
      /\ \A f \in Forest : time[f] \in Nat /\ EndTime[f] \in Nat
      /\ suspendTree \in [Threads -> BOOLEAN]
      /\ evolutionIsEventLimited \in [Threads -> BOOLEAN]
      /\ Excused(t)
  BY DEF TypeInv, TypeOK, ThreadsOK, FlagsOK, ForestsOK, Explained
<1>1. ASSUME pc'[t] \notin {"record", "finalize"} PROVE Excused(t)'
  BY <1>1 DEF Excused
<1>2. ASSUME pc[t] \in {"record", "finalize"}, UNCHANGED Private(t),
             deadlockReport => deadlockReport', UNCHANGED <<emptied, time>>
      PROVE  Excused(t)'
  <2>1. pc[t] \in Holding
    BY <1>2 DEF Holding, Evolving
  <2>2. emptied \subseteq emptied' /\ \A f \in Forest : time[f] <= time'[f]
    BY <1>0, <1>2
  <2> QED
    BY <1>0, <1>2, <2>1, <2>2, ExcusedKept
<1>3. ASSUME NEW u \in Threads, ThreadStep(u), u # t PROVE Excused(t)'
  <2>1. CASE pc[t] \in Holding
    BY <1>0, <1>3, <2>1, ThreadStepFrames, ExcusedKept DEF Frame
  <2>2. CASE pc[t] \notin Holding
    BY <1>1, <1>3, <2>2, ThreadStepFrames DEF Frame, Private, Holding, Evolving
  <2> QED
    BY <2>1, <2>2
<1>4. CASE EvolveBegin(t)
  <2>1. tree[t] \in Forest /\ evolveToTime[t] \in Nat
    BY <1>4 DEF EvolveBegin, TypeInv, HoldsForest, Holding, Evolving, TypeOK, ThreadsOK
  <2>2. \/ pc'[t] = "evolve"
        \/ /\ pc'[t] = "record"
           /\ tree[t] \in emptied \/ evolveToTime[t] > EndTime[tree[t]]
    BY <1>0, <1>4 DEF EvolveBegin
  <2>3. UNCHANGED <<tree, emptied, evolveToTime>>
    BY <1>4 DEF EvolveBegin
  <2> QED
    BY <1>0, <1>1, <2>1, <2>2, <2>3 DEF Excused, Short
<1>5. CASE EvolveSuspend(t)
  <2>1. pc'[t] = "record" /\ suspendTree'[t] = ~deadlockReport
        /\ UNCHANGED <<deadlockReport, evolutionIsEventLimited>>
    BY <1>0, <1>5 DEF EvolveSuspend
  <2> QED
    BY <1>0, <2>1 DEF Excused, Limited
<1>6. CASE EvolveEnd(t)
  <2> DEFINE f == tree[t]
  <2>1. f \in Forest /\ evolveToTime[t] \in Nat
    BY <1>6 DEF EvolveEnd, TypeInv, HoldsForest, Holding, Evolving, TypeOK, ThreadsOK
  <2>2. EndTime[f] > evolveToTime[t] => time[f] >= evolveToTime[t]
    <3>1. {evolveToTime[t], EndTime[f]} \subseteq Nat
      BY <1>0, <2>1
    <3>2. FinalTime(t) \in {evolveToTime[t], EndTime[f]} /\ FinalTime(t) <= evolveToTime[t]
      BY <3>1, LeastIsLeast DEF FinalTime
    <3>3. time[f] >= FinalTime(t)
      BY <1>6 DEF EvolveEnd, AtTarget, Reached
    <3> QED
      BY <1>0, <2>1, <3>2, <3>3
  <2>3. pc'[t] = "record" /\ UNCHANGED <<tree, emptied, evolveToTime, time>>
    BY <1>0, <1>6 DEF EvolveEnd
  <2> QED
    BY <1>0, <2>1, <2>2, <2>3 DEF Excused, Short
<1>7. CASE Record(t)
  <2>1. /\ pc[t] = "record" /\ pc'[t] = "finalize"
        /\ evolutionIsEventLimited'[t] = Limited(t)
        /\ UNCHANGED <<tree, evolveToTime, time, deadlockReport>>
    BY <1>0, <1>7 DEF Record
  <2>2. emptied \subseteq emptied'
    BY <1>7 DEF Record
  <2>3. Short(t)' => Short(t)
    BY <2>1, <2>2 DEF Short
  <2> QED
    BY <1>0, <2>1, <2>3 DEF Excused
<1>8. CASE FinalizeShort(t)
  <2>1. \/ pc'[t] = "release"
        \/ pc' = pc /\ pc[t] = "finalize"
    BY <1>0, <1>8 DEF FinalizeShort
  <2>2. UNCHANGED <<deadlockReport, emptied, time, plan, limit, loop>>
    BY <1>8 DEF FinalizeShort
  <2>3. CASE pc'[t] = "release"
    BY <1>1, <2>3
  <2>4. CASE pc' = pc /\ pc[t] = "finalize"
    <3>1. UNCHANGED Private(t)
      BY <2>2, <2>4 DEF Private
    <3> QED
      BY <1>2, <2>2, <2>4, <3>1
  <2> QED
    BY <2>1, <2>3, <2>4
<1>9. CASE \/ FetchNew(t) \/ FetchNone(t) \/ Resume(t) \/ ResumeNone(t) \/ Plan(t)
           \/ Limit(t) \/ FinalizeLimited(t) \/ FinalizeOutput(t) \/ Destroy(t)
           \/ Suspend(t) \/ Decide(t)
  BY <1>0, <1>1, <1>9 DEF FetchNew, FetchNone, Resume, ResumeNone, Plan, Limit,
     FinalizeLimited, FinalizeOutput, Destroy, Suspend, Decide
<1>10. CASE EvolveAdvance(t) \/ EvolvePush(t) \/ EvolvePull(t)
  BY <1>0, <1>1, <1>10 DEF EvolveAdvance, EvolvePush, EvolvePull
<1>11. CASE ThreadStep(t)
  BY <1>4, <1>5, <1>6, <1>7, <1>8, <1>9, <1>10, <1>11
     DEF ThreadStep, Fetch, Evolve, Finalize
<1>12. CASE MasterTransfers \/ Reset
  <2>1. /\ pc' = [pc EXCEPT ![Master] = pc'[Master]]
        /\ pc'[Master] \notin {"record", "finalize"}
        /\ deadlockReport => deadlockReport'
        /\ UNCHANGED <<loop, plan, limit, emptied, time>> \/ Reset
    BY <1>0, <1>12 DEF MasterTransfers, Reset, LoopTest
  <2>2. UNCHANGED <<tree, treeIsNew, plan, limit, emptied, time>>
    BY <1>12 DEF MasterTransfers, Reset
  <2>3. CASE t = Master
    BY <1>1, <2>1, <2>3
  <2>4. CASE t # Master
    BY <1>0, <1>1, <1>2, <2>1, <2>2, <2>4 DEF Private
  <2> QED
    BY <2>3, <2>4
<1>13. CASE PassBarrier
  <2>1. pc[t] \in Barriers /\ pc'[t] = AfterBarrier(t)
    BY <1>13 DEF PassBarrier, BarrierMet
  <2> QED
    BY <1>1, <2>1 DEF Barriers, AfterBarrier, LoopTest
<1>14. CASE MasterStops \/ UNCHANGED vars
  <2>1. UNCHANGED <<pc, tree, treeIsNew, plan, limit, emptied, time, deadlockReport>>
    BY <1>14 DEF MasterStops, vars
  <2> QED
    BY <1>0, <1>1, <1>2, <2>1 DEF Private
<1> QED
  BY <1>3, <1>11, <1>12, <1>13, <1>14 DEF Next, MasterStep, Terminated

ErrorInv == TypeInv /\ EventsInv /\ Explained /\ NoImpossibleError

(* A thread reports a tree that stopped short only when it knows no reason, the
   master an event in the past only when one is found: both never. *)
LEMMA StepErrorInv == ErrorInv /\ [Next]_vars => ErrorInv'
<1> SUFFICES ASSUME ErrorInv, [Next]_vars PROVE ErrorInv'
  OBVIOUS
<1>1. TypeInv' /\ EventsInv' /\ Explained'
  <2>1. TypeInv'
    BY StepTypeInv DEF ErrorInv
  <2> QED
    BY <2>1, StepEventsInv, StepExplained DEF ErrorInv
<1>2. NoImpossibleError
  BY DEF ErrorInv
<1>3. ASSUME NEW t \in Threads, FinalizeShort(t) PROVE UNCHANGED error
  <2>1. pc[t] = "finalize" /\ FailedToReach(t)
    BY <1>3 DEF FinalizeShort
  <2>2. deadlockReport
    BY <2>1 DEF ErrorInv, Explained, Excused, Short, FailedToReach
  <2> QED
    BY <1>3, <2>2 DEF FinalizeShort
<1>4. ASSUME NEW t \in Threads, ThreadStep(t) PROVE UNCHANGED error
  BY <1>3, <1>4, ThreadStepFrames DEF Frame, ErrorInv
<1>5. ASSUME MasterTransfers PROVE UNCHANGED error
  <2>1. UNCHANGED error \/ PerformEvent
    BY <1>5 DEF MasterTransfers
  <2> QED
    BY <2>1, PerformIs DEF ErrorInv
<1>6. ASSUME MasterStops PROVE error' = "universe deadlocked"
  BY <1>6 DEF MasterStops
<1>7. ASSUME Reset \/ PassBarrier \/ UNCHANGED vars PROVE UNCHANGED error
  BY <1>7 DEF Reset, PassBarrier, vars
<1>8. UNCHANGED error \/ error' = "universe deadlocked"
  BY <1>4, <1>5, <1>6, <1>7 DEF Next, MasterStep, Terminated
<1> QED
  BY <1>1, <1>2, <1>8 DEF ErrorInv, NoImpossibleError

LEMMA InitErrorInv == Init => ErrorInv
<1> SUFFICES ASSUME Init PROVE ErrorInv
  OBVIOUS
<1>1. Explained
  BY DEF Init, Explained, Excused
<1>2. NoImpossibleError
  BY DEF Init, NoImpossibleError, Errors
<1> QED
  BY <1>1, <1>2, InitTypeInv, InitEventsInv DEF ErrorInv

(* The reports that the code calls impossible are never made: the master finds no
   universal event in the past, and a thread finds no tree that stopped short of
   its target for no known reason, whatever the events, nodes and threads. *)
THEOREM NoImpossibleErrorAlways == Spec => []NoImpossibleError
<1>1. ErrorInv => NoImpossibleError
  BY DEF ErrorInv
<1> QED
  BY <1>1, InitErrorInv, StepErrorInv, PTL DEF Spec

-------------------------------------------------------------------------------
(* What the steps of others leave alone of a forest *)

Same(f) == /\ time'[f] = time[f] /\ output'[f] = output[f]
           /\ f \in emptied' <=> f \in emptied

LEMMA FrameSame ==
  ASSUME NEW u, Frame(u), NEW f \in Forest, f # tree[u]
  PROVE  Same(f)
BY DEF Frame, Same

(* A step of one thread leaves alone the tree of another. *)
LEMMA OthersKept ==
  ASSUME OwnerInv, NEW t \in Threads, NEW u \in Threads, u # t, ThreadStep(u)
  PROVE  /\ Private(t)' = Private(t)
         /\ UNCHANGED <<deadlockReport, events>> /\ pulled \subseteq pulled'
         /\ pc[t] \in Holding => Same(tree[t])
<1>1. TypeInv
  BY DEF OwnerInv, TeamInv
<1>2. Frame(u)
  BY <1>1, ThreadStepFrames
<1>3. ASSUME pc[t] \in Holding PROVE tree[t] \in Forest /\ tree[t] # tree[u]
  BY <1>1, <1>3 DEF TypeInv, HoldsForest, OwnerInv, OneOwner
<1> QED
  BY <1>2, <1>3, FrameSame DEF Frame

(* The team's steps leave trees and forests alone, and put nobody to work on one;
   the master performs an event when nobody holds one. *)
TeamStep == MasterStep \/ PassBarrier \/ UNCHANGED vars

LEMMA TeamStepFrames ==
  ASSUME OwnerInv, TeamStep
  PROVE  /\ UNCHANGED <<tree, treeIsNew, plan, limit, forests, pulled,
                        forestNumber, universalEvolveToTime>>
         /\ deadlockReport => deadlockReport'
         /\ \A t \in Threads : pc'[t] = pc[t] \/ pc'[t] \notin Holding \union {"resume"}
         /\ events' = events \/ \A t \in Threads : pc'[t] \notin Holding
         /\ \A t \in Threads : \/ Private(t)' = Private(t)
                               \/ pc'[t] \notin Holding \union {"resume"}
<1> USE DEF Holding, Evolving
<1>0. pc \in [Threads -> Points]
  BY DEF OwnerInv, TeamInv, TypeInv, TypeOK, ThreadsOK
<1>1. UNCHANGED <<tree, treeIsNew, plan, limit, forests, pulled, forestNumber,
                  universalEvolveToTime>>
  BY DEF TeamStep, MasterStep, MasterStops, MasterTransfers, Reset, PassBarrier, vars
<1>2. deadlockReport => deadlockReport'
  BY DEF TeamStep, MasterStep, MasterStops, MasterTransfers, Reset, PassBarrier, vars
<1>3. ASSUME MasterTransfers
      PROVE  \A t \in Threads : pc'[t] \notin Holding \union {"resume"}
  <2>1. pc[Master] = "master" /\ pc' = [pc EXCEPT ![Master] = "universe"]
    BY <1>3 DEF MasterTransfers
  <2>2. \A t \in Threads \ {Master} : pc[t] = "universe"
    BY <2>1 DEF OwnerInv, TeamInv, Phases, InWork, InMaster, InDecide, InEnd, Resetting,
       Working
  <2> QED
    BY <1>0, <2>1, <2>2
<1>4. ASSUME Reset
      PROVE  \A t \in Threads : pc'[t] = pc[t] \/ pc'[t] \notin Holding \union {"resume"}
  BY <1>0, <1>4 DEF Reset, LoopTest
<1>5. ASSUME PassBarrier
      PROVE  \A t \in Threads : pc'[t] \notin Holding \union {"resume"}
  BY <1>5 DEF PassBarrier, BarrierMet, Barriers, AfterBarrier, LoopTest
<1>6. ASSUME MasterStops \/ UNCHANGED vars PROVE pc' = pc
  BY <1>6 DEF MasterStops, vars
<1>7. \A t \in Threads : pc'[t] = pc[t] \/ pc'[t] \notin Holding \union {"resume"}
  BY <1>3, <1>4, <1>5, <1>6 DEF TeamStep, MasterStep
<1>8. events' = events \/ \A t \in Threads : pc'[t] \notin Holding
  BY <1>3 DEF TeamStep, MasterStep, MasterStops, Reset, PassBarrier, vars
<1> QED
  BY <1>1, <1>2, <1>7, <1>8 DEF Private

LEMMA NextIsThreadOrTeam ==
  ASSUME [Next]_vars PROVE (\E t \in Threads : ThreadStep(t)) \/ TeamStep
BY DEF Next, TeamStep, Terminated

(* When the team changes the list of events, it performs one. *)
LEMMA TeamEvents ==
  ASSUME TypeInv, EventsInv, TeamStep
  PROVE  \/ events' = events
         \/ Performed /\ MasterTransfers /\ universeProcessed # <<>>
<1>1. CASE MasterTransfers /\ universeProcessed # <<>>
  <2>1. PerformEvent
    BY <1>1 DEF MasterTransfers
  <2> QED
    BY <1>1, <2>1, PerformIs
<1>2. CASE MasterTransfers /\ universeProcessed = <<>>
  BY <1>2 DEF MasterTransfers
<1>3. CASE MasterStops \/ Reset \/ PassBarrier \/ UNCHANGED vars
  BY <1>3 DEF MasterStops, Reset, PassBarrier, vars
<1> QED
  BY <1>1, <1>2, <1>3 DEF TeamStep, MasterStep

-------------------------------------------------------------------------------
(* What a thread is after *)

Began == Evolving \ {"limit"}

(* Something other than the output time ends the call of the evolver: an event
   or, once it has returned, a suspension. *)
Hindered(t) == IF pc[t] = "record" THEN Limited(t) ELSE evolutionIsEventLimited[t]

NoEventBefore(o) == \A i \in DOMAIN events : o <= events[i].time

(* A base node that is to be in place at an output time can be ahead of a node
   of its forest only while nodes move between forests. *)
EndsClear ==
  Transfers = {} \/ \A f \in Forest, k \in 1 .. NOutputs : EndTime[f] # OutputTime[k]

(* The tree has reached its target, if that is its end. *)
Arrived(t) ==
  EndsClear /\ tree[t] \notin emptied /\ EndTime[tree[t]] = evolveToTime[t]
    => evolveToTime[t] <= time[tree[t]]

(* A thread evolves its tree to an output, not yet past, or to an event before
   it; no event lies before its target. *)
Aims(t) ==
  /\ pc[t] \in Evolving =>
       /\ ~treeIsFinished[t]
       /\ tree[t] \in emptied \/ time[tree[t]] <= OutputTime[iOutput[t]]
  /\ pc[t] \in Began =>
       /\ NoEventBefore(evolveToTime[t])
       /\ evolveToTime[t] <= OutputTime[iOutput[t]]
       /\ Hindered(t) \/ evolveToTime[t] = OutputTime[iOutput[t]]
  /\ pc[t] \in {"begin", "evolve"} /\ Hindered(t) =>
       evolveToTime[t] < OutputTime[iOutput[t]]
  /\ pc[t] = "evolve" => ~suspendTree[t]
  /\ pc[t] \in {"record", "finalize"} => Hindered(t) \/ Arrived(t)

AimInv == \A t \in Threads : Aims(t)

LEMMA AimsKept ==
  ASSUME NEW t \in Threads, Aims(t), Private(t)' = Private(t),
         pc[t] \in Evolving => Same(tree[t]) /\ events' = events
  PROVE  Aims(t)'
<1>1. /\ pc'[t] = pc[t] /\ tree'[t] = tree[t] /\ iOutput'[t] = iOutput[t]
      /\ evolveToTime'[t] = evolveToTime[t] /\ treeIsFinished'[t] = treeIsFinished[t]
      /\ evolutionIsEventLimited'[t] = evolutionIsEventLimited[t]
      /\ suspendTree'[t] = suspendTree[t]
  BY DEF Private
<1>2. Hindered(t)' <=> Hindered(t)
  BY <1>1 DEF Hindered, Limited
<1>3. CASE pc[t] \in Evolving
  <2>1. Same(tree[t]) /\ events' = events
    BY <1>3
  <2>2. NoEventBefore(evolveToTime[t])' <=> NoEventBefore(evolveToTime[t])
    BY <1>1, <2>1 DEF NoEventBefore
  <2>3. Arrived(t)' <=> Arrived(t)
    BY <1>1, <2>1 DEF Arrived, Same
  <2> QED
    BY <1>1, <1>2, <2>1, <2>2, <2>3 DEF Aims, Same
<1>4. CASE pc[t] \notin Evolving
  BY <1>1, <1>4 DEF Aims, Evolving, Began
<1> QED
  BY <1>3, <1>4

(* The lesser of two numbers. *)
LEMMA LeastOfTwo ==
  ASSUME NEW a \in Nat, NEW b \in Nat
  PROVE  Least({a, b}) \in {a, b} /\ Least({a, b}) <= a /\ Least({a, b}) <= b
BY LeastIsLeast

(* The evolver has come to its target when the tree has come to it, or to its end. *)
LEMMA FinalTimeIs ==
  ASSUME NEW t, evolveToTime[t] \in Nat, EndTime[tree[t]] \in Nat, time[tree[t]] \in Nat
  PROVE  AtTarget(t) <=> \/ evolveToTime[t] <= time[tree[t]]
                         \/ EndTime[tree[t]] <= time[tree[t]]
<1> DEFINE a == evolveToTime[t]
           b == EndTime[tree[t]]
           m == Least({a, b})
<1>1. m \in {a, b} /\ m <= a /\ m <= b
  BY LeastOfTwo
<1>2. AtTarget(t) <=> time[tree[t]] >= m
  BY DEF AtTarget, Reached, FinalTime
<1> HIDE DEF m
<1> QED
  BY <1>1, <1>2

(* Types of what a thread holds and is after. *)
LEMMA ThreadTypes ==
  ASSUME TypeInv, NEW t \in Threads
  PROVE  /\ pc \in [Threads -> Points] /\ treeIsFinished \in [Threads -> BOOLEAN]
         /\ treeIsNew \in [Threads -> BOOLEAN]
         /\ suspendTree \in [Threads -> BOOLEAN]
         /\ evolutionIsEventLimited \in [Threads -> BOOLEAN]
         /\ iOutput \in [Threads -> 1 .. NOutputs + 1]
         /\ tree \in [Threads -> Forest \union {NoTree}]
         /\ evolveToTime \in [Threads -> Nat] /\ evolveToTime[t] \in Nat
         /\ \A f \in Forest : time[f] \in Nat /\ EndTime[f] \in Nat
                              /\ output[f] \in Seq(1 .. NOutputs)
         /\ time \in [Forest -> Nat] /\ output \in [Forest -> Seq(1 .. NOutputs)]
         /\ pc[t] \in Evolving => /\ iOutput[t] \in 1 .. NOutputs
                                  /\ OutputTime[iOutput[t]] \in Nat
         /\ pc[t] \in Holding => tree[t] \in Forest
<1>1. pc[t] \in Evolving => iOutput[t] \in 1 .. NOutputs
  BY DEF TypeInv, HasOutput
<1>2. pc[t] \in Evolving => OutputTime[iOutput[t]] \in Nat
  BY <1>1, OutputTimes
<1> QED
  BY <1>1, <1>2 DEF TypeInv, TypeOK, FlagsOK, ThreadsOK, ForestsOK, HoldsForest

(* The first output planned for a tree is not past. *)
LEMMA PlanAims ==
  ASSUME TypeInv, NEW t \in Threads, Plan(t)
  PROVE  Aims(t)'
<1> DEFINE f == tree[t]
           i == firstOutput(f, treeIsNew[t])
           S == {NOutputs} \union {k \in 1 .. NOutputs : OutputTime[k] > time[f]}
<1>1. pc[t] = "plan" /\ f \in Forest /\ time[f] \in Nat
  <2>1. pc[t] = "plan"
    BY DEF Plan
  <2> QED
    BY <2>1, ThreadTypes DEF Holding
<1>2. i # 0 => i \in 1 .. NOutputs /\ time[f] <= OutputTime[i]
  <2> SUFFICES ASSUME i # 0 PROVE i \in 1 .. NOutputs /\ time[f] <= OutputTime[i]
    OBVIOUS
  <2>1. CASE i = timeNext(time[f])
    <3>1. ~(time[f] > OutputTime[NOutputs]) /\ i = Least(S)
      BY <2>1 DEF timeNext
    <3>2. S \subseteq 1 .. NOutputs /\ S # {} /\ 1 .. NOutputs \subseteq Nat
      BY OutputTimes
    <3>3. i \in S
      BY <3>1, <3>2, LeastIsLeast
    <3> QED
      BY <1>1, <3>1, <3>3, OutputTimes
  <2>2. CASE /\ i = timeNext(time[f]) - 1 /\ timeNext(time[f]) > 1
             /\ time[f] = OutputTime[timeNext(time[f]) - 1]
    BY <1>1, <2>2, TimeNextType, OutputTimes
  <2> QED
    BY <2>1, <2>2 DEF firstOutput
<1> HIDE DEF i
<1>3. /\ pc'[t] = IF i = 0 THEN "release" ELSE "limit"
      /\ treeIsFinished'[t] = (i = 0)
      /\ i # 0 => iOutput'[t] = i
      /\ tree' = tree /\ time' = time
  BY ThreadTypes DEF Plan, i
<1>4. CASE i = 0
  BY <1>3, <1>4 DEF Aims, Evolving, Began
<1>5. CASE i # 0
  BY <1>2, <1>3, <1>5 DEF Aims, Evolving, Began
<1> QED
  BY <1>4, <1>5

(* A thread evolves no further than the first event. *)
LEMMA LimitAims ==
  ASSUME TypeInv, NEW t \in Threads, Aims(t), Limit(t)
  PROVE  Aims(t)'
<1> DEFINE target == OutputTime[iOutput[t]]
           before == EventBefore(target)
           first  == Least(before \union {target})
<1>1. pc[t] = "limit" /\ target \in Nat
  <2>1. pc[t] = "limit"
    BY DEF Limit
  <2> QED
    BY <2>1, ThreadTypes DEF Evolving
<1>2. /\ first \in Nat
      /\ \A i \in DOMAIN events : first <= events[i].time
      /\ before = {} => first = target
      /\ before # {} => first < target
  BY <1>1, FirstEventBefore
<1> HIDE DEF before, first
<1>3. /\ pc'[t] = "begin" /\ evolveToTime'[t] = first
      /\ evolutionIsEventLimited'[t] = (before # {})
      /\ UNCHANGED <<tree, plan, forests, events>>
  BY ThreadTypes DEF Limit, before, first
<1>4. Hindered(t)' <=> before # {}
  BY <1>3 DEF Hindered
<1>5. NoEventBefore(evolveToTime[t])'
  BY <1>2, <1>3 DEF NoEventBefore
<1>6. ~treeIsFinished'[t] /\ (tree'[t] \in emptied' \/ time'[tree'[t]] <= OutputTime[iOutput'[t]])
  BY <1>1, <1>3 DEF Aims, Evolving
<1>7. iOutput'[t] = iOutput[t] /\ first <= target
  BY <1>1, <1>2, <1>3
<1> QED
  BY <1>2, <1>3, <1>4, <1>5, <1>6, <1>7 DEF Aims

(* The evolver keeps to it. *)
LEMMA EvolveAims ==
  ASSUME TypeInv, NEW t \in Threads, Aims(t), Evolve(t)
  PROVE  Aims(t)'
<1> DEFINE f == tree[t]
<1>1. pc[t] \in {"begin", "evolve"}
  BY DEF Evolve, EvolveBegin, EvolveAdvance, EvolvePush, EvolvePull, EvolveSuspend,
     EvolveEnd
<1>2. /\ f \in Forest /\ time[f] \in Nat /\ EndTime[f] \in Nat
      /\ evolveToTime[t] \in Nat /\ OutputTime[iOutput[t]] \in Nat
      /\ pc[t] \in Evolving /\ pc[t] \in Began /\ pc[t] \in Holding
  BY <1>1, ThreadTypes DEF Holding, Evolving, Began
<1>3. /\ ~treeIsFinished[t]
      /\ f \in emptied \/ time[f] <= OutputTime[iOutput[t]]
      /\ NoEventBefore(evolveToTime[t])
      /\ evolveToTime[t] <= OutputTime[iOutput[t]]
      /\ evolutionIsEventLimited[t] \/ evolveToTime[t] = OutputTime[iOutput[t]]
      /\ evolutionIsEventLimited[t] => evolveToTime[t] < OutputTime[iOutput[t]]
      /\ pc[t] = "evolve" => ~suspendTree[t]
  BY <1>1, <1>2 DEF Aims, Hindered
<1>4. /\ UNCHANGED <<tree, treeIsFinished, iOutput, evolveToTime,
                     evolutionIsEventLimited, emptied, events>>
  BY DEF Evolve, EvolveBegin, EvolveAdvance, EvolvePush, EvolvePull, EvolveSuspend,
     EvolveEnd
<1>5. NoEventBefore(evolveToTime[t])'
  BY <1>3, <1>4 DEF NoEventBefore
<1>6. ASSUME time'[f] <= OutputTime[iOutput[t]] \/ f \in emptied,
             pc'[t] \in {"begin", "evolve", "record"},
             pc'[t] = "evolve" => ~suspendTree'[t],
             pc'[t] = "record" => Limited(t)' \/ Arrived(t)'
      PROVE  Aims(t)'
  <2>1. Hindered(t)' = (IF pc'[t] = "record" THEN Limited(t)'
                                             ELSE evolutionIsEventLimited[t])
    BY <1>4 DEF Hindered
  <2>2. evolutionIsEventLimited[t] => Limited(t)'
    BY <1>4 DEF Limited
  <2>3. Hindered(t)' \/ evolveToTime'[t] = OutputTime[iOutput'[t]]
    BY <1>3, <1>4, <2>1, <2>2
  <2>4. pc'[t] # "record" => (Hindered(t)' => evolveToTime'[t] < OutputTime[iOutput'[t]])
    BY <1>3, <1>4, <2>1
  <2>5. pc'[t] \in {"record", "finalize"} => Hindered(t)' \/ Arrived(t)'
    BY <1>6, <2>1
  <2> QED
    BY <1>3, <1>4, <1>5, <1>6, <2>3, <2>4, <2>5 DEF Aims
<1>7. CASE EvolveBegin(t)
  <2>1. /\ \/ pc'[t] = "evolve"
           \/ pc'[t] = "record" /\ (f \in emptied \/ evolveToTime[t] > EndTime[f])
        /\ suspendTree'[t] = FALSE /\ time' = time
    BY <1>7, ThreadTypes DEF EvolveBegin
  <2>2. f \in emptied \/ evolveToTime[t] > EndTime[f] => Arrived(t)'
    BY <1>2, <1>4 DEF Arrived
  <2> QED
    BY <1>3, <1>6, <2>1, <2>2
<1>8. CASE EvolveAdvance(t)
  <2>1. /\ pc' = pc /\ pc[t] = "evolve" /\ suspendTree' = suspendTree
        /\ time'[f] = time[f] + 1 /\ ~AtTarget(t)
    BY <1>2, <1>8, ThreadTypes DEF EvolveAdvance
  <2>2. time[f] < evolveToTime[t] /\ time[f] < EndTime[f]
    BY <1>2, <2>1, FinalTimeIs
  <2> QED
    BY <1>2, <1>3, <1>6, <2>1, <2>2
<1>9. CASE EvolvePush(t) \/ EvolvePull(t)
  <2>1. pc' = pc /\ pc[t] = "evolve" /\ suspendTree' = suspendTree /\ time' = time
    BY <1>9 DEF EvolvePush, EvolvePull
  <2> QED
    BY <1>3, <1>6, <2>1
<1>10. CASE EvolveSuspend(t)
  <2>1. /\ pc'[t] = "record" /\ suspendTree'[t] = ~deadlockReport /\ time' = time
        /\ PullDue(f) # {}
    BY <1>10, ThreadTypes DEF EvolveSuspend, Due
  <2>2. EndsClear => evolveToTime[t] # EndTime[f] \/ evolutionIsEventLimited[t]
    <3>1. Transfers # {}
      BY <2>1 DEF PullDue
    <3>2. iOutput[t] \in 1 .. NOutputs
      BY <1>2, ThreadTypes
    <3> QED
      BY <1>2, <1>3, <3>1, <3>2 DEF EndsClear
  <2>3. Limited(t)' \/ Arrived(t)'
    BY <1>4, <2>2 DEF Limited, Arrived
  <2> QED
    BY <1>3, <1>6, <2>1, <2>3
<1>11. CASE EvolveEnd(t)
  <2>1. pc'[t] = "record" /\ time' = time /\ AtTarget(t)
    BY <1>11, ThreadTypes DEF EvolveEnd
  <2>2. evolveToTime[t] <= time[f] \/ EndTime[f] <= time[f]
    BY <1>2, <2>1, FinalTimeIs
  <2>3. Arrived(t)'
    BY <1>2, <1>4, <2>1, <2>2 DEF Arrived
  <2> QED
    BY <1>3, <1>6, <2>1, <2>3
<1> QED
  BY <1>7, <1>8, <1>9, <1>10, <1>11 DEF Evolve

(* What happens after the evolver has returned. *)
LEMMA FinalizeAims ==
  ASSUME TypeInv, NEW t \in Threads, Aims(t), Finalize(t)
  PROVE  Aims(t)'
<1> DEFINE f == tree[t]
<1>0. pc \in [Threads -> Points]
  BY ThreadTypes
<1>1. CASE Record(t)
  <2>1. /\ pc[t] = "record" /\ pc'[t] = "finalize"
        /\ evolutionIsEventLimited'[t] = Limited(t)
        /\ UNCHANGED <<tree, plan, evolveToTime, suspendTree, time, events>>
        /\ emptied \subseteq emptied'
    BY <1>1, ThreadTypes DEF Record
  <2>2. Hindered(t)' <=> Hindered(t)
    BY <2>1 DEF Hindered
  <2>3. Arrived(t) => Arrived(t)'
    BY <2>1 DEF Arrived
  <2>4. NoEventBefore(evolveToTime[t]) => NoEventBefore(evolveToTime[t])'
    BY <2>1 DEF NoEventBefore
  <2> QED
    BY <2>1, <2>2, <2>3, <2>4 DEF Aims, Evolving, Began
<1>2. CASE FinalizeShort(t) \/ FinalizeLimited(t)
  <2>1. /\ pc'[t] = "release" \/ pc' = pc
        /\ UNCHANGED <<events, time, output, emptied, loop, plan, limit>>
    BY <1>0, <1>2 DEF FinalizeShort, FinalizeLimited
  <2>2. CASE pc' = pc
    BY <2>1, <2>2, AimsKept DEF Private, Same
  <2>3. CASE pc'[t] = "release"
    BY <2>3 DEF Aims, Evolving, Began
  <2> QED
    BY <2>1, <2>2, <2>3
<1>3. CASE FinalizeOutput(t)
  <2>1. /\ pc[t] = "finalize"
        /\ pc'[t] = IF iOutput[t] = NOutputs THEN "release" ELSE "limit"
        /\ iOutput'[t] = iOutput[t] + 1 /\ treeIsFinished'[t] = (iOutput[t] = NOutputs)
        /\ UNCHANGED <<tree, time, emptied>>
    BY <1>3, ThreadTypes DEF FinalizeOutput
  <2>2. /\ iOutput[t] \in 1 .. NOutputs /\ f \in Forest /\ time[f] \in Nat
        /\ f \in emptied \/ time[f] <= OutputTime[iOutput[t]]
    BY <2>1, ThreadTypes DEF Aims, Evolving, Holding
  <2>3. ASSUME iOutput[t] # NOutputs
        PROVE  /\ OutputTime[iOutput[t]] < OutputTime[iOutput[t] + 1]
               /\ OutputTime[iOutput[t]] \in Nat /\ OutputTime[iOutput[t] + 1] \in Nat
    <3>1. PICK k \in 1 .. NOutputs : k = iOutput[t]
      BY <2>2
    <3>2. k + 1 \in 1 .. NOutputs /\ k < k + 1
      BY <2>3, <3>1, OutputTimes
    <3>3. OutputTime[k] < OutputTime[k + 1]
      BY <3>1, <3>2, OutputAssumption
    <3> QED
      BY <3>1, <3>2, <3>3, OutputTimes
  <2>4. iOutput[t] # NOutputs => f \in emptied \/ time[f] <= OutputTime[iOutput[t] + 1]
    BY <2>2, <2>3
  <2> QED
    BY <2>1, <2>4 DEF Aims, Evolving, Began
<1>4. CASE Destroy(t) \/ Suspend(t)
  <2>1. pc'[t] = "fetch"
    BY <1>0, <1>4 DEF Destroy, Suspend
  <2> QED
    BY <2>1 DEF Aims, Evolving, Began
<1> QED
  BY <1>1, <1>2, <1>3, <1>4 DEF Finalize

LEMMA StepAimInv == OwnerInv /\ AimInv /\ [Next]_vars => AimInv'
<1> SUFFICES ASSUME OwnerInv, AimInv, [Next]_vars, NEW t \in Threads PROVE Aims(t)'
  BY DEF AimInv
<1>1. TypeInv /\ Aims(t) /\ pc \in [Threads -> Points]
  BY ThreadTypes DEF OwnerInv, TeamInv, AimInv
<1>2. CASE ThreadStep(t)
  <2>1. CASE Fetch(t) \/ Decide(t)
    <3>1. pc'[t] \in {"plan", "resume", "passEnd", "trigger"}
      BY <1>1, <2>1 DEF Fetch, FetchNew, FetchNone, Resume, ResumeNone, Decide
    <3> QED
      BY <3>1 DEF Aims, Evolving, Began
  <2> QED
    BY <1>1, <1>2, <2>1, PlanAims, LimitAims, EvolveAims, FinalizeAims DEF ThreadStep
<1>3. ASSUME NEW u \in Threads, ThreadStep(u), u # t PROVE Aims(t)'
  BY <1>1, <1>3, OthersKept, AimsKept DEF Holding
<1>4. CASE TeamStep
  <2>1. CASE pc'[t] \notin Holding
    BY <2>1 DEF Aims, Holding, Evolving, Began
  <2>2. CASE pc'[t] \in Holding
    <3>1. Private(t)' = Private(t) /\ events' = events /\ UNCHANGED forests
      BY <1>4, <2>2, TeamStepFrames
    <3> QED
      BY <1>1, <3>1, AimsKept DEF Same
  <2> QED
    BY <2>1, <2>2
<1> QED
  BY <1>2, <1>3, <1>4, NextIsThreadOrTeam

LEMMA InitAimInv == Init => AimInv
BY DEF Init, AimInv, Aims, Evolving, Began

(* Only one step writes an output, and only of the forest its thread holds. *)
LEMMA WhoWrites ==
  ASSUME OwnerInv, [Next]_vars, NEW f \in Forest, output'[f] # output[f]
  PROVE  \E t \in Threads : FinalizeOutput(t) /\ tree[t] = f /\ f \notin emptied
<1>1. TypeInv
  BY DEF OwnerInv, TeamInv
<1>2. PICK t \in Threads : ThreadStep(t)
  BY TeamStepFrames, NextIsThreadOrTeam
<1>3. tree[t] = f
  BY <1>1, <1>2, ThreadStepFrames DEF Frame
<1>4. FinalizeOutput(t)
  BY <1>2 DEF ThreadStep, Fetch, FetchNew, FetchNone, Resume, ResumeNone, Plan, Limit,
     Evolve, EvolveBegin, EvolveAdvance, EvolvePush, EvolvePull, EvolveSuspend,
     EvolveEnd, Finalize, Record, FinalizeShort, FinalizeLimited, Destroy, Suspend,
     Decide
<1> QED
  BY <1>3, <1>4 DEF FinalizeOutput

(* A forest is written only when it has come to the output time, or has ended
   before it. *)
LEMMA WritesAtItsTime ==
  ASSUME OwnerInv, AimInv, EndsClear, NEW t \in Threads, FinalizeOutput(t),
         tree[t] \notin emptied
  PROVE  /\ output'[tree[t]] = Append(output[tree[t]], iOutput[t])
         /\ \/ time[tree[t]] = OutputTime[iOutput[t]]
            \/ EndTime[tree[t]] < OutputTime[iOutput[t]]
<1> DEFINE f == tree[t]
<1>1. TypeInv /\ Aims(t) /\ pc[t] = "finalize"
  BY DEF OwnerInv, TeamInv, AimInv, FinalizeOutput
<1>2. /\ f \in Forest /\ output \in [Forest -> Seq(1 .. NOutputs)]
      /\ time[f] \in Nat /\ EndTime[f] \in Nat /\ OutputTime[iOutput[t]] \in Nat
  BY <1>1, ThreadTypes DEF Evolving, Holding
<1>3. /\ ~evolutionIsEventLimited[t] /\ ~FailedToReach(t)
      /\ output' = [output EXCEPT ![f] = Append(@, iOutput[t])]
  BY DEF FinalizeOutput
<1>4. /\ evolveToTime[t] = OutputTime[iOutput[t]] /\ Arrived(t)
      /\ time[f] <= OutputTime[iOutput[t]]
  BY <1>1, <1>3 DEF Aims, Hindered, Evolving, Began
<1>5. EndTime[f] <= evolveToTime[t] \/ evolveToTime[t] <= time[f]
  BY <1>2, <1>3, <1>4 DEF FailedToReach
<1> QED
  BY <1>2, <1>3, <1>4, <1>5 DEF Arrived

(* A forest is output at the time of the output, or after its end, provided that
   no base node is to be in place at an output time while nodes move between
   forests: the pass that reports a deadlock then evolves no tree that far. *)
THEOREM OutputsAtTheirTimes == EndsClear /\ Spec => OutputAtItsTime
<1> DEFINE I == EndsClear /\ OwnerInv /\ AimInv
           Timely == \A f \in Forest : output'[f] # output[f] =>
                       LET k == output'[f][Len(output'[f])]
                       IN  time[f] = OutputTime[k] \/ EndTime[f] < OutputTime[k]
<1>1. I /\ [Next]_vars => Timely
  <2> SUFFICES ASSUME I, [Next]_vars, NEW f \in Forest, output'[f] # output[f]
               PROVE  LET k == output'[f][Len(output'[f])]
                      IN  time[f] = OutputTime[k] \/ EndTime[f] < OutputTime[k]
    OBVIOUS
  <2>1. PICK t \in Threads : FinalizeOutput(t) /\ tree[t] = f /\ f \notin emptied
    BY WhoWrites
  <2>2. /\ output'[f] = Append(output[f], iOutput[t])
        /\ \/ time[f] = OutputTime[iOutput[t]]
           \/ EndTime[f] < OutputTime[iOutput[t]]
    BY <2>1, WritesAtItsTime
  <2>3. output[f] \in Seq(1 .. NOutputs) /\ iOutput[t] \in 1 .. NOutputs
    <3>1. pc[t] = "finalize" /\ TypeInv
      BY <2>1 DEF FinalizeOutput, OwnerInv, TeamInv
    <3> QED
      BY <3>1, ThreadTypes DEF Evolving
  <2>4. output'[f][Len(output'[f])] = iOutput[t]
    <3>1. /\ Len(Append(output[f], iOutput[t])) = Len(output[f]) + 1
          /\ Append(output[f], iOutput[t])[Len(output[f]) + 1] = iOutput[t]
      BY <2>3, AppendProperties
    <3> QED
      BY <2>2, <3>1
  <2> QED
    BY <2>2, <2>4
<1>2. EndsClear /\ Init => I
  BY InitOwnerInv, InitAimInv
<1>3. I /\ [Next]_vars => I'
  BY StepOwnerInv, StepAimInv DEF EndsClear
<1>4. EndsClear => EndsClear'
  BY DEF EndsClear
<1>5. I /\ [Next]_vars => [Timely]_vars
  BY <1>1
<1> HIDE DEF I, Timely
<1>6. EndsClear /\ Spec => [][Timely]_vars
  BY <1>2, <1>3, <1>5, PTL DEF Spec
<1> QED
  BY <1>6 DEF Timely, OutputAtItsTime

-------------------------------------------------------------------------------
(* Universal events *)

EventAt(m) == \E i \in DOMAIN events : events[i].time = m

(* A forest has come to the time of the events, or has ended before it. *)
InTime(f) == \/ universalEvolveToTime <= time[f]
             \/ EndTime[f] < universalEvolveToTime

(* The evolver brought the tree to its target, or to its end before it. *)
Came(t) == \/ tree[t] \in emptied
           \/ evolveToTime[t] <= time[tree[t]]
           \/ EndTime[tree[t]] < evolveToTime[t]

(* A forest is removed when no event is left that it could take part in. *)
EmptiedEarly ==
  \A f \in emptied : \A i \in DOMAIN events : EndTime[f] < events[i].time

(* Threads that are limited by an event are so by the same: the first. *)
InStep(t) ==
  /\ ~suspendTree[t]
  /\ pc[t] \in Began /\ evolutionIsEventLimited[t] =>
       evolveToTime[t] = universalEvolveToTime /\ EventAt(universalEvolveToTime)
  /\ pc[t] \in {"record", "finalize"} => Came(t)
  /\ pc[t] = "release" /\ ~treeIsFinished[t] =>
       InTime(tree[t]) /\ EventAt(universalEvolveToTime)

(* So are the trees that wait for it to be performed. *)
AsideInTime ==
  /\ universeProcessed # <<>> => EventAt(universalEvolveToTime)
  /\ \A f \in ElementsOf(universeProcessed) : InTime(f)

SyncInv == /\ EmptiedEarly
           /\ \A t \in Threads : InStep(t)
           /\ AsideInTime

EventfulInv == OwnerInv /\ EventsInv /\ AimInv /\ SyncInv

(* While an event lies at the time that was found, no thread finds another. *)
LEMMA TimeFoundKept ==
  ASSUME TypeInv, EventsInv, NEW u \in Threads, ThreadStep(u),
         EventAt(universalEvolveToTime)
  PROVE  UNCHANGED <<universalEvolveToTime, events>>
<1>1. UNCHANGED events /\ (Limit(u) \/ UNCHANGED universalEvolveToTime)
  BY ThreadStepFrames DEF Frame
<1>2. CASE Limit(u)
  <2> DEFINE target == OutputTime[iOutput[u]]
             before == EventBefore(target)
             first  == Least(before \union {target})
  <2>1. pc[u] = "limit"
    BY <1>2 DEF Limit
  <2>2. target \in Nat
    BY <2>1, ThreadTypes DEF Evolving
  <2>3. /\ first \in Nat
        /\ \A i \in DOMAIN events : first <= events[i].time
        /\ before # {} => \E i \in DOMAIN events : first = events[i].time
    BY <2>2, FirstEventBefore
  <2>4. universalEvolveToTime' = IF before # {} THEN first ELSE universalEvolveToTime
    BY <1>2 DEF Limit
  <2> HIDE DEF before, first
  <2>5. CASE before # {}
    <3>1. first <= universalEvolveToTime
      BY <2>3 DEF EventAt
    <3>2. universalEvolveToTime <= first
      BY <2>3, <2>5 DEF EventsInv, EventsAhead
    <3>3. universalEvolveToTime \in Nat
      BY EventsTyped
    <3> QED
      BY <1>1, <2>3, <2>4, <2>5, <3>1, <3>2, <3>3
  <2> QED
    BY <1>1, <2>4, <2>5
<1> QED
  BY <1>1, <1>2

LEMMA StepEmptiedEarly ==
  ASSUME OwnerInv, EventsInv, AimInv, EmptiedEarly, [Next]_vars
  PROVE  EmptiedEarly'
<1>0. TypeInv
  BY DEF OwnerInv, TeamInv
<1>1. ASSUME NEW t \in Threads, ThreadStep(t) PROVE EmptiedEarly'
  <2>1. CASE Record(t)
    <3>1. /\ pc[t] = "record" /\ emptied' \subseteq emptied \union Remnant(t)
          /\ UNCHANGED events
      BY <2>1 DEF Record
    <3>2. NoEventBefore(evolveToTime[t])
      BY <3>1 DEF AimInv, Aims, Began, Evolving
    <3>3. ASSUME NEW f \in Remnant(t), NEW i \in DOMAIN events
          PROVE  EndTime[f] < events[i].time
      <4>1. f = tree[t] /\ EndTime[f] < evolveToTime[t] /\ f \in Forest
        BY <3>1, <1>0, ThreadTypes DEF Remnant, Holding, Evolving
      <4>2. evolveToTime[t] <= events[i].time
        BY <3>2 DEF NoEventBefore
      <4>3. events[i].time \in Nat /\ evolveToTime[t] \in Nat /\ EndTime[f] \in Nat
        BY <1>0, <4>1, EventsTyped, ThreadTypes
      <4> QED
        BY <4>1, <4>2, <4>3
    <3> QED
      BY <3>1, <3>3 DEF EmptiedEarly
  <2>2. CASE ~Record(t)
    <3>1. UNCHANGED emptied
      BY <1>1, <2>2 DEF ThreadStep, Fetch, FetchNew, FetchNone, Resume, ResumeNone,
         Plan, Limit, Evolve, EvolveBegin, EvolveAdvance, EvolvePush, EvolvePull,
         EvolveSuspend, EvolveEnd, Finalize, FinalizeShort, FinalizeLimited,
         FinalizeOutput, Destroy, Suspend, Decide
    <3>2. UNCHANGED events
      BY <1>0, <1>1, ThreadStepFrames DEF Frame
    <3> QED
      BY <3>1, <3>2 DEF EmptiedEarly
  <2> QED
    BY <2>1, <2>2
<1>2. CASE TeamStep
  <2>1. emptied' = emptied
    BY <1>2, TeamStepFrames
  <2>2. CASE events' = events
    BY <2>1, <2>2 DEF EmptiedEarly
  <2>3. CASE Performed
    <3>1. PICK e \in ElementsOf(events) :
            \A x \in ElementsOf(events') \ ElementsOf(events) : e.time < x.time
      BY <2>3 DEF Performed
    <3>2. PICK i \in DOMAIN events : e = events[i]
      BY Zenon DEF ElementsOf
    <3>3. ASSUME NEW f \in emptied, NEW j \in DOMAIN events'
          PROVE  EndTime[f] < events'[j].time
      <4>1. CASE events'[j] \in ElementsOf(events)
        BY <4>1 DEF ElementsOf, EmptiedEarly
      <4>2. CASE events'[j] \notin ElementsOf(events)
        <5>1. events'[j] \in ElementsOf(events')
          BY Zenon DEF ElementsOf
        <5>2. EndTime[f] < events[i].time /\ events[i].time < events'[j].time
          BY <3>1, <3>2, <4>2, <5>1 DEF EmptiedEarly
        <5>3. TypeInv' /\ f \in Forest
          BY <1>0, StepTypeInv DEF TypeInv, TypeOK, ForestsOK
        <5>4. events'[j].time \in Nat
          BY <5>3, EventsTypedPrime
        <5>5. events[i].time \in Nat /\ EndTime[f] \in Nat
          BY <1>0, <5>3, EventsTyped
        <5> QED
          BY <5>2, <5>4, <5>5
      <4> QED
        BY <4>1, <4>2
    <3> QED
      BY <2>1, <3>3 DEF EmptiedEarly
  <2> QED
    BY <1>0, <1>2, <2>2, <2>3, TeamEvents
<1> QED
  BY <1>1, <1>2, NextIsThreadOrTeam

LEMMA InStepKept ==
  ASSUME NEW t \in Threads, InStep(t), Private(t)' = Private(t),
         pc[t] \in Holding => Same(tree[t]) /\ events' = events,
         EventAt(universalEvolveToTime) => UNCHANGED <<universalEvolveToTime, events>>
  PROVE  InStep(t)'
<1>1. /\ pc'[t] = pc[t] /\ tree'[t] = tree[t] /\ evolveToTime'[t] = evolveToTime[t]
      /\ treeIsFinished'[t] = treeIsFinished[t] /\ suspendTree'[t] = suspendTree[t]
      /\ evolutionIsEventLimited'[t] = evolutionIsEventLimited[t]
  BY DEF Private
<1>2. ASSUME EventAt(universalEvolveToTime)
      PROVE  EventAt(universalEvolveToTime)' /\ universalEvolveToTime' = universalEvolveToTime
  BY <1>2 DEF EventAt
<1>3. pc[t] \in Holding /\ Came(t) => Came(t)'
  BY <1>1 DEF Came, Same
<1>4. pc[t] \in Holding /\ EventAt(universalEvolveToTime) /\ InTime(tree[t]) => InTime(tree[t])'
  BY <1>1, <1>2 DEF InTime, Same
<1> QED
  BY <1>1, <1>2, <1>3, <1>4 DEF InStep, Began, Evolving, Holding

(* What the thread does that an event limits, or does not. *)
LEMMA LimitInTime ==
  ASSUME TypeInv, NEW t \in Threads, InStep(t), Limit(t)
  PROVE  InStep(t)'
<1> DEFINE target == OutputTime[iOutput[t]]
           before == EventBefore(target)
           first  == Least(before \union {target})
<1>1. pc[t] = "limit"
  BY DEF Limit
<1>2. target \in Nat
  BY <1>1, ThreadTypes DEF Evolving
<1>3. before # {} => \E i \in DOMAIN events : first = events[i].time
  BY <1>2, FirstEventBefore
<1>4. /\ pc'[t] = "begin" /\ evolveToTime'[t] = first
      /\ evolutionIsEventLimited'[t] = (before # {})
      /\ before # {} => universalEvolveToTime' = first
      /\ UNCHANGED <<events, suspendTree>>
  BY ThreadTypes DEF Limit
<1> HIDE DEF before, first
<1> QED
  BY <1>3, <1>4 DEF InStep, EventAt

LEMMA EvolveInTime ==
  ASSUME Transfers = {}, TypeInv, NEW t \in Threads, InStep(t), Evolve(t)
  PROVE  InStep(t)'
<1> DEFINE f == tree[t]
<1>1. pc[t] \in {"begin", "evolve"}
  BY DEF Evolve, EvolveBegin, EvolveAdvance, EvolvePush, EvolvePull, EvolveSuspend,
     EvolveEnd
<1>2. /\ f \in Forest /\ time[f] \in Nat /\ EndTime[f] \in Nat /\ evolveToTime[t] \in Nat
      /\ pc[t] \in Began
  BY <1>1, ThreadTypes DEF Holding, Evolving, Began
<1>3. /\ UNCHANGED <<tree, evolveToTime, evolutionIsEventLimited, emptied, universal>>
  BY DEF Evolve, EvolveBegin, EvolveAdvance, EvolvePush, EvolvePull, EvolveSuspend,
     EvolveEnd
<1>4. ASSUME pc'[t] \in {"evolve", "record"}, ~suspendTree'[t],
             pc'[t] = "record" => Came(t)'
      PROVE  InStep(t)'
  BY <1>2, <1>3, <1>4 DEF InStep, EventAt
<1>5. ~suspendTree[t]
  BY DEF InStep
<1>6. CASE EvolveBegin(t)
  <2>1. /\ \/ pc'[t] = "evolve"
           \/ pc'[t] = "record" /\ (f \in emptied \/ evolveToTime[t] > EndTime[f])
        /\ suspendTree'[t] = FALSE
    BY <1>6, ThreadTypes DEF EvolveBegin
  <2>2. f \in emptied \/ evolveToTime[t] > EndTime[f] => Came(t)'
    BY <1>2, <1>3 DEF Came
  <2> QED
    BY <1>4, <2>1, <2>2
<1>7. CASE EvolveAdvance(t)
  BY <1>4, <1>5, <1>7 DEF EvolveAdvance
<1>8. ~EvolvePush(t) /\ ~EvolvePull(t) /\ ~EvolveSuspend(t)
  BY DEF EvolvePush, EvolvePull, EvolveSuspend, Due, PushDue, PullDue
<1>9. CASE EvolveEnd(t)
  <2>1. /\ pc'[t] = "record" /\ AtTarget(t) /\ UNCHANGED <<time, suspendTree>>
    BY <1>9, ThreadTypes DEF EvolveEnd
  <2>2. evolveToTime[t] <= time[f] \/ EndTime[f] <= time[f]
    BY <1>2, <2>1, FinalTimeIs
  <2>3. Came(t)'
    BY <1>2, <1>3, <2>1, <2>2 DEF Came
  <2> QED
    BY <1>4, <1>5, <2>1, <2>3
<1> QED
  BY <1>6, <1>7, <1>8, <1>9 DEF Evolve

LEMMA FinalizeInTime ==
  ASSUME TypeInv, EmptiedEarly, NEW t \in Threads, InStep(t), Finalize(t)
  PROVE  InStep(t)'
<1> DEFINE f == tree[t]
<1>1. CASE Record(t)
  <2>1. /\ pc[t] = "record" /\ pc'[t] = "finalize"
        /\ evolutionIsEventLimited'[t] = Limited(t)
        /\ UNCHANGED <<tree, evolveToTime, suspendTree, time, universal>>
        /\ emptied \subseteq emptied'
    BY <1>1, ThreadTypes DEF Record
  <2>2. Limited(t) = evolutionIsEventLimited[t]
    BY ThreadTypes DEF Limited, InStep
  <2>3. Came(t) => Came(t)'
    BY <2>1 DEF Came
  <2> QED
    BY <2>1, <2>2, <2>3 DEF InStep, EventAt, Began, Evolving
<1>2. CASE FinalizeShort(t)
  <2>1. pc[t] = "finalize" /\ FailedToReach(t)
    BY <1>2 DEF FinalizeShort
  <2>2. /\ f \in Forest /\ time[f] \in Nat /\ EndTime[f] \in Nat
        /\ evolveToTime[t] \in Nat
    BY <2>1, ThreadTypes DEF Holding, Evolving
  <2> QED
    BY <2>1, <2>2 DEF InStep, Came, FailedToReach
<1>3. CASE FinalizeLimited(t)
  <2>1. /\ pc[t] = "finalize" /\ evolutionIsEventLimited[t] /\ pc'[t] = "release"
        /\ UNCHANGED <<universal, time, emptied, loop, plan, limit>>
    BY <1>3, ThreadTypes DEF FinalizeLimited
  <2>2. /\ evolveToTime[t] = universalEvolveToTime /\ EventAt(universalEvolveToTime)
        /\ Came(t)
    BY <2>1 DEF InStep, Began, Evolving
  <2>3. InTime(f)
    BY <2>2 DEF Came, InTime, EventAt, EmptiedEarly
  <2> QED
    BY <2>1, <2>2, <2>3 DEF InStep, InTime, EventAt, Began, Evolving
<1>4. CASE FinalizeOutput(t)
  <2>1. /\ \/ pc'[t] = "limit"
           \/ pc'[t] = "release" /\ treeIsFinished'[t] = TRUE
        /\ suspendTree' = suspendTree
    BY <1>4, ThreadTypes DEF FinalizeOutput
  <2> QED
    BY <2>1 DEF InStep, Began, Evolving
<1>5. CASE Destroy(t) \/ Suspend(t)
  <2>1. pc'[t] = "fetch" /\ suspendTree' = suspendTree
    BY <1>5, ThreadTypes DEF Destroy, Suspend
  <2> QED
    BY <2>1 DEF InStep, Began, Evolving
<1> QED
  BY <1>1, <1>2, <1>3, <1>4, <1>5 DEF Finalize

LEMMA StepInStep ==
  ASSUME Transfers = {}, EventfulInv, [Next]_vars, NEW t \in Threads
  PROVE  InStep(t)'
<1>1. TypeInv /\ InStep(t) /\ EventsInv /\ EmptiedEarly /\ OwnerInv
  BY DEF EventfulInv, SyncInv, OwnerInv, TeamInv
<1>2. CASE ThreadStep(t)
  <2>1. CASE Fetch(t) \/ Decide(t)
    <3>1. pc'[t] \in {"plan", "resume", "passEnd", "trigger"} /\ suspendTree' = suspendTree
      BY <1>1, <2>1, ThreadTypes
         DEF Fetch, FetchNew, FetchNone, Resume, ResumeNone, Decide
    <3> QED
      BY <1>1, <3>1 DEF InStep, Evolving, Began
  <2>2. CASE Plan(t)
    <3>1. /\ pc'[t] = "limit" \/ (pc'[t] = "release" /\ treeIsFinished'[t])
          /\ suspendTree' = suspendTree
      BY <1>1, <2>2, ThreadTypes DEF Plan
    <3> QED
      BY <1>1, <3>1 DEF InStep, Evolving, Began
  <2> QED
    BY <1>1, <1>2, <2>1, <2>2, LimitInTime, EvolveInTime, FinalizeInTime DEF ThreadStep
<1>3. ASSUME NEW u \in Threads, ThreadStep(u), u # t PROVE InStep(t)'
  BY <1>1, <1>3, OthersKept, TimeFoundKept, InStepKept
<1>4. CASE TeamStep
  <2>1. CASE pc'[t] \notin Holding
    <3>1. suspendTree' = suspendTree
      BY <1>1, <1>4, TeamStepFrames
    <3> QED
      BY <1>1, <2>1, <3>1 DEF InStep, Holding, Evolving, Began
  <2>2. CASE pc'[t] \in Holding
    <3>1. /\ Private(t)' = Private(t) /\ events' = events /\ UNCHANGED forests
          /\ UNCHANGED universalEvolveToTime
      BY <1>1, <1>4, <2>2, TeamStepFrames
    <3> QED
      BY <1>1, <3>1, InStepKept DEF Same
  <2> QED
    BY <2>1, <2>2
<1> QED
  BY <1>2, <1>3, <1>4, NextIsThreadOrTeam

LEMMA StepAsideInTime ==
  ASSUME EventfulInv, [Next]_vars
  PROVE  AsideInTime'
<1>1. TypeInv /\ EventsInv /\ OwnerInv /\ AsideInTime
  BY DEF EventfulInv, SyncInv, OwnerInv, TeamInv
<1>2. universeProcessed \in Seq(Forest)
  BY <1>1 DEF TypeInv, TypeOK, UniverseOK
<1>3. \A g \in ElementsOf(universeProcessed) : g \in Forest /\ universeProcessed # <<>>
  <2> SUFFICES ASSUME NEW i \in DOMAIN universeProcessed
               PROVE  universeProcessed[i] \in Forest /\ universeProcessed # <<>>
    BY DEF ElementsOf
  <2> QED
    BY <1>2
<1>4. ASSUME NEW t \in Threads, ThreadStep(t) PROVE AsideInTime'
  <2>1. ASSUME NEW g \in ElementsOf(universeProcessed) PROVE InTime(g)'
    <3>1. g \in Forest /\ g # tree[t]
      BY <1>1, <1>3, <2>1 DEF OwnerInv, OneOwner, Held, Suspended
    <3>2. Same(g)
      BY <1>1, <1>4, <3>1, ThreadStepFrames, FrameSame
    <3>3. universalEvolveToTime' = universalEvolveToTime
      BY <1>1, <1>3, <1>4, TimeFoundKept DEF AsideInTime
    <3> QED
      BY <1>1, <3>2, <3>3 DEF AsideInTime, InTime, Same
  <2>2. EventAt(universalEvolveToTime) => EventAt(universalEvolveToTime)'
    BY <1>1, <1>4, TimeFoundKept DEF EventAt
  <2>3. CASE UNCHANGED universeProcessed
    BY <1>1, <2>1, <2>2, <2>3 DEF AsideInTime
  <2>4. CASE Suspend(t)
    <3>1. pc[t] = "release" /\ ~treeIsFinished[t]
          /\ universeProcessed' = Append(universeProcessed, tree[t])
          /\ UNCHANGED <<universal, time>>
      BY <2>4 DEF Suspend, PushTree
    <3>2. tree[t] \in Forest
      BY <1>1, <3>1, ThreadTypes DEF Holding
    <3>3. ElementsOf(universeProcessed') = ElementsOf(universeProcessed) \union {tree[t]}
      BY <1>2, <3>1, <3>2, AppendElements
    <3>4. InTime(tree[t]) /\ EventAt(universalEvolveToTime)
      BY <3>1 DEF EventfulInv, SyncInv, InStep
    <3> QED
      BY <2>1, <2>2, <3>1, <3>3, <3>4 DEF AsideInTime, InTime
  <2>5. UNCHANGED universeProcessed \/ Suspend(t)
    BY <1>4 DEF ThreadStep, Fetch, FetchNew, FetchNone, Resume, ResumeNone, Plan,
       Limit, Evolve, EvolveBegin, EvolveAdvance, EvolvePush, EvolvePull,
       EvolveSuspend, EvolveEnd, Finalize, Record, FinalizeShort, FinalizeLimited,
       FinalizeOutput, Destroy, Decide
  <2> QED
    BY <2>3, <2>4, <2>5
<1>5. CASE MasterTransfers
  <2>1. universeProcessed' = <<>>
    BY <1>5 DEF MasterTransfers
  <2> QED
    BY <2>1, EmptyElements DEF AsideInTime
<1>6. CASE MasterStops \/ Reset \/ PassBarrier \/ UNCHANGED vars
  <2>1. UNCHANGED <<universeProcessed, universal, time>>
    BY <1>6 DEF MasterStops, Reset, PassBarrier, vars
  <2> QED
    BY <1>1, <2>1 DEF AsideInTime, InTime, EventAt
<1> QED
  BY <1>4, <1>5, <1>6, NextIsThreadOrTeam DEF TeamStep, MasterStep

LEMMA StepEventfulInv ==
  Transfers = {} /\ EventfulInv /\ [Next]_vars => EventfulInv'
<1> SUFFICES ASSUME Transfers = {}, EventfulInv, [Next]_vars PROVE EventfulInv'
  OBVIOUS
<1>1. OwnerInv' /\ EventsInv' /\ AimInv'
  BY StepOwnerInv, StepEventsInv, StepAimInv DEF EventfulInv, OwnerInv, TeamInv
<1>2. SyncInv'
  <2>1. EmptiedEarly'
    BY StepEmptiedEarly DEF EventfulInv, SyncInv
  <2>2. \A t \in Threads : InStep(t)'
    BY StepInStep
  <2> QED
    BY <2>1, <2>2, StepAsideInTime DEF SyncInv
<1> QED
  BY <1>1, <1>2 DEF EventfulInv

LEMMA InitEventfulInv == Init => EventfulInv
<1> SUFFICES ASSUME Init PROVE EventfulInv
  OBVIOUS
<1>1. SyncInv
  BY EmptyElements
     DEF Init, SyncInv, EmptiedEarly, InStep, AsideInTime, Evolving, Began
<1> QED
  BY <1>1, InitOwnerInv, InitEventsInv, InitAimInv DEF EventfulInv

(* Universal events require all merger trees to reach the same cosmic time: when
   the master performs one it is the earliest attached, and every tree laid aside
   has come to its time, provided that no node moves between forests. *)
THEOREM EventsSynchronised == Transfers = {} /\ Spec => UniversalEventSynchronised
<1> DEFINE I == Transfers = {} /\ EventfulInv
           Synchronised == Performs =>
             /\ \A e \in ElementsOf(events) : e.time >= universalEvolveToTime
             /\ \A f \in ElementsOf(universeProcessed) :
                  \/ time[f] >= universalEvolveToTime
                  \/ EndTime[f] < universalEvolveToTime
<1>1. I => Synchronised
  <2> SUFFICES ASSUME I PROVE Synchronised
    OBVIOUS
  <2>1. \A e \in ElementsOf(events) : e.time >= universalEvolveToTime
    BY Zenon DEF EventfulInv, EventsInv, EventsAhead, ElementsOf, >=
  <2>2. \A f \in ElementsOf(universeProcessed) : InTime(f)
    BY DEF EventfulInv, SyncInv, AsideInTime
  <2> QED
    BY <2>1, <2>2 DEF InTime
<1>2. Transfers = {} /\ Init => I
  BY InitEventfulInv
<1>3. I /\ [Next]_vars => I'
  BY StepEventfulInv
<1>4. I => [Synchronised]_vars
  BY <1>1
<1> HIDE DEF I, Synchronised
<1>5. Transfers = {} /\ Spec => [][Synchronised]_vars
  BY <1>2, <1>3, <1>4, PTL DEF Spec
<1> QED
  BY <1>5 DEF Synchronised, UniversalEventSynchronised

-------------------------------------------------------------------------------
(* The output a forest is due at *)

(* The output times that neither an event, nor a transfer, nor the end of a forest
   comes in the way of: a forest that ends before an output meets no event between
   that output and the last; one that starts at an output, unless it is the last,
   meets no event before it; and no node moves at one but the last. *)
OutputsClear ==
  /\ \A f \in Forest, e \in Event, k \in 1 .. NOutputs :
       EndTime[f] < OutputTime[k] /\ OutputTime[k] <= e.time
         => OutputTime[NOutputs] <= e.time
  /\ \A f \in Forest, e \in Event, k \in 1 .. NOutputs :
       k # NOutputs /\ StartTime[f] = OutputTime[k] => OutputTime[k] <= e.time
  /\ \A x \in Transfers, k \in 1 .. NOutputs :
       k # NOutputs => x.time # OutputTime[k]

LEMMA OutputsInOrder ==
  ASSUME NEW i \in 1 .. NOutputs, NEW j \in 1 .. NOutputs
  PROVE  /\ OutputTime[i] \in Nat /\ OutputTime[j] \in Nat
         /\ i < j <=> OutputTime[i] < OutputTime[j]
         /\ i <= j <=> OutputTime[i] <= OutputTime[j]
<1>1. OutputTime[i] \in Nat /\ OutputTime[j] \in Nat /\ NOutputs \in Nat
  BY OutputTimes
<1>2. i < j => OutputTime[i] < OutputTime[j]
  BY OutputAssumption
<1>3. j < i => OutputTime[j] < OutputTime[i]
  BY OutputAssumption
<1>4. i < j \/ i = j \/ j < i
  BY <1>1
<1> QED
  BY <1>1, <1>2, <1>3, <1>4

LEMMA FirstDueIs ==
  ASSUME NEW f \in Forest
  PROVE  /\ FirstDue(f) \in 1 .. NOutputs + 1
         /\ \A i \in 1 .. NOutputs :
              i < FirstDue(f) <=> OutputTime[i] < StartTime[f]
<1> DEFINE S == {NOutputs + 1}
                  \union {i \in 1 .. NOutputs : OutputTime[i] >= StartTime[f]}
           d == Least(S)
<1>1. S \subseteq Nat /\ S # {} /\ NOutputs \in Nat /\ StartTime[f] \in Nat
  BY OutputTimes
<1>2. d \in S /\ \A y \in S : d <= y
  BY <1>1, LeastIsLeast
<1>3. FirstDue(f) = d
  BY DEF FirstDue
<1> HIDE DEF d
<1>4. d \in 1 .. NOutputs + 1
  BY <1>1, <1>2, OutputTimes
<1>5. ASSUME NEW i \in 1 .. NOutputs PROVE i < d <=> OutputTime[i] < StartTime[f]
  <2>1. OutputTime[i] \in Nat
    BY OutputTimes
  <2>2. i < d => OutputTime[i] < StartTime[f]
    <3>1. i < d => i \notin S
      BY <1>1, <1>2, <1>4
    <3> QED
      BY <1>1, <2>1, <3>1
  <2>3. ~(i < d) => ~(OutputTime[i] < StartTime[f])
    <3> SUFFICES ASSUME ~(i < d) PROVE ~(OutputTime[i] < StartTime[f])
      OBVIOUS
    <3>1. d \in 1 .. NOutputs /\ d <= i
      BY <1>1, <1>4
    <3>2. OutputTime[d] >= StartTime[f]
      BY <1>1, <1>2, <3>1
    <3>3. OutputTime[d] <= OutputTime[i] /\ OutputTime[d] \in Nat
      BY <3>1, OutputsInOrder
    <3> QED
      BY <1>1, <2>1, <3>2, <3>3
  <2> QED
    BY <2>2, <2>3
<1> QED
  BY <1>3, <1>4, <1>5

LEMMA TimeNextIs ==
  ASSUME NEW x \in Nat, x <= OutputTime[NOutputs]
  PROVE  /\ timeNext(x) \in 1 .. NOutputs
         /\ \A k \in 1 .. NOutputs : k < timeNext(x) => OutputTime[k] <= x
         /\ OutputTime[timeNext(x)] > x \/ timeNext(x) = NOutputs
<1> DEFINE S == {NOutputs} \union {i \in 1 .. NOutputs : OutputTime[i] > x}
           m == Least(S)
<1>1. S \subseteq 1 .. NOutputs /\ S \subseteq Nat /\ S # {}
  BY OutputTimes
<1>2. m \in S /\ \A y \in S : m <= y
  BY <1>1, LeastIsLeast
<1>3. timeNext(x) = m
  BY OutputTimes DEF timeNext
<1> HIDE DEF m
<1>4. \A k \in 1 .. NOutputs : k < m => OutputTime[k] <= x
  BY <1>1, <1>2, OutputTimes
<1> QED
  BY <1>1, <1>2, <1>3, <1>4

NextDue(f) == FirstDue(f) + Len(output[f])

(* A forest not yet taken, *)
Fresh(f) == output[f] = <<>> /\ time[f] = StartTime[f] /\ f \notin emptied

(* and one between the output it was written at last and the one it is due at; the
   last output is due until it is written. *)
Between(f) ==
  /\ NextDue(f) <= NOutputs
  /\ \A i \in 1 .. NOutputs : i < NextDue(f) => OutputTime[i] <= time[f]
  /\ \/ time[f] < OutputTime[NextDue(f)]
     \/ NextDue(f) = NOutputs /\ time[f] = OutputTime[NOutputs]

LEMMA NextDueIs ==
  ASSUME TypeInv, NEW f \in Forest
  PROVE  NextDue(f) \in Nat \ {0} /\ Len(output[f]) \in Nat /\ time[f] \in Nat
<1>1. output[f] \in Seq(1 .. NOutputs) /\ time[f] \in Nat
  BY DEF TypeInv, TypeOK, ForestsOK
<1>2. Len(output[f]) \in Nat
  BY <1>1
<1> QED
  BY <1>1, <1>2, FirstDueIs, OutputTimes DEF NextDue

(* The task plans a new tree from its first output on, *)
LEMMA PlanFresh ==
  ASSUME NEW f \in Forest, Fresh(f)
  PROVE  firstOutput(f, TRUE) = IF FirstDue(f) = NOutputs + 1 THEN 0 ELSE FirstDue(f)
<1> DEFINE d == FirstDue(f)
           s == StartTime[f]
           i == timeNext(s)
<1>1. /\ d \in 1 .. NOutputs + 1 /\ s \in Nat /\ NOutputs \in Nat \ {0}
      /\ \A k \in 1 .. NOutputs : (k < d <=> OutputTime[k] < s) /\ OutputTime[k] \in Nat
      /\ time[f] = s /\ f \notin emptied
  BY FirstDueIs, OutputTimes DEF Fresh
<1>2. firstOutput(f, TRUE) = IF i > 1 /\ s = OutputTime[i - 1] THEN i - 1 ELSE i
  BY <1>1 DEF firstOutput
<1>3. CASE d = NOutputs + 1
  <2>1. OutputTime[NOutputs] < s
    BY <1>1, <1>3
  <2>2. i = 0
    BY <1>1, <2>1 DEF timeNext
  <2>3. ~(i > 1)
    BY <2>2
  <2>4. firstOutput(f, TRUE) = 0
    BY <1>2, <2>2, <2>3, Zenon
  <2> QED
    BY <1>3, <2>4
<1>4. CASE d # NOutputs + 1
  <2>1. d \in 1 .. NOutputs /\ s <= OutputTime[d]
    BY <1>1, <1>4
  <2>2. s <= OutputTime[NOutputs]
    <3>1. OutputTime[d] <= OutputTime[NOutputs]
      BY <1>1, <2>1, OutputsInOrder
    <3> QED
      BY <1>1, <2>1, <3>1
  <2>3. /\ i \in 1 .. NOutputs
        /\ \A k \in 1 .. NOutputs : k < i => OutputTime[k] <= s
        /\ OutputTime[i] > s \/ i = NOutputs
    BY <1>1, <2>2, TimeNextIs
  <2> HIDE DEF d, s, i
  <2>4. CASE s < OutputTime[d]
    <3>1. i = d
      BY <1>1, <2>1, <2>3, <2>4
    <3>2. i > 1 => s # OutputTime[i - 1]
      BY <1>1, <2>1, <3>1
    <3> QED
      BY <1>1, <1>2, <1>4, <3>1, <3>2 DEF d
  <2>5. CASE s = OutputTime[d] /\ d = NOutputs
    <3>1. i = d
      <4>1. ~(OutputTime[i] > s)
        BY <1>1, <2>1, <2>3, <2>5, OutputsInOrder
      <4> QED
        BY <2>3, <2>5, <4>1
    <3>2. i > 1 => s # OutputTime[i - 1]
      BY <1>1, <2>1, <3>1
    <3> QED
      BY <1>1, <1>2, <1>4, <3>1, <3>2 DEF d
  <2>6. CASE s = OutputTime[d] /\ d # NOutputs
    <3>1. d < i
      BY <1>1, <2>1, <2>3, <2>6
    <3>2. d + 1 \in 1 .. NOutputs /\ OutputTime[d] < OutputTime[d + 1]
      <4>1. d + 1 \in 1 .. NOutputs
        BY <1>1, <2>1, <2>6
      <4> QED
        BY <2>1, <4>1, OutputsInOrder
    <3>3. i = d + 1
      <4>1. ~(d + 1 < i)
        BY <1>1, <2>3, <2>6, <3>2
      <4> QED
        BY <1>1, <2>3, <3>1, <4>1
    <3>4. i - 1 = d /\ i > 1
      BY <1>1, <3>3
    <3> QED
      BY <1>2, <1>4, <2>6, <3>4 DEF d
  <2>7. s < OutputTime[d] \/ s = OutputTime[d]
    BY <1>1, <2>1
  <2> QED
    BY <2>4, <2>5, <2>6, <2>7, Zenon
<1> QED
  BY <1>3, <1>4

(* and one that is resumed from the output it is due at. *)
LEMMA PlanBetween ==
  ASSUME TypeInv, NEW f \in Forest, f \notin emptied, Between(f)
  PROVE  firstOutput(f, FALSE) = NextDue(f) /\ NextDue(f) \in 1 .. NOutputs
<1> DEFINE n == NextDue(f)
           x == time[f]
           i == timeNext(x)
<1>1. /\ n \in 1 .. NOutputs /\ x \in Nat /\ NOutputs \in Nat
      /\ \A k \in 1 .. NOutputs : (k < n => OutputTime[k] <= x) /\ OutputTime[k] \in Nat
      /\ x < OutputTime[n] \/ (n = NOutputs /\ x = OutputTime[NOutputs])
  BY NextDueIs, OutputTimes DEF Between
<1>2. x <= OutputTime[NOutputs]
  <2>1. OutputTime[n] <= OutputTime[NOutputs] /\ NOutputs \in 1 .. NOutputs
    BY <1>1, OutputsInOrder
  <2> QED
    BY <1>1, <2>1
<1>3. /\ i \in 1 .. NOutputs
      /\ \A k \in 1 .. NOutputs : k < i => OutputTime[k] <= x
      /\ OutputTime[i] > x \/ i = NOutputs
  BY <1>1, <1>2, TimeNextIs
<1>4. firstOutput(f, FALSE) = i
  BY DEF firstOutput
<1> HIDE DEF n, x, i
<1>5. i = n
  BY <1>1, <1>3
<1> QED
  BY <1>1, <1>4, <1>5 DEF n

-------------------------------------------------------------------------------
(* Every output in turn *)

(* A forest that is not at its end waits for no node from another. *)
Quiet(f) ==
  /\ PullDue(f) = {}
  /\ \/ EndTime[f] <= time[f]
     \/ \A x \in Transfers : x.to = f => x \in pulled

(* A forest has come to output k, or has ended before it, with nothing to wait
   for. *)
Passed(f, k) ==
  \/ OutputTime[k] <= time[f]
  \/ EndTime[f] < OutputTime[k] /\ Quiet(f) /\ NoEventBefore(OutputTime[k])

(* It goes on to the next one that it is due at, and from there only if it is the
   last or no event comes before it. *)
PassedUpTo(f) == \A i \in 1 .. NOutputs : i < NextDue(f) => Passed(f, i)
NotBeyond(f) ==
  /\ NextDue(f) <= NOutputs
  /\ time[f] <= OutputTime[NextDue(f)]
  /\ time[f] = OutputTime[NextDue(f)] =>
       NextDue(f) = NOutputs \/ NoEventBefore(OutputTime[NextDue(f)])

Going(t) ==
  LET f == tree[t]
  IN  /\ PassedUpTo(f)
      /\ NotBeyond(f)
      /\ pc[t] \in Began /\ Hindered(t) => Between(f)
      /\ pc[t] \in {"record", "finalize"} => Hindered(t) \/ Passed(f, NextDue(f))

(* A tree that is no longer evolved to its outputs: it has no node left, or the
   program is about to stop. *)
GivenUp(f) == f \in emptied \/ deadlockReport

InPlace(t) ==
  LET f == tree[t]
  IN  /\ pc[t] = "resume" => ~treeIsNew[t]
      /\ pc[t] = "plan" => IF treeIsNew[t] THEN Fresh(f)
                                           ELSE f \in emptied \/ Between(f)
      /\ pc[t] \in Evolving => /\ f \in emptied \/ iOutput[t] = NextDue(f)
                               /\ GivenUp(f) \/ Going(t)
      /\ pc[t] = "release" => IF treeIsFinished[t]
                              THEN f \in emptied \/ NextDue(f) = NOutputs + 1
                              ELSE GivenUp(f) \/ Between(f)

StacksInPlace ==
  /\ \A f \in ElementsOf(universeWaiting) : f \in emptied \/ Between(f)
  /\ \A f \in ElementsOf(universeProcessed) : GivenUp(f) \/ Between(f)
Untouched == \A f \in Forest \ HandedOut : Fresh(f)
DoneInPlace ==
  \A f \in HandedOut \ (Held \union Suspended) : f \in emptied \/ NextDue(f) = NOutputs + 1

OutInv ==
  /\ OwnerInv /\ EventsInv /\ AimInv
  /\ \A t \in Threads : InPlace(t)
  /\ StacksInPlace /\ Untouched /\ DoneInPlace /\ EveryOutputInTurn

LEMMA NextDueSame ==
  ASSUME NEW f, Same(f)
  PROVE  /\ NextDue(f)' = NextDue(f)
         /\ Between(f)' <=> Between(f)
         /\ Fresh(f)' <=> Fresh(f)
BY DEF Same, NextDue, FirstDue, Between, Fresh

LEMMA PassedKept ==
  ASSUME NEW f, time'[f] = time[f], events' = events, pulled \subseteq pulled'
  PROVE  \A k : Passed(f, k) => Passed(f, k)'
<1>1. Quiet(f) => Quiet(f)'
  BY DEF Quiet, PullDue
<1>2. \A k : NoEventBefore(OutputTime[k]) => NoEventBefore(OutputTime[k])'
  BY DEF NoEventBefore
<1> QED
  BY <1>1, <1>2 DEF Passed

LEMMA OnTheWayKept ==
  ASSUME NEW f, Same(f), events' = events, pulled \subseteq pulled'
  PROVE  /\ PassedUpTo(f) => PassedUpTo(f)'
         /\ NotBeyond(f) => NotBeyond(f)'
         /\ Passed(f, NextDue(f)) => Passed(f, NextDue(f))'
<1>1. NextDue(f)' = NextDue(f) /\ time'[f] = time[f]
  BY NextDueSame DEF Same
<1>2. \A k : Passed(f, k) => Passed(f, k)'
  BY <1>1, PassedKept
<1>3. PassedUpTo(f) => PassedUpTo(f)'
  BY <1>1, <1>2 DEF PassedUpTo
<1>4. NotBeyond(f) => NotBeyond(f)'
  BY <1>1 DEF NotBeyond, NoEventBefore
<1>5. Passed(f, NextDue(f)) => Passed(f, NextDue(f))'
  <2>1. PICK n : n = NextDue(f)
    OBVIOUS
  <2>2. Passed(f, n) => Passed(f, n)'
    BY <1>2
  <2>3. Passed(f, NextDue(f))' <=> Passed(f, n)'
    BY <1>1, <2>1 DEF Passed, NoEventBefore
  <2> QED
    BY <2>1, <2>2, <2>3
<1> QED
  BY <1>3, <1>4, <1>5

LEMMA InPlaceKept ==
  ASSUME NEW t \in Threads, InPlace(t), Private(t)' = Private(t),
         deadlockReport => deadlockReport',
         pc[t] \in Holding => /\ Same(tree[t]) /\ events' = events
                              /\ pulled \subseteq pulled'
  PROVE  InPlace(t)'
<1>0. PICK f : f = tree[t]
  OBVIOUS
<1>1. /\ pc'[t] = pc[t] /\ tree'[t] = f /\ iOutput'[t] = iOutput[t]
      /\ treeIsNew'[t] = treeIsNew[t] /\ treeIsFinished'[t] = treeIsFinished[t]
      /\ evolutionIsEventLimited'[t] = evolutionIsEventLimited[t]
      /\ suspendTree'[t] = suspendTree[t]
  BY <1>0 DEF Private
<1>2. Hindered(t)' <=> Hindered(t)
  BY <1>1 DEF Hindered, Limited
<1>3. CASE pc[t] \in Holding
  <2>1. Same(f) /\ events' = events /\ pulled \subseteq pulled'
    BY <1>0, <1>3
  <2>2. /\ f \in emptied' <=> f \in emptied
        /\ GivenUp(f) => GivenUp(f)'
    BY <2>1 DEF Same, GivenUp
  <2>3. GivenUp(tree[t])' <=> f \in emptied' \/ deadlockReport'
    BY <1>1 DEF GivenUp
  <2>4. NextDue(f)' = NextDue(f) /\ (Between(f)' <=> Between(f)) /\ (Fresh(f)' <=> Fresh(f))
    BY <2>1, NextDueSame
  <2>5. Going(t) => Going(t)'
    <3>1. /\ PassedUpTo(f) => PassedUpTo(f)'
          /\ NotBeyond(f) => NotBeyond(f)'
          /\ Passed(f, NextDue(f)) => Passed(f, NextDue(f))'
      BY <2>1, OnTheWayKept
    <3> QED
      BY <1>0, <1>1, <1>2, <2>4, <3>1 DEF Going
  <2> QED
    BY <1>0, <1>1, <2>2, <2>3, <2>4, <2>5 DEF InPlace, GivenUp
<1>4. CASE pc[t] \notin Holding
  BY <1>1, <1>4 DEF InPlace, Holding, Evolving
<1> QED
  BY <1>3, <1>4

(* A forest that an event keeps from its output has not come to it, and has come
   to all before it. *)
LEMMA EventInTheWay ==
  ASSUME OutputsClear, TypeInv, NEW f \in Forest, PassedUpTo(f), NotBeyond(f),
         NEW i \in DOMAIN events, events[i].time < OutputTime[NextDue(f)]
  PROVE  Between(f)
<1> DEFINE n == NextDue(f)
           e == events[i]
<1>1. /\ n \in 1 .. NOutputs /\ NOutputs \in Nat /\ time[f] \in Nat
      /\ e \in Event /\ e.time \in Nat /\ EndTime[f] \in Nat
      /\ \A k \in 1 .. NOutputs : OutputTime[k] \in Nat
      /\ NOutputs \in 1 .. NOutputs
  BY NextDueIs, EventsTyped, OutputTimes DEF NotBeyond
<1>2. /\ time[f] <= OutputTime[n]
      /\ time[f] = OutputTime[n] => n = NOutputs \/ OutputTime[n] <= e.time
  BY DEF NotBeyond, NoEventBefore
<1>3. \A k \in 1 .. NOutputs : k < n =>
        \/ OutputTime[k] <= time[f]
        \/ EndTime[f] < OutputTime[k] /\ OutputTime[k] <= e.time
  BY DEF PassedUpTo, Passed, NoEventBefore
<1>4. OutputTime[n] <= OutputTime[NOutputs]
  BY <1>1, OutputsInOrder
<1>5. \A k \in 1 .. NOutputs :
        EndTime[f] < OutputTime[k] /\ OutputTime[k] <= e.time
          => OutputTime[NOutputs] <= e.time
  BY <1>1 DEF OutputsClear
<1>6. e.time < OutputTime[n]
  OBVIOUS
<1>7. Between(f) <=>
        /\ n <= NOutputs
        /\ \A k \in 1 .. NOutputs : k < n => OutputTime[k] <= time[f]
        /\ \/ time[f] < OutputTime[n]
           \/ n = NOutputs /\ time[f] = OutputTime[NOutputs]
  BY DEF Between
<1> HIDE DEF n, e
<1>8. \A k \in 1 .. NOutputs : k < n => OutputTime[k] <= time[f]
  BY <1>1, <1>3, <1>4, <1>5, <1>6
<1>9. \/ time[f] < OutputTime[n]
      \/ n = NOutputs /\ time[f] = OutputTime[NOutputs]
  BY <1>1, <1>2, <1>6
<1> QED
  BY <1>1, <1>7, <1>8, <1>9

(* Where the plan starts from. *)
LEMMA FreshOnTheWay ==
  ASSUME OutputsClear, TypeInv, NEW f \in Forest, Fresh(f), FirstDue(f) # NOutputs + 1
  PROVE  /\ NextDue(f) = FirstDue(f) /\ NextDue(f) \in 1 .. NOutputs
         /\ PassedUpTo(f) /\ NotBeyond(f)
<1> DEFINE d == FirstDue(f)
<1>1. /\ d \in 1 .. NOutputs /\ time[f] = StartTime[f] /\ NextDue(f) = d
      /\ StartTime[f] \in Nat
      /\ \A k \in 1 .. NOutputs : (k < d <=> OutputTime[k] < StartTime[f])
                                  /\ OutputTime[k] \in Nat
  <2>1. NOutputs \in Nat /\ d \in 1 .. NOutputs + 1
    BY FirstDueIs, OutputTimes
  <2>2. Len(output[f]) = 0
    BY DEF Fresh
  <2> QED
    BY <2>1, <2>2, FirstDueIs, OutputTimes DEF Fresh, NextDue
<1> HIDE DEF d
<1>2. PassedUpTo(f)
  BY <1>1 DEF PassedUpTo, Passed
<1>3. NotBeyond(f)
  <2>1. ASSUME StartTime[f] = OutputTime[d], d # NOutputs, NEW i \in DOMAIN events
        PROVE  OutputTime[d] <= events[i].time
    BY <1>1, <2>1, EventsTyped DEF OutputsClear
  <2>2. d <= NOutputs /\ StartTime[f] <= OutputTime[d]
    BY <1>1, OutputTimes
  <2> QED
    BY <1>1, <2>1, <2>2 DEF NotBeyond, NoEventBefore
<1> QED
  BY <1>1, <1>2, <1>3 DEF d

LEMMA BetweenOnTheWay ==
  ASSUME TypeInv, NEW f \in Forest, Between(f)
  PROVE  PassedUpTo(f) /\ NotBeyond(f)
<1>1. NextDue(f) \in 1 .. NOutputs /\ time[f] \in Nat
  BY NextDueIs, OutputTimes DEF Between
<1>2. OutputTime[NextDue(f)] \in Nat
  BY <1>1, OutputTimes
<1>3. PassedUpTo(f)
  BY DEF Between, PassedUpTo, Passed
<1>4. NotBeyond(f)
  BY <1>1, <1>2 DEF Between, NotBeyond
<1> QED
  BY <1>3, <1>4

LEMMA PlanInPlace ==
  ASSUME OutputsClear, TypeInv, NEW t \in Threads, InPlace(t), Plan(t)
  PROVE  InPlace(t)'
<1>0. PICK f : f = tree[t]
  OBVIOUS
<1>1. PICK i : i = firstOutput(f, treeIsNew[t])
  OBVIOUS
<1>2. pc[t] = "plan" /\ f \in Forest /\ treeIsNew[t] \in BOOLEAN
  <2>1. pc[t] = "plan"
    BY DEF Plan
  <2> QED
    BY <1>0, <2>1, ThreadTypes DEF Holding
<1>3. /\ pc'[t] = IF i = 0 THEN "release" ELSE "limit"
      /\ treeIsFinished'[t] = (i = 0)
      /\ i # 0 => iOutput'[t] = i
      /\ tree'[t] = f /\ UNCHANGED <<forests, events, pulled, deadlockReport>>
  BY <1>0, <1>1, ThreadTypes DEF Plan
<1>4. /\ NextDue(f)' = NextDue(f) /\ emptied' = emptied
      /\ PassedUpTo(f) => PassedUpTo(f)'
      /\ NotBeyond(f) => NotBeyond(f)'
  <2>1. Same(f)
    BY <1>3 DEF Same
  <2> QED
    BY <1>3, <2>1, NextDueSame, OnTheWayKept
<1>5. \/ f \in emptied /\ i = 0
      \/ NextDue(f) = NOutputs + 1 /\ i = 0
      \/ /\ NextDue(f) = i /\ i # 0
         /\ PassedUpTo(f) /\ NotBeyond(f)
  <2>1. CASE f \in emptied
    BY <1>1, <2>1 DEF firstOutput
  <2>2. CASE treeIsNew[t]
    <3>1. Fresh(f) /\ i = IF FirstDue(f) = NOutputs + 1 THEN 0 ELSE FirstDue(f)
      BY <1>0, <1>1, <1>2, <2>2, PlanFresh DEF InPlace
    <3>2. CASE FirstDue(f) = NOutputs + 1
      <4>1. Len(output[f]) = 0 /\ NOutputs \in Nat
        BY <3>1, OutputTimes DEF Fresh
      <4> QED
        BY <3>1, <3>2, <4>1 DEF NextDue
    <3>3. CASE FirstDue(f) # NOutputs + 1
      BY <1>2, <3>1, <3>3, FreshOnTheWay
    <3> QED
      BY <3>2, <3>3
  <2>3. CASE ~treeIsNew[t] /\ f \notin emptied
    <3>1. Between(f) /\ treeIsNew[t] = FALSE
      BY <1>0, <1>2, <2>3 DEF InPlace
    <3>2. i = NextDue(f) /\ NextDue(f) \in 1 .. NOutputs
      BY <1>1, <1>2, <2>3, <3>1, PlanBetween
    <3>3. PassedUpTo(f) /\ NotBeyond(f)
      BY <1>2, <3>1, BetweenOnTheWay
    <3>4. i # 0
      BY <3>2
    <3> QED
      BY <3>2, <3>3, <3>4
  <2> QED
    BY <2>1, <2>2, <2>3
<1> QED
  BY <1>3, <1>4, <1>5 DEF InPlace, Going, Evolving, Began

LEMMA LimitInPlace ==
  ASSUME OutputsClear, TypeInv, NEW t \in Threads, InPlace(t), Limit(t)
  PROVE  InPlace(t)'
<1> DEFINE target == OutputTime[iOutput[t]]
           before == EventBefore(target)
           first  == Least(before \union {target})
<1>0. PICK f : f = tree[t]
  OBVIOUS
<1>1. pc[t] = "limit" /\ f \in Forest /\ target \in Nat
  <2>1. pc[t] = "limit"
    BY DEF Limit
  <2> QED
    BY <1>0, <2>1, ThreadTypes DEF Evolving, Holding
<1>2. before # {} => \E i \in DOMAIN events : events[i].time < target
  BY <1>1, FirstEventBefore
<1>3. /\ pc'[t] = "begin" /\ evolutionIsEventLimited'[t] = (before # {})
      /\ tree'[t] = f /\ UNCHANGED <<plan, forests, events, pulled, deadlockReport>>
  BY <1>0, ThreadTypes DEF Limit
<1> HIDE DEF before, first
<1>4. /\ NextDue(f)' = NextDue(f) /\ emptied' = emptied
      /\ Between(f)' <=> Between(f)
      /\ PassedUpTo(f) => PassedUpTo(f)'
      /\ NotBeyond(f) => NotBeyond(f)'
  <2>1. Same(f)
    BY <1>3 DEF Same
  <2> QED
    BY <1>3, <2>1, NextDueSame, OnTheWayKept
<1>5. Hindered(t)' <=> before # {}
  BY <1>3 DEF Hindered
<1>6. CASE f \in emptied \/ deadlockReport
  BY <1>0, <1>1, <1>3, <1>4, <1>6 DEF InPlace, GivenUp, Evolving
<1>7. CASE ~(f \in emptied \/ deadlockReport)
  <2>1. iOutput[t] = NextDue(f) /\ PassedUpTo(f) /\ NotBeyond(f)
    BY <1>0, <1>1, <1>7 DEF InPlace, Going, GivenUp, Evolving
  <2>2. before # {} => Between(f)
    BY <1>1, <1>2, <2>1, EventInTheWay
  <2> QED
    BY <1>3, <1>4, <1>5, <2>1, <2>2 DEF InPlace, Going, Evolving
<1> QED
  BY <1>6, <1>7

(* As a forest advances to its target, what it has passed stays passed. *)
LEMMA AdvancePassed ==
  ASSUME TypeInv, NEW f \in Forest, time[f] < EndTime[f], time'[f] = time[f] + 1,
         UNCHANGED <<events, pulled>>
  PROVE  \A k \in 1 .. NOutputs : Passed(f, k) => Passed(f, k)'
<1>1. time[f] \in Nat /\ EndTime[f] \in Nat /\ \A k \in 1 .. NOutputs : OutputTime[k] \in Nat
  BY OutputTimes DEF TypeInv, TypeOK, ForestsOK
<1>2. Quiet(f) => Quiet(f)'
  <2> SUFFICES ASSUME Quiet(f) PROVE Quiet(f)'
    OBVIOUS
  <2>1. \A x \in Transfers : x.to = f => x \in pulled
    BY <1>1 DEF Quiet
  <2> QED
    BY <2>1 DEF Quiet, PullDue
<1> QED
  BY <1>1, <1>2 DEF Passed, NoEventBefore

LEMMA EvolveInPlace ==
  ASSUME OutputsClear, TypeInv, NEW t \in Threads, Aims(t), InPlace(t), Evolve(t)
  PROVE  InPlace(t)'
<1>0. PICK f : f = tree[t]
  OBVIOUS
<1>1. pc[t] \in {"begin", "evolve"}
  BY DEF Evolve, EvolveBegin, EvolveAdvance, EvolvePush, EvolvePull, EvolveSuspend,
     EvolveEnd
<1>2. /\ f \in Forest /\ time[f] \in Nat /\ EndTime[f] \in Nat
      /\ evolveToTime[t] \in Nat /\ iOutput[t] \in 1 .. NOutputs
      /\ OutputTime[iOutput[t]] \in Nat
      /\ pc[t] \in Began /\ pc[t] \in Evolving
  BY <1>0, <1>1, ThreadTypes DEF Holding, Evolving, Began
<1>3. /\ tree'[t] = f /\ iOutput' = iOutput
      /\ UNCHANGED <<evolutionIsEventLimited, emptied, output, events, deadlockReport>>
      /\ pulled \subseteq pulled'
  BY <1>0 DEF Evolve, EvolveBegin, EvolveAdvance, EvolvePush, EvolvePull, EvolveSuspend,
     EvolveEnd
<1>4. NextDue(f)' = NextDue(f)
  BY <1>3 DEF NextDue, FirstDue
<1>5. f \in emptied \/ iOutput[t] = NextDue(f)
  BY <1>0, <1>2 DEF InPlace
<1>6. CASE f \in emptied \/ deadlockReport
  <2>1. pc'[t] \in {"evolve", "record"}
    BY <1>1, <1>2, ThreadTypes DEF Evolve, EvolveBegin, EvolveAdvance, EvolvePush,
       EvolvePull, EvolveSuspend, EvolveEnd
  <2> QED
    BY <1>3, <1>4, <1>5, <1>6, <2>1 DEF InPlace, GivenUp
<1>7. CASE ~(f \in emptied \/ deadlockReport)
  <2>0. iOutput[t] = NextDue(f) /\ f \notin emptied
    BY <1>5, <1>7
  <2>1. /\ PassedUpTo(f) /\ NotBeyond(f)
        /\ evolutionIsEventLimited[t] => Between(f)
    BY <1>0, <1>1, <1>2, <1>7 DEF InPlace, GivenUp, Going, Hindered
  <2>2. /\ NoEventBefore(evolveToTime[t])
        /\ ~evolutionIsEventLimited[t] => evolveToTime[t] = OutputTime[NextDue(f)]
        /\ evolutionIsEventLimited[t] => evolveToTime[t] < OutputTime[NextDue(f)]
        /\ pc[t] = "evolve" => ~suspendTree[t]
    BY <1>1, <1>2, <2>0 DEF Aims, Hindered
  <2>3. ASSUME pc'[t] \in {"evolve", "record"}, PassedUpTo(f)', NotBeyond(f)',
               Hindered(t)' => Between(f)',
               pc'[t] = "record" => Hindered(t)' \/ Passed(f, NextDue(f))'
        PROVE  InPlace(t)'
    BY <1>3, <1>4, <2>0, <2>3 DEF InPlace, Going
  <2>4. ASSUME UNCHANGED time
        PROVE  /\ PassedUpTo(f)' /\ NotBeyond(f)' /\ (Between(f)' <=> Between(f))
               /\ Passed(f, NextDue(f)) => Passed(f, NextDue(f))'
    <3>1. Same(f)
      BY <1>3, <2>4 DEF Same
    <3> QED
      BY <1>3, <2>1, <3>1, NextDueSame, OnTheWayKept
  <2>5. NoEventBefore(OutputTime[NextDue(f)]) \/ evolutionIsEventLimited[t]
    BY <2>2
  <2>6. CASE EvolveBegin(t)
    <3>1. /\ \/ pc'[t] = "evolve"
             \/ /\ pc'[t] = "record"
                /\ evolveToTime[t] > EndTime[f] /\ ~HasInterTreeEvent(f)
          /\ suspendTree'[t] = FALSE /\ UNCHANGED time
      BY <1>0, <2>0, <2>6, ThreadTypes DEF EvolveBegin
    <3>2. Hindered(t)' <=> evolutionIsEventLimited[t]
      BY <1>3, <3>1 DEF Hindered, Limited
    <3>3. ASSUME evolveToTime[t] > EndTime[f], ~HasInterTreeEvent(f)
          PROVE  evolutionIsEventLimited[t] \/ Passed(f, NextDue(f))
      <4>1. Quiet(f)
        BY <3>3 DEF HasInterTreeEvent, Quiet, PullDue
      <4> QED
        BY <2>2, <2>5, <3>3, <4>1 DEF Passed
    <3> QED
      BY <2>1, <2>3, <2>4, <3>1, <3>2, <3>3
  <2>7. CASE EvolveAdvance(t)
    <3>1. /\ pc' = pc /\ pc[t] = "evolve"
          /\ time'[f] = time[f] + 1 /\ ~AtTarget(t) /\ UNCHANGED <<events, pulled>>
      BY <1>0, <1>2, <2>7, ThreadTypes DEF EvolveAdvance
    <3>2. time[f] < evolveToTime[t] /\ time[f] < EndTime[f]
      BY <1>0, <1>2, <3>1, FinalTimeIs
    <3>3. \A k \in 1 .. NOutputs : Passed(f, k) => Passed(f, k)'
      BY <1>2, <3>1, <3>2, AdvancePassed
    <3>4. PassedUpTo(f)'
      BY <1>4, <2>1, <3>3 DEF PassedUpTo
    <3>5. NotBeyond(f)'
      BY <1>2, <1>4, <2>0, <2>1, <2>2, <3>1, <3>2 DEF NotBeyond, NoEventBefore
    <3>6. evolutionIsEventLimited[t] => Between(f)'
      BY <1>2, <1>4, <2>0, <2>1, <2>2, <3>1, <3>2, OutputTimes DEF Between
    <3>7. Hindered(t)' <=> evolutionIsEventLimited[t]
      BY <1>3, <3>1 DEF Hindered
    <3> QED
      BY <2>3, <3>1, <3>4, <3>5, <3>6, <3>7
  <2>8. CASE EvolvePush(t) \/ EvolvePull(t)
    <3>1. pc' = pc /\ pc[t] = "evolve" /\ UNCHANGED time
      BY <2>8 DEF EvolvePush, EvolvePull
    <3>2. Hindered(t)' <=> evolutionIsEventLimited[t]
      BY <1>3, <3>1 DEF Hindered
    <3> QED
      BY <2>1, <2>3, <2>4, <3>1, <3>2
  <2>9. CASE EvolveSuspend(t)
    <3>1. /\ pc'[t] = "record" /\ suspendTree'[t] = ~deadlockReport /\ UNCHANGED time
          /\ PullDue(f) # {}
      BY <1>0, <2>9, ThreadTypes DEF EvolveSuspend, Due
    <3>2. Hindered(t)'
      BY <1>7, <3>1 DEF Hindered, Limited
    <3>3. PICK x \in Transfers : x.time = time[f]
      BY <3>1 DEF PullDue
    <3>4. NextDue(f) = NOutputs \/ time[f] # OutputTime[NextDue(f)]
      BY <1>2, <2>0, <3>3 DEF OutputsClear
    <3>5. \A i \in 1 .. NOutputs : i < NextDue(f) => OutputTime[i] <= time[f]
      BY <2>1, <3>1 DEF PassedUpTo, Passed, Quiet
    <3>6. Between(f)
      BY <1>2, <2>0, <2>1, <3>4, <3>5 DEF Between, NotBeyond
    <3> QED
      BY <2>3, <2>4, <3>1, <3>2, <3>6
  <2>10. CASE EvolveEnd(t)
    <3>1. /\ pc[t] = "evolve" /\ pc'[t] = "record" /\ UNCHANGED <<time, suspendTree>>
          /\ AtTarget(t) /\ Due(t, PullDue(f)) = {}
      BY <1>0, <2>10, ThreadTypes DEF EvolveEnd
    <3>2. Hindered(t)' <=> evolutionIsEventLimited[t]
      BY <1>3, <2>2, <3>1 DEF Hindered, Limited
    <3>3. evolveToTime[t] <= time[f] \/ EndTime[f] <= time[f]
      BY <1>0, <1>2, <3>1, FinalTimeIs
    <3>4. ASSUME ~evolutionIsEventLimited[t], ~(evolveToTime[t] <= time[f])
          PROVE  Quiet(f)
      <4>1. \A x \in PullDue(f) : x.time = time[f]
        BY DEF PullDue
      <4>2. time[f] <= evolveToTime[t]
        BY <1>2, <3>4
      <4>3. PullDue(f) = {}
        BY <3>1, <4>1, <4>2 DEF Due
      <4> QED
        BY <3>3, <3>4, <4>3 DEF Quiet
    <3>5. evolutionIsEventLimited[t] \/ Passed(f, NextDue(f))
      BY <1>2, <2>0, <2>2, <2>5, <3>3, <3>4 DEF Passed
    <3> QED
      BY <2>1, <2>3, <2>4, <3>1, <3>2, <3>5
  <2> QED
    BY <2>6, <2>7, <2>8, <2>9, <2>10 DEF Evolve
<1> QED
  BY <1>6, <1>7

LEMMA FetchInPlace ==
  ASSUME OwnerInv, StacksInPlace, Untouched, NEW t \in Threads, InPlace(t), Fetch(t)
  PROVE  InPlace(t)'
<1>0. TypeInv
  BY DEF OwnerInv, TeamInv
<1>1. CASE FetchNew(t)
  <2>1. PICK f : f = forestNumber + 1
    OBVIOUS
  <2>2. /\ pc'[t] = "plan" /\ tree'[t] = f /\ treeIsNew'[t] = TRUE
        /\ UNCHANGED <<time, output, emptied>> /\ forestNumber < NForests
    BY <1>0, <1>1, <2>1, ThreadTypes DEF FetchNew, WorkLeft
  <2>3. f \in Forest \ HandedOut
    BY <1>0, <2>1, <2>2 DEF TypeInv, TypeOK, UniverseOK, HandedOut, Forest
  <2>4. Fresh(f)'
    BY <2>2, <2>3 DEF Untouched, Fresh
  <2> QED
    BY <2>2, <2>4 DEF InPlace, Evolving
<1>2. CASE FetchNone(t)
  <2>1. pc'[t] = "resume" /\ treeIsNew'[t] = FALSE
    BY <1>0, <1>2, ThreadTypes DEF FetchNone
  <2> QED
    BY <2>1 DEF InPlace, Evolving
<1>3. CASE Resume(t)
  <2>1. PICK f : f = Head(universeWaiting)
    OBVIOUS
  <2>2. /\ pc[t] = "resume" /\ pc'[t] = "plan" /\ tree'[t] = f /\ treeIsNew' = treeIsNew
        /\ UNCHANGED <<time, output, emptied>> /\ universeWaiting # <<>>
    BY <1>0, <1>3, <2>1, ThreadTypes DEF Resume
  <2>3. f \in ElementsOf(universeWaiting)
    BY <1>0, <2>1, <2>2, TailElements
       DEF TypeInv, TypeOK, UniverseOK, OwnerInv, OneOwner
  <2>4. f \in emptied \/ Between(f)
    BY <2>3 DEF StacksInPlace
  <2>5. f \in emptied' \/ Between(f)'
    BY <2>2, <2>4 DEF Between, NextDue, FirstDue
  <2>6. ~treeIsNew'[t]
    BY <2>2 DEF InPlace
  <2> QED
    BY <2>2, <2>5, <2>6 DEF InPlace, Evolving
<1>4. CASE ResumeNone(t)
  <2>1. pc'[t] = "passEnd"
    BY <1>0, <1>4, ThreadTypes DEF ResumeNone
  <2> QED
    BY <2>1 DEF InPlace, Evolving
<1> QED
  BY <1>1, <1>2, <1>3, <1>4 DEF Fetch

LEMMA FinalizeInPlace ==
  ASSUME TypeInv, NEW t \in Threads, Aims(t), InPlace(t), Finalize(t)
  PROVE  InPlace(t)'
<1>0. PICK f : f = tree[t]
  OBVIOUS
<1>1. CASE Record(t)
  <2>1. /\ pc[t] = "record" /\ pc'[t] = "finalize" /\ tree'[t] = f
        /\ evolutionIsEventLimited'[t] = Limited(t)
        /\ UNCHANGED <<plan, time, output, pulled, events, deadlockReport>>
        /\ emptied \subseteq emptied'
    BY <1>0, <1>1, ThreadTypes DEF Record
  <2>2. Hindered(t)' <=> Hindered(t)
    BY <2>1 DEF Hindered
  <2>3. /\ NextDue(f)' = NextDue(f) /\ (Between(f)' <=> Between(f))
    BY <2>1 DEF NextDue, FirstDue, Between
  <2>4. \A k : Passed(f, k) => Passed(f, k)'
    BY <2>1, PassedKept
  <2>5. /\ PassedUpTo(f) => PassedUpTo(f)'
        /\ NotBeyond(f) => NotBeyond(f)'
    BY <2>1, <2>3, <2>4 DEF PassedUpTo, NotBeyond, NoEventBefore
  <2>6. Passed(f, NextDue(f)) => Passed(f, NextDue(f))'
    <3>1. PICK n : n = NextDue(f)
      OBVIOUS
    <3>2. Passed(f, n) => Passed(f, n)'
      BY <2>4
    <3>3. Passed(f, NextDue(f))' <=> Passed(f, n)'
      BY <2>3, <3>1 DEF Passed, NoEventBefore
    <3> QED
      BY <3>1, <3>2, <3>3
  <2>7. Going(t) => Going(t)'
    BY <1>0, <2>1, <2>2, <2>3, <2>5, <2>6 DEF Going, Began, Evolving
  <2> QED
    BY <1>0, <2>1, <2>3, <2>7 DEF InPlace, GivenUp, Evolving
<1>2. CASE FinalizeShort(t)
  <2>1. /\ pc' = pc \/ (pc'[t] = "release" /\ deadlockReport)
        /\ UNCHANGED <<events, pulled, forests, loop, plan, limit, deadlockReport>>
    BY <1>2, ThreadTypes DEF FinalizeShort
  <2>2. CASE pc' = pc
    BY <2>1, <2>2, InPlaceKept DEF Private, Same
  <2>3. CASE pc'[t] = "release" /\ deadlockReport
    <3>1. ~treeIsFinished[t]
      BY <1>2 DEF Aims, Evolving, FinalizeShort
    <3> QED
      BY <2>1, <2>3, <3>1 DEF InPlace, GivenUp, Evolving
  <2> QED
    BY <2>1, <2>2, <2>3
<1>3. CASE FinalizeLimited(t)
  <2>1. /\ pc[t] = "finalize" /\ evolutionIsEventLimited[t] /\ pc'[t] = "release"
        /\ tree'[t] = f /\ ~treeIsFinished[t]
        /\ UNCHANGED <<forests, plan, deadlockReport>>
    BY <1>0, <1>3, ThreadTypes DEF FinalizeLimited, Aims, Evolving
  <2>2. GivenUp(f) \/ Between(f)
    BY <1>0, <2>1 DEF InPlace, Going, Hindered, Evolving, Began
  <2>3. GivenUp(f)' \/ Between(f)'
    BY <2>1, <2>2 DEF GivenUp, Between, NextDue, FirstDue
  <2> QED
    BY <2>1, <2>3 DEF InPlace, Evolving
<1>4. CASE FinalizeOutput(t)
  <2>1. /\ pc[t] = "finalize" /\ ~evolutionIsEventLimited[t] /\ tree'[t] = f
        /\ pc'[t] = IF iOutput[t] = NOutputs THEN "release" ELSE "limit"
        /\ iOutput'[t] = iOutput[t] + 1 /\ treeIsFinished'[t] = (iOutput[t] = NOutputs)
        /\ UNCHANGED <<time, emptied, events, pulled, deadlockReport>>
    BY <1>0, <1>4, ThreadTypes DEF FinalizeOutput
  <2>2. f \in Forest /\ iOutput[t] \in 1 .. NOutputs
    BY <1>0, <2>1, ThreadTypes DEF Evolving, Holding
  <2>3. CASE f \in emptied
    BY <2>1, <2>3 DEF InPlace, GivenUp, Evolving
  <2>4. CASE f \notin emptied
    <3>1. /\ output'[f] = Append(output[f], iOutput[t]) /\ output[f] \in Seq(1 .. NOutputs)
      BY <1>0, <1>4, <2>2, <2>4, ThreadTypes DEF FinalizeOutput
    <3>2. Len(output'[f]) = Len(output[f]) + 1 /\ Len(output[f]) \in Nat
      BY <2>2, <3>1, AppendProperties
    <3>3. NextDue(f)' = NextDue(f) + 1
      <4>1. FirstDue(f)' = FirstDue(f) /\ FirstDue(f) \in Nat
        BY <2>2, FirstDueIs, OutputTimes DEF FirstDue
      <4> QED
        BY <3>2, <4>1 DEF NextDue
    <3>4. iOutput[t] = NextDue(f)
      BY <1>0, <2>1, <2>4 DEF InPlace, Evolving
    <3>5. CASE iOutput[t] = NOutputs
      BY <2>1, <3>3, <3>4, <3>5 DEF InPlace, Evolving
    <3>6. CASE iOutput[t] # NOutputs /\ deadlockReport
      BY <2>1, <3>3, <3>4, <3>6 DEF InPlace, GivenUp, Evolving
    <3>7. CASE iOutput[t] # NOutputs /\ ~deadlockReport
      <4>1. PassedUpTo(f) /\ NotBeyond(f) /\ Passed(f, NextDue(f))
        BY <1>0, <2>1, <2>4, <3>7 DEF InPlace, GivenUp, Going, Hindered, Evolving
      <4>2. \A k : Passed(f, k) => Passed(f, k)'
        BY <2>1, PassedKept
      <4>3. ASSUME NEW i \in 1 .. NOutputs, i < NextDue(f) + 1
            PROVE  Passed(f, i)'
        <5>1. i < NextDue(f) \/ i = NextDue(f)
          BY <2>2, <3>4, <4>3
        <5> QED
          BY <4>1, <4>2, <4>3, <5>1 DEF PassedUpTo
      <4>4. PassedUpTo(f)'
        BY <3>3, <4>3 DEF PassedUpTo
      <4>5. NextDue(f) + 1 \in 1 .. NOutputs /\ NextDue(f) \in 1 .. NOutputs
        BY <2>2, <3>4, <3>7, OutputTimes
      <4>6. /\ OutputTime[NextDue(f)] < OutputTime[NextDue(f) + 1]
            /\ OutputTime[NextDue(f)] \in Nat /\ OutputTime[NextDue(f) + 1] \in Nat
        BY <4>5, OutputsInOrder
      <4>7. time[f] < OutputTime[NextDue(f) + 1] /\ time[f] \in Nat
        BY <2>2, <4>1, <4>6, NextDueIs DEF NotBeyond
      <4>8. NotBeyond(f)'
        BY <2>1, <3>3, <4>5, <4>6, <4>7 DEF NotBeyond
      <4> QED
        BY <2>1, <3>3, <3>4, <3>7, <4>4, <4>8 DEF InPlace, Going, Evolving, Began
    <3> QED
      BY <3>5, <3>6, <3>7
  <2> QED
    BY <2>3, <2>4
<1>5. CASE Destroy(t) \/ Suspend(t)
  <2>1. pc'[t] = "fetch"
    BY <1>5, ThreadTypes DEF Destroy, Suspend
  <2> QED
    BY <2>1 DEF InPlace, Evolving
<1> QED
  BY <1>1, <1>2, <1>3, <1>4, <1>5 DEF Finalize

LEMMA StepInPlace ==
  ASSUME OutputsClear, OutInv, [Next]_vars, NEW t \in Threads
  PROVE  InPlace(t)'
<1>1. /\ TypeInv /\ Aims(t) /\ InPlace(t) /\ OwnerInv /\ StacksInPlace /\ Untouched
  BY DEF OutInv, AimInv, OwnerInv, TeamInv
<1>2. CASE ThreadStep(t)
  <2>1. CASE Decide(t)
    <3>1. pc'[t] = "trigger"
      BY <1>1, <2>1, ThreadTypes DEF Decide
    <3> QED
      BY <3>1 DEF InPlace, Evolving
  <2> QED
    BY <1>1, <1>2, <2>1, FetchInPlace, PlanInPlace, LimitInPlace, EvolveInPlace,
       FinalizeInPlace DEF ThreadStep
<1>3. ASSUME NEW u \in Threads, ThreadStep(u), u # t PROVE InPlace(t)'
  BY <1>1, <1>3, OthersKept, InPlaceKept
<1>4. CASE TeamStep
  <2>1. CASE pc'[t] \notin Holding \union {"resume"}
    BY <2>1 DEF InPlace, Holding, Evolving
  <2>2. CASE pc'[t] \in Holding \union {"resume"}
    <3>1. /\ Private(t)' = Private(t) /\ UNCHANGED <<forests, pulled>>
          /\ deadlockReport => deadlockReport'
          /\ pc[t] \in Holding => events' = events
      <4>1. Private(t)' = Private(t) /\ UNCHANGED <<forests, pulled>>
            /\ (deadlockReport => deadlockReport')
            /\ (events' = events \/ pc'[t] \notin Holding)
        BY <1>1, <1>4, <2>2, TeamStepFrames
      <4> QED
        BY <4>1 DEF Private
    <3> QED
      BY <1>1, <3>1, InPlaceKept DEF Same
  <2> QED
    BY <2>1, <2>2
<1> QED
  BY <1>2, <1>3, <1>4, NextIsThreadOrTeam

LEMMA StepStacksInPlace ==
  ASSUME OutInv, [Next]_vars
  PROVE  StacksInPlace'
<1>1. /\ TypeInv /\ OwnerInv /\ StacksInPlace
      /\ universeProcessed \in Seq(Forest) /\ universeWaiting \in Seq(Forest)
  BY DEF OutInv, OwnerInv, TeamInv, TypeInv, TypeOK, UniverseOK
<1>2. \A g \in Suspended : g \in Forest /\ \A t \in Threads : g # tree[t]
  <2> SUFFICES ASSUME NEW g \in Suspended
               PROVE  g \in Forest /\ \A t \in Threads : g # tree[t]
    OBVIOUS
  <2>1. g \in Forest
    <3>1. ASSUME NEW q \in Seq(Forest), g \in ElementsOf(q) PROVE g \in Forest
      <4>1. PICK i \in DOMAIN q : g = q[i]
        BY <3>1, Zenon DEF ElementsOf
      <4> QED
        BY <4>1
    <3> QED
      BY <1>1, <3>1 DEF Suspended
  <2>2. g # NoTree /\ g \notin Held
    BY <1>1, <2>1 DEF OwnerInv, OneOwner
  <2> QED
    BY <2>1, <2>2 DEF Held
<1>3. ASSUME NEW t \in Threads, ThreadStep(t) PROVE StacksInPlace'
  <2>1. deadlockReport' = deadlockReport
    BY <1>1, <1>3, ThreadStepFrames DEF Frame
  <2>2. ASSUME NEW g \in Suspended
        PROVE  /\ g \in emptied' <=> g \in emptied
               /\ Between(g)' <=> Between(g)
               /\ GivenUp(g)' <=> GivenUp(g)
    <3>1. Same(g)
      BY <1>1, <1>2, <1>3, ThreadStepFrames, FrameSame
    <3> QED
      BY <2>1, <3>1, NextDueSame DEF Same, GivenUp
  <2>3. /\ \A f \in ElementsOf(universeWaiting) : f \in emptied' \/ Between(f)'
        /\ \A f \in ElementsOf(universeProcessed) : GivenUp(f)' \/ Between(f)'
    BY <1>1, <2>2 DEF StacksInPlace, Suspended
  <2>4. CASE UNCHANGED <<universeWaiting, universeProcessed>>
    BY <2>3, <2>4 DEF StacksInPlace, GivenUp
  <2>5. CASE Resume(t)
    <3>1. /\ universeWaiting' = Tail(universeWaiting) /\ universeWaiting # <<>>
          /\ universeProcessed' = universeProcessed
      BY <2>5 DEF Resume, PopTree
    <3>2. ElementsOf(universeWaiting') \subseteq ElementsOf(universeWaiting)
      BY <1>1, <3>1, TailElements DEF OwnerInv, OneOwner
    <3> QED
      BY <2>3, <3>1, <3>2 DEF StacksInPlace, GivenUp
  <2>6. CASE Suspend(t)
    <3>1. PICK f : f = tree[t]
      OBVIOUS
    <3>2. /\ pc[t] = "release" /\ ~treeIsFinished[t] /\ universeWaiting' = universeWaiting
          /\ universeProcessed' = Append(universeProcessed, f)
          /\ UNCHANGED <<time, output, emptied, deadlockReport>>
      BY <2>6, <3>1 DEF Suspend, PushTree
    <3>3. f \in Forest
      BY <1>1, <3>1, <3>2, ThreadTypes DEF Holding
    <3>4. ElementsOf(universeProcessed') = ElementsOf(universeProcessed) \union {f}
      BY <1>1, <3>2, <3>3, AppendElements
    <3>5. GivenUp(f) \/ Between(f)
      BY <3>1, <3>2 DEF OutInv, InPlace
    <3>6. GivenUp(f)' \/ Between(f)'
      BY <3>2, <3>5 DEF GivenUp, Between, NextDue, FirstDue
    <3> QED
      BY <2>3, <3>2, <3>4, <3>6 DEF StacksInPlace, GivenUp
  <2>7. UNCHANGED <<universeWaiting, universeProcessed>> \/ Resume(t) \/ Suspend(t)
    BY <1>3 DEF ThreadStep, Fetch, FetchNew, FetchNone, ResumeNone, Plan, Limit,
       Evolve, EvolveBegin, EvolveAdvance, EvolvePush, EvolvePull, EvolveSuspend,
       EvolveEnd, Finalize, Record, FinalizeShort, FinalizeLimited, FinalizeOutput,
       Destroy, Decide
  <2> QED
    BY <2>4, <2>5, <2>6, <2>7
<1>4. CASE TeamStep
  <2>1. UNCHANGED forests /\ (deadlockReport => deadlockReport')
    BY <1>1, <1>4, TeamStepFrames
  <2>2. \A f : /\ f \in emptied' <=> f \in emptied
               /\ Between(f)' <=> Between(f)
               /\ GivenUp(f) => GivenUp(f)'
    BY <2>1 DEF GivenUp, Between, NextDue, FirstDue
  <2>3. CASE UNCHANGED <<universeWaiting, universeProcessed>>
    <3>1. /\ \A f \in ElementsOf(universeWaiting) : f \in emptied' \/ Between(f)'
          /\ \A f \in ElementsOf(universeProcessed) : GivenUp(f)' \/ Between(f)'
      BY <1>1, <2>2 DEF StacksInPlace
    <3> QED
      BY <2>3, <3>1 DEF StacksInPlace, GivenUp
  <2>4. CASE /\ MasterTransfers
             /\ universeWaiting' = universeProcessed /\ universeProcessed' = <<>>
    <3>1. ~deadlockReport
      BY <2>4 DEF MasterTransfers
    <3>2. \A f \in ElementsOf(universeProcessed) : f \in emptied' \/ Between(f)'
      BY <1>1, <2>2, <3>1 DEF StacksInPlace, GivenUp
    <3> QED
      BY <2>4, <3>2, EmptyElements DEF StacksInPlace
  <2> QED
    BY <1>4, <2>3, <2>4 DEF TeamStep, MasterStep, MasterStops, MasterTransfers, Reset,
       PassBarrier, vars
<1> QED
  BY <1>3, <1>4, NextIsThreadOrTeam

LEMMA StepUntouched ==
  ASSUME OutInv, [Next]_vars
  PROVE  Untouched'
<1>1. /\ TypeInv /\ OwnerInv /\ Untouched
  BY DEF OutInv, OwnerInv, TeamInv
<1>2. HandedOut \subseteq HandedOut'
  <2>1. forestNumber \in Nat /\ forestNumber' \in {forestNumber, forestNumber + 1}
    <3>1. ASSUME NEW t \in Threads, ThreadStep(t), ~FetchNew(t)
          PROVE  UNCHANGED forestNumber
      BY <3>1 DEF ThreadStep, Fetch, FetchNone, Resume, ResumeNone, Plan, Limit,
         Evolve, EvolveBegin, EvolveAdvance, EvolvePush, EvolvePull, EvolveSuspend,
         EvolveEnd, Finalize, Record, FinalizeShort, FinalizeLimited, FinalizeOutput,
         Destroy, Suspend, Decide
    <3>2. TeamStep => UNCHANGED forestNumber
      BY <1>1, TeamStepFrames
    <3>3. UNCHANGED forestNumber \/ \E t \in Threads : FetchNew(t)
      BY <3>1, <3>2, NextIsThreadOrTeam
    <3> QED
      BY <1>1, <3>3 DEF FetchNew, TypeInv, TypeOK, UniverseOK
  <2> QED
    BY <2>1 DEF HandedOut
<1>3. ASSUME NEW f \in Forest \ HandedOut PROVE Fresh(f)'
  <2>1. Fresh(f)
    BY <1>1 DEF Untouched
  <2>2. ASSUME NEW t \in Threads, ThreadStep(t) PROVE Fresh(f)'
    <3>1. f # tree[t]
      BY <1>1 DEF OwnerInv, Places
    <3> QED
      BY <1>1, <2>1, <2>2, <3>1, ThreadStepFrames, FrameSame, NextDueSame
  <2>3. CASE TeamStep
    <3>1. Same(f)
      BY <1>1, <2>3, TeamStepFrames DEF Same
    <3> QED
      BY <2>1, <3>1, NextDueSame
  <2> QED
    BY <2>2, <2>3, NextIsThreadOrTeam
<1> QED
  BY <1>2, <1>3 DEF Untouched

LEMMA StepDoneInPlace ==
  ASSUME OutInv, [Next]_vars
  PROVE  DoneInPlace'
<1>1. /\ TypeInv /\ OwnerInv /\ DoneInPlace
      /\ universeProcessed \in Seq(Forest) /\ universeWaiting \in Seq(Forest)
      /\ tree \in [Threads -> Forest \union {NoTree}]
      /\ forestNumber \in Nat /\ forestNumber <= NForests
  BY DEF OutInv, OwnerInv, TeamInv, TypeInv, TypeOK, UniverseOK, ThreadsOK
<1>2. HandedOut \subseteq Forest
  BY <1>1 DEF HandedOut, Forest
<1>3. ASSUME NEW t \in Threads, ThreadStep(t) PROVE DoneInPlace'
  <2>1. ASSUME NEW f \in HandedOut, f \notin Held \union Suspended
        PROVE  (f \in emptied \/ NextDue(f) = NOutputs + 1)'
    <3>1. f # tree[t] /\ f \in Forest
      BY <1>2, <2>1 DEF Held
    <3>2. Same(f)
      BY <1>1, <1>3, <3>1, ThreadStepFrames, FrameSame
    <3> QED
      BY <1>1, <2>1, <3>2, NextDueSame DEF DoneInPlace, Same
  <2>2. CASE Held \union Suspended \subseteq Held' \union Suspended' /\ HandedOut' = HandedOut
    BY <2>1, <2>2 DEF DoneInPlace
  <2>3. CASE FetchNew(t)
    <3>1. /\ tree' = [tree EXCEPT ![t] = forestNumber'] /\ forestNumber' = forestNumber + 1
          /\ tree[t] = NoTree /\ UNCHANGED stacks /\ forestNumber < NForests
      BY <1>1, <2>3 DEF FetchNew, WorkLeft, OwnerInv, Places, Holding, Evolving
    <3>2. forestNumber' \in Forest /\ HandedOut' = HandedOut \union {forestNumber'}
      BY <1>1, <3>1 DEF Forest, HandedOut
    <3>3. Held \union {forestNumber'} \subseteq Held' /\ Suspended' = Suspended
      BY <1>1, <3>1, <3>2 DEF Held, Suspended
    <3> QED
      BY <2>1, <3>2, <3>3 DEF DoneInPlace
  <2>4. CASE Resume(t)
    <3>1. PICK g : g = Head(universeWaiting)
      OBVIOUS
    <3>2. /\ tree' = [tree EXCEPT ![t] = g] /\ tree[t] = NoTree
          /\ universeWaiting' = Tail(universeWaiting) /\ universeWaiting # <<>>
          /\ UNCHANGED <<universeProcessed, forestNumber>>
      BY <1>1, <2>4, <3>1 DEF Resume, PopTree, OwnerInv, Places, Holding, Evolving
    <3>3. g \in ElementsOf(universeWaiting)
          /\ ElementsOf(universeWaiting') = ElementsOf(universeWaiting) \ {g}
      BY <1>1, <3>1, <3>2, TailElements DEF OwnerInv, OneOwner
    <3>4. g # NoTree
      BY <1>1, <1>2, <3>3 DEF OwnerInv, Places, Suspended
    <3>5. Held \union {g} \subseteq Held' /\ HandedOut' = HandedOut
      BY <1>1, <3>2, <3>4 DEF Held, HandedOut
    <3> QED
      BY <2>2, <3>2, <3>3, <3>5 DEF Suspended
  <2>5. CASE Suspend(t)
    <3>1. PICK g : g = tree[t]
      OBVIOUS
    <3>2. /\ tree' = [tree EXCEPT ![t] = NoTree] /\ pc[t] = "release"
          /\ universeProcessed' = Append(universeProcessed, g)
          /\ UNCHANGED <<universeWaiting, forestNumber>>
      BY <2>5, <3>1 DEF Suspend, PushTree
    <3>3. g \in Forest
      BY <1>1, <3>1, <3>2, ThreadTypes DEF Holding
    <3>4. ElementsOf(universeProcessed') = ElementsOf(universeProcessed) \union {g}
      BY <1>1, <3>2, <3>3, AppendElements
    <3>5. Held \subseteq Held' \union {g} /\ HandedOut' = HandedOut
      BY <1>1, <3>1, <3>2 DEF Held, HandedOut
    <3> QED
      BY <2>2, <3>2, <3>4, <3>5 DEF Suspended
  <2>6. CASE Destroy(t)
    <3>1. PICK g : g = tree[t]
      OBVIOUS
    <3>2. /\ tree' = [tree EXCEPT ![t] = NoTree] /\ pc[t] = "release" /\ treeIsFinished[t]
          /\ UNCHANGED <<stacks, forestNumber, emptied, output>>
      BY <2>6 DEF Destroy
    <3>3. g \in emptied \/ NextDue(g) = NOutputs + 1
      BY <3>1, <3>2 DEF OutInv, InPlace
    <3>4. (g \in emptied \/ NextDue(g) = NOutputs + 1)'
      BY <3>2, <3>3 DEF NextDue, FirstDue
    <3>5. Held \subseteq Held' \union {g} /\ HandedOut' = HandedOut /\ Suspended' = Suspended
      BY <1>1, <3>1, <3>2 DEF Held, HandedOut, Suspended
    <3> QED
      BY <2>1, <3>4, <3>5 DEF DoneInPlace
  <2>7. CASE UNCHANGED <<tree, stacks, forestNumber>>
    BY <2>2, <2>7 DEF Held, Suspended, HandedOut
  <2>8. \/ FetchNew(t) \/ Resume(t) \/ Suspend(t) \/ Destroy(t)
        \/ UNCHANGED <<tree, stacks, forestNumber>>
    BY <1>3 DEF ThreadStep, Fetch, FetchNone, ResumeNone, Plan, Limit,
       Evolve, EvolveBegin, EvolveAdvance, EvolvePush, EvolvePull, EvolveSuspend,
       EvolveEnd, Finalize, Record, FinalizeShort, FinalizeLimited, FinalizeOutput,
       Decide
  <2> QED
    BY <2>3, <2>4, <2>5, <2>6, <2>7, <2>8
<1>4. CASE TeamStep
  <2>1. UNCHANGED <<tree, forests, forestNumber>>
    BY <1>1, <1>4, TeamStepFrames
  <2>2. Suspended' = Suspended
    <3>1. CASE UNCHANGED stacks
      BY <3>1 DEF Suspended
    <3>2. CASE /\ MasterTransfers
               /\ universeWaiting' = universeProcessed /\ universeProcessed' = <<>>
      <4>1. universeWaiting = <<>>
        BY <1>1, <3>2 DEF MasterTransfers, OwnerInv, TeamInv, Exhausted
      <4> QED
        BY <3>2, <4>1, EmptyElements DEF Suspended
    <3> QED
      BY <1>4, <3>1, <3>2 DEF TeamStep, MasterStep, MasterStops, MasterTransfers, Reset,
         PassBarrier, vars
  <2>3. \A f : NextDue(f)' = NextDue(f)
    BY <2>1 DEF NextDue, FirstDue
  <2> QED
    BY <1>1, <2>1, <2>2, <2>3 DEF DoneInPlace, Held, HandedOut
<1> QED
  BY <1>3, <1>4, NextIsThreadOrTeam

LEMMA StepEveryOutput ==
  ASSUME OutInv, [Next]_vars
  PROVE  EveryOutputInTurn'
<1>1. /\ TypeInv /\ TypeInv' /\ OwnerInv /\ EveryOutputInTurn
  BY StepTypeInv DEF OutInv, OwnerInv, TeamInv
<1>2. SUFFICES ASSUME NEW f \in Forest
               PROVE  \A i \in DOMAIN output'[f] : output'[f][i] = FirstDue(f) + i - 1
  BY DEF EveryOutputInTurn, FirstDue
<1>3. CASE output'[f] = output[f]
  BY <1>1, <1>3 DEF EveryOutputInTurn
<1>4. CASE output'[f] # output[f]
  <2>1. PICK t \in Threads : FinalizeOutput(t) /\ tree[t] = f /\ f \notin emptied
    BY <1>1, <1>4, WhoWrites
  <2>2. PICK k : k = iOutput[t]
    OBVIOUS
  <2>3. pc[t] = "finalize" /\ k \in 1 .. NOutputs /\ output[f] \in Seq(1 .. NOutputs)
    <3>1. pc[t] = "finalize"
      BY <2>1 DEF FinalizeOutput
    <3> QED
      BY <1>1, <2>2, <3>1, ThreadTypes DEF Evolving
  <2>4. output'[f] = Append(output[f], k)
    <3>1. output' = [output EXCEPT ![f] = Append(@, k)] /\ output \in [Forest -> Seq(1 .. NOutputs)]
      BY <1>1, <2>1, <2>2, ThreadTypes DEF FinalizeOutput
    <3> QED
      BY <3>1
  <2>5. k = FirstDue(f) + Len(output[f])
    BY <2>1, <2>2, <2>3 DEF OutInv, InPlace, NextDue, Evolving
  <2>6. Len(output[f]) \in Nat /\ FirstDue(f) \in Nat
    BY <2>3, FirstDueIs, OutputTimes
  <2>7. /\ Append(output[f], k) \in Seq(1 .. NOutputs)
        /\ Len(Append(output[f], k)) = Len(output[f]) + 1
        /\ \A i \in 1 .. Len(output[f]) : Append(output[f], k)[i] = output[f][i]
        /\ Append(output[f], k)[Len(output[f]) + 1] = k
        /\ DOMAIN output[f] = 1 .. Len(output[f])
        /\ DOMAIN Append(output[f], k) = 1 .. Len(output[f]) + 1
    BY <2>3, AppendProperties, LenProperties
  <2>8. ASSUME NEW i \in 1 .. Len(output[f]) + 1
        PROVE  output'[f][i] = FirstDue(f) + i - 1
    <3>1. CASE i \in 1 .. Len(output[f])
      BY <1>1, <2>4, <2>7, <3>1 DEF EveryOutputInTurn
    <3>2. CASE i = Len(output[f]) + 1
      BY <2>4, <2>5, <2>6, <2>7, <3>2
    <3> QED
      BY <2>6, <3>1, <3>2
  <2> QED
    BY <2>4, <2>7, <2>8
<1> QED
  BY <1>3, <1>4

LEMMA StepOutInv == OutputsClear /\ OutInv /\ [Next]_vars => OutInv'
<1> SUFFICES ASSUME OutputsClear, OutInv, [Next]_vars PROVE OutInv'
  OBVIOUS
<1>1. OwnerInv' /\ EventsInv' /\ AimInv'
  BY StepOwnerInv, StepEventsInv, StepAimInv DEF OutInv, OwnerInv, TeamInv
<1>2. \A t \in Threads : InPlace(t)'
  BY StepInPlace
<1> QED
  BY <1>1, <1>2, StepStacksInPlace, StepUntouched, StepDoneInPlace, StepEveryOutput
     DEF OutInv

LEMMA InitOutInv == Init => OutInv
<1> SUFFICES ASSUME Init PROVE OutInv
  OBVIOUS
<1>1. OwnerInv /\ EventsInv /\ AimInv
  BY InitOwnerInv, InitEventsInv, InitAimInv
<1>2. \A t \in Threads : InPlace(t)
  BY DEF Init, InPlace, Evolving
<1>3. StacksInPlace
  BY EmptyElements DEF Init, StacksInPlace
<1>4. Untouched
  BY DEF Init, Untouched, Fresh
<1>5. DoneInPlace
  BY DEF Init, DoneInPlace, HandedOut
<1>6. EveryOutputInTurn
  BY DEF Init, EveryOutputInTurn
<1> QED
  BY <1>1, <1>2, <1>3, <1>4, <1>5, <1>6 DEF OutInv

(* A forest is output at each output time from its first on, in order, never twice
   and with none skipped, whichever threads evolve it and however often it is
   suspended and resumed: unless an event or a transfer comes at an output. *)
THEOREM OutputsInTurn == OutputsClear /\ Spec => []EveryOutputInTurn
<1>1. OutputsClear /\ OutInv => EveryOutputInTurn
  BY DEF OutInv
<1>2. OutputsClear /\ Init => OutputsClear /\ OutInv
  BY InitOutInv
<1>3. (OutputsClear /\ OutInv) /\ [Next]_vars => (OutputsClear /\ OutInv)'
  BY StepOutInv DEF OutputsClear
<1> QED
  BY <1>1, <1>2, <1>3, PTL DEF Spec

LEMMA DoneIsComplete ==
  ASSUME OutInv, NEW f \in HandedOut \ (Held \union Suspended)
  PROVE  Complete(f)
<1>1. TypeInv /\ f \in Forest
  BY DEF OutInv, OwnerInv, TeamInv, TypeInv, TypeOK, UniverseOK, HandedOut, Forest
<1>2. FirstDue(f) \in Nat /\ Len(output[f]) \in Nat /\ NOutputs \in Nat
  BY <1>1, NextDueIs, FirstDueIs, OutputTimes
<1>3. f \in emptied \/ FirstDue(f) + Len(output[f]) = NOutputs + 1
  BY DEF OutInv, DoneInPlace, NextDue
<1> QED
  BY <1>2, <1>3 DEF Complete

(* No tree is lost: one that was handed out and is neither held nor suspended has
   had its last output written, or has no node left. *)
THEOREM TreesKept == OutputsClear /\ Spec => []NoTreeLost
<1>1. OutputsClear /\ OutInv => NoTreeLost
  BY DoneIsComplete DEF NoTreeLost, HandedOut
<1>2. OutputsClear /\ Init => OutputsClear /\ OutInv
  BY InitOutInv
<1>3. (OutputsClear /\ OutInv) /\ [Next]_vars => (OutputsClear /\ OutInv)'
  BY StepOutInv DEF OutputsClear
<1> QED
  BY <1>1, <1>2, <1>3, PTL DEF Spec

-------------------------------------------------------------------------------
(* Every node arrives *)

(* A node that moves arrives in a forest of the run, within its times. *)
NodesMeet ==
  \A x \in Transfers : /\ x.to \in Forest
                       /\ StartTime[x.to] <= x.time
                       /\ x.time <= EndTime[x.to]

(* Those that are to arrive in a forest by the last output have done so. *)
AllArrived(f) ==
  \A x \in Transfers : x.to = f /\ x.time <= OutputTime[NOutputs] => x \in pulled

(* A forest does not go beyond the time of a node it has yet to be sent, and is not
   emptied before. *)
NodesInOrder ==
  /\ waitList \intersect pulled = {}
  /\ \A x \in waitList : x.time <= OutputTime[NOutputs]
  /\ \A x \in Transfers : x.to \in Forest => x \in pulled \/ time[x.to] <= x.time
  /\ \A f \in emptied : AllArrived(f)

(* Neither does a thread write it, nor finish with it. *)
NoneMissing(t) ==
  /\ pc[t] \in {"record", "finalize"} /\ ~Hindered(t) =>
       GivenUp(tree[t]) \/ Due(t, PullDue(tree[t])) = {}
  /\ pc[t] = "release" /\ treeIsFinished[t] => GivenUp(tree[t]) \/ AllArrived(tree[t])

LEMMA LastOutput ==
  ASSUME NEW i \in 1 .. NOutputs
  PROVE  /\ OutputTime[NOutputs] \in Nat /\ OutputTime[i] \in Nat
         /\ OutputTime[i] <= OutputTime[NOutputs]
<1>1. NOutputs \in 1 .. NOutputs /\ i <= NOutputs
  BY OutputTimes
<1> QED
  BY <1>1, OutputsInOrder

LEMMA TransferTypes ==
  ASSUME NEW x \in Transfers PROVE x.time \in Nat /\ x.to \in Nat
BY TransferAssumption

LEMMA StepNodesInOrder ==
  ASSUME OwnerInv, AimInv, NodesInOrder, [Next]_vars
  PROVE  NodesInOrder'
<1>1. TypeInv
  BY DEF OwnerInv, TeamInv
<1>2. CASE UNCHANGED <<nodes, time, emptied>>
  BY <1>2 DEF NodesInOrder, AllArrived
<1>3. ASSUME NEW t \in Threads, EvolveAdvance(t) PROVE NodesInOrder'
  <2>1. PICK f : f = tree[t]
    OBVIOUS
  <2>2. /\ pc[t] = "evolve" /\ UNCHANGED <<nodes, emptied>> /\ ~AtTarget(t)
        /\ Due(t, PullDue(f)) = {} /\ time' = [time EXCEPT ![f] = @ + 1]
    BY <1>3, <2>1 DEF EvolveAdvance
  <2>3. f \in Forest /\ time \in [Forest -> Nat] /\ time[f] < evolveToTime[t]
        /\ evolveToTime[t] \in Nat
    BY <1>1, <2>1, <2>2, ThreadTypes, FinalTimeIs DEF Holding, Evolving
  <2>4. ASSUME NEW x \in Transfers, x.to \in Forest, x \notin pulled
        PROVE  time'[x.to] <= x.time
    <3>1. time[x.to] <= x.time /\ x.time \in Nat
      BY <2>4, TransferTypes DEF NodesInOrder
    <3>2. CASE x.to = f
      <4>1. time[f] # x.time
        BY <2>2, <2>3, <2>4, <3>2 DEF Due, PullDue
      <4> QED
        BY <2>2, <2>3, <3>1, <3>2, <4>1
    <3> QED
      BY <2>2, <2>3, <2>4, <3>1, <3>2
  <2> QED
    BY <2>2, <2>4 DEF NodesInOrder, AllArrived
<1>4. ASSUME NEW t \in Threads, EvolvePush(t) PROVE NodesInOrder'
  <2>1. PICK x \in Due(t, PushDue(tree[t])) : waitList' = waitList \union {x}
    BY <1>4 DEF EvolvePush
  <2>2. pc[t] = "evolve" /\ UNCHANGED <<pulled, time, emptied>>
    BY <1>4 DEF EvolvePush
  <2>3. x \in Transfers /\ x \notin waitList \union pulled /\ x.time <= evolveToTime[t]
    BY <2>1 DEF Due, PushDue
  <2>4. x.time <= OutputTime[NOutputs]
    <3>1. evolveToTime[t] <= OutputTime[iOutput[t]]
      BY <2>2 DEF AimInv, Aims, Began, Evolving
    <3>2. iOutput[t] \in 1 .. NOutputs /\ evolveToTime[t] \in Nat /\ x.time \in Nat
      BY <1>1, <2>2, <2>3, ThreadTypes, TransferTypes DEF Evolving
    <3> QED
      BY <2>3, <3>1, <3>2, LastOutput
  <2> QED
    BY <2>1, <2>2, <2>3, <2>4 DEF NodesInOrder, AllArrived
<1>5. ASSUME NEW t \in Threads, EvolvePull(t) PROVE NodesInOrder'
  <2>1. PICK x \in waitList : /\ waitList' = waitList \ {x}
                              /\ pulled' = pulled \union {x}
    BY <1>5 DEF EvolvePull
  <2>2. UNCHANGED <<time, emptied>>
    BY <1>5 DEF EvolvePull
  <2> QED
    BY <2>1, <2>2 DEF NodesInOrder, AllArrived
<1>6. ASSUME NEW t \in Threads, Record(t) PROVE NodesInOrder'
  <2>1. UNCHANGED <<nodes, time>> /\ emptied' \subseteq emptied \union Remnant(t)
    BY <1>6 DEF Record
  <2>2. \A f \in Remnant(t) : AllArrived(f)
    BY DEF Remnant, HasInterTreeEvent, AllArrived
  <2> QED
    BY <2>1, <2>2 DEF NodesInOrder, AllArrived
<1>7. ASSUME NEW t \in Threads, ThreadStep(t)
      PROVE  \/ UNCHANGED <<nodes, time, emptied>> \/ Record(t)
             \/ EvolveAdvance(t) \/ EvolvePush(t) \/ EvolvePull(t)
  BY <1>7 DEF ThreadStep, Fetch, FetchNew, FetchNone, Resume, ResumeNone, Plan, Limit,
     Evolve, EvolveBegin, EvolveSuspend, EvolveEnd, Finalize, FinalizeShort,
     FinalizeLimited, FinalizeOutput, Destroy, Suspend, Decide
<1>8. TeamStep => UNCHANGED <<nodes, time, emptied>>
  BY DEF TeamStep, MasterStep, MasterStops, MasterTransfers, Reset, PassBarrier, vars
<1> QED
  BY <1>2, <1>3, <1>4, <1>5, <1>6, <1>7, <1>8, NextIsThreadOrTeam

LEMMA NoneMissingKept ==
  ASSUME NEW t \in Threads, NoneMissing(t), Private(t)' = Private(t),
         deadlockReport => deadlockReport',
         pc[t] \in Holding => Same(tree[t]) /\ pulled \subseteq pulled'
  PROVE  NoneMissing(t)'
<1>0. PICK f : f = tree[t]
  OBVIOUS
<1>1. /\ pc'[t] = pc[t] /\ tree'[t] = f /\ evolveToTime'[t] = evolveToTime[t]
      /\ treeIsFinished'[t] = treeIsFinished[t] /\ suspendTree'[t] = suspendTree[t]
      /\ evolutionIsEventLimited'[t] = evolutionIsEventLimited[t]
  BY <1>0 DEF Private
<1>2. Hindered(t)' <=> Hindered(t)
  BY <1>1 DEF Hindered, Limited
<1>3. CASE pc[t] \in Holding
  <2>1. Same(f) /\ pulled \subseteq pulled'
    BY <1>0, <1>3
  <2>2. GivenUp(tree[t]) => GivenUp(tree[t])'
    BY <1>0, <1>1, <2>1 DEF GivenUp, Same
  <2>3. Due(t, PullDue(tree[t])) = {} => Due(t, PullDue(tree[t]))' = {}
    BY <1>0, <1>1, <2>1 DEF Due, PullDue, Same
  <2>4. AllArrived(tree[t]) => AllArrived(tree[t])'
    BY <1>0, <1>1, <2>1 DEF AllArrived
  <2> QED
    BY <1>1, <1>2, <2>2, <2>3, <2>4 DEF NoneMissing
<1>4. CASE pc[t] \notin Holding
  BY <1>1, <1>4 DEF NoneMissing, Holding, Evolving
<1> QED
  BY <1>3, <1>4

(* A forest that has come to the last output, or has ended before it, waits for no
   node. *)
LEMMA LastOutputArrived ==
  ASSUME OutputsClear, NodesMeet, TypeInv, NodesInOrder, NEW t \in Threads, Aims(t),
         InPlace(t), NoneMissing(t), FinalizeOutput(t), iOutput[t] = NOutputs
  PROVE  GivenUp(tree[t]) \/ AllArrived(tree[t])
<1>0. PICK f : f = tree[t]
  OBVIOUS
<1>1. pc[t] = "finalize" /\ ~Hindered(t) /\ f \in Forest /\ pc[t] \in Began
      /\ pc[t] \in Evolving
  BY <1>0, ThreadTypes DEF FinalizeOutput, Hindered, Holding, Evolving, Began
<1> SUFFICES ASSUME ~GivenUp(f) PROVE AllArrived(f)
  BY <1>0
<1>2. evolveToTime[t] = OutputTime[NOutputs] /\ Due(t, PullDue(f)) = {}
  BY <1>0, <1>1 DEF Aims, NoneMissing
<1>3. NextDue(f) = NOutputs
  BY <1>0, <1>1 DEF InPlace, GivenUp
<1>4. Passed(f, NOutputs)
  <2>1. Going(t)
    BY <1>0, <1>1 DEF InPlace
  <2> QED
    BY <1>0, <1>1, <1>3, <2>1 DEF Going
<1>5. NOutputs \in 1 .. NOutputs
  BY OutputTimes
<1>6. SUFFICES ASSUME NEW x \in Transfers, x.to = f, x.time <= OutputTime[NOutputs],
                      x \notin pulled
               PROVE  FALSE
  BY DEF AllArrived
<1>7. /\ x.time \in Nat /\ time[f] \in Nat /\ EndTime[f] \in Nat
      /\ OutputTime[NOutputs] \in Nat
  BY <1>1, <1>5, TransferTypes, LastOutput, ThreadTypes
<1>8. time[f] <= x.time /\ x.time <= EndTime[f]
  BY <1>1, <1>6 DEF NodesInOrder, NodesMeet
<1>9. CASE OutputTime[NOutputs] <= time[f]
  <2>1. x.time = time[f]
    BY <1>6, <1>7, <1>8, <1>9
  <2> QED
    BY <1>2, <1>6, <2>1 DEF Due, PullDue
<1>10. CASE Quiet(f)
  <2>1. EndTime[f] <= time[f] /\ PullDue(f) = {}
    BY <1>6, <1>10 DEF Quiet
  <2>2. x.time = time[f]
    BY <1>7, <1>8, <2>1
  <2> QED
    BY <1>6, <2>1, <2>2 DEF PullDue
<1> QED
  BY <1>4, <1>9, <1>10 DEF Passed

LEMMA FinalizeNoneMissing ==
  ASSUME OutputsClear, NodesMeet, TypeInv, NodesInOrder, NEW t \in Threads, Aims(t),
         InPlace(t), NoneMissing(t), Finalize(t)
  PROVE  NoneMissing(t)'
<1>0. PICK f : f = tree[t]
  OBVIOUS
<1>1. CASE Record(t)
  <2>1. /\ pc[t] = "record" /\ pc'[t] = "finalize" /\ tree'[t] = f
        /\ evolutionIsEventLimited'[t] = Limited(t)
        /\ UNCHANGED <<evolveToTime, time, pulled, deadlockReport>>
        /\ emptied \subseteq emptied'
    BY <1>0, <1>1, ThreadTypes DEF Record
  <2>2. Hindered(t)' <=> Hindered(t)
    BY <2>1 DEF Hindered
  <2>3. GivenUp(tree[t]) => GivenUp(tree[t])'
    BY <1>0, <2>1 DEF GivenUp
  <2>4. Due(t, PullDue(tree[t])) = {} => Due(t, PullDue(tree[t]))' = {}
    BY <1>0, <2>1 DEF Due, PullDue
  <2> QED
    BY <2>1, <2>2, <2>3, <2>4 DEF NoneMissing
<1>2. CASE FinalizeShort(t) \/ FinalizeLimited(t)
  <2>1. UNCHANGED <<treeIsFinished, tree, evolveToTime, evolutionIsEventLimited, time,
                    pulled, emptied, deadlockReport>>
        /\ pc[t] = "finalize" /\ (UNCHANGED pc \/ pc'[t] = "release")
    BY <1>2, ThreadTypes DEF FinalizeShort, FinalizeLimited
  <2>2. ~treeIsFinished[t]
    BY <2>1 DEF Aims, Evolving
  <2>3. CASE pc'[t] = "release"
    BY <2>1, <2>2, <2>3 DEF NoneMissing
  <2>4. CASE UNCHANGED pc
    BY <2>1, <2>4 DEF NoneMissing, Hindered, GivenUp, Due, PullDue
  <2> QED
    BY <2>1, <2>3, <2>4
<1>3. CASE FinalizeOutput(t)
  <2>1. /\ pc'[t] = IF iOutput[t] = NOutputs THEN "release" ELSE "limit"
        /\ UNCHANGED <<tree, emptied, deadlockReport, pulled>>
    BY <1>3, ThreadTypes DEF FinalizeOutput
  <2>2. CASE iOutput[t] = NOutputs
    BY <1>3, <2>1, <2>2, LastOutputArrived DEF NoneMissing, GivenUp, AllArrived
  <2> QED
    BY <2>1, <2>2 DEF NoneMissing
<1>4. CASE Destroy(t) \/ Suspend(t)
  <2>1. pc'[t] = "fetch"
    BY <1>4, ThreadTypes DEF Destroy, Suspend
  <2> QED
    BY <2>1 DEF NoneMissing
<1> QED
  BY <1>1, <1>2, <1>3, <1>4 DEF Finalize

LEMMA PlanNoneMissing ==
  ASSUME NodesMeet, TypeInv, NEW t \in Threads, InPlace(t), Plan(t)
  PROVE  NoneMissing(t)'
<1>0. PICK f : f = tree[t]
  OBVIOUS
<1>a. PICK i : i = firstOutput(f, treeIsNew[t])
  OBVIOUS
<1>1. /\ pc[t] = "plan" /\ UNCHANGED <<tree, forests, nodes, deadlockReport>>
      /\ pc'[t] = IF i = 0 THEN "release" ELSE "limit"
  BY <1>0, <1>a, ThreadTypes DEF Plan
<1>2. f \in Forest /\ treeIsNew[t] \in BOOLEAN
  BY <1>0, <1>1, ThreadTypes DEF Holding
<1>3. CASE i = 0 /\ treeIsNew[t]
  <2>1. Fresh(f)
    BY <1>0, <1>1, <1>3 DEF InPlace
  <2>2. FirstDue(f) = NOutputs + 1 /\ NOutputs \in 1 .. NOutputs
    <3>1. FirstDue(f) \in 1 .. NOutputs + 1 /\ NOutputs \in 1 .. NOutputs
      BY <1>2, FirstDueIs, OutputTimes
    <3>2. i = IF FirstDue(f) = NOutputs + 1 THEN 0 ELSE FirstDue(f)
      BY <1>a, <1>2, <1>3, <2>1, PlanFresh
    <3> QED
      BY <1>3, <3>1, <3>2
  <2>3. OutputTime[NOutputs] < StartTime[f]
    BY <1>2, <2>2, FirstDueIs, OutputTimes
  <2>4. ASSUME NEW x \in Transfers, x.to = f PROVE ~(x.time <= OutputTime[NOutputs])
    <3>1. StartTime[f] <= x.time /\ StartTime[f] \in Nat /\ x.time \in Nat
      BY <1>2, <2>4, TransferTypes, ForestAssumption DEF NodesMeet
    <3>2. OutputTime[NOutputs] \in Nat
      BY <2>2, LastOutput
    <3> QED
      BY <2>3, <3>1, <3>2
  <2>5. AllArrived(f)'
    BY <1>1, <2>4 DEF AllArrived
  <2> QED
    BY <1>0, <1>1, <2>5 DEF NoneMissing
<1>4. CASE i = 0 /\ ~treeIsNew[t]
  <2>1. f \in emptied \/ Between(f)
    BY <1>0, <1>1, <1>4 DEF InPlace
  <2>2. f \in emptied
    <3>1. f \notin emptied => i = NextDue(f) /\ NextDue(f) \in 1 .. NOutputs
      BY <1>a, <1>2, <1>4, <2>1, PlanBetween
    <3>2. 0 \notin 1 .. NOutputs
      OBVIOUS
    <3> QED
      BY <1>4, <3>1, <3>2
  <2> QED
    BY <1>0, <1>1, <2>2 DEF NoneMissing, GivenUp
<1> QED
  BY <1>1, <1>2, <1>3, <1>4 DEF NoneMissing

LEMMA EvolveNoneMissing ==
  ASSUME TypeInv, NEW t \in Threads, Evolve(t)
  PROVE  NoneMissing(t)'
<1>0. PICK f : f = tree[t]
  OBVIOUS
<1>1. CASE EvolveBegin(t)
  <2>1. /\ \/ pc'[t] = "evolve"
           \/ pc'[t] = "record" /\ (f \in emptied \/ ~HasInterTreeEvent(f))
        /\ UNCHANGED <<tree, time, nodes, emptied, evolveToTime>>
    BY <1>0, <1>1, ThreadTypes DEF EvolveBegin
  <2>2. ~HasInterTreeEvent(f) => Due(t, PullDue(f))' = {}
    BY <2>1 DEF HasInterTreeEvent, Due, PullDue
  <2> QED
    BY <1>0, <2>1, <2>2 DEF NoneMissing, GivenUp
<1>2. CASE EvolveAdvance(t) \/ EvolvePush(t) \/ EvolvePull(t)
  <2>1. pc'[t] = "evolve"
    BY <1>2 DEF EvolveAdvance, EvolvePush, EvolvePull
  <2> QED
    BY <2>1 DEF NoneMissing
<1>3. CASE EvolveSuspend(t)
  <2>1. /\ pc'[t] = "record" /\ suspendTree'[t] = ~deadlockReport
        /\ UNCHANGED deadlockReport
    BY <1>3, ThreadTypes DEF EvolveSuspend
  <2> QED
    BY <2>1 DEF NoneMissing, Hindered, Limited, GivenUp
<1>4. CASE EvolveEnd(t)
  <2>1. /\ pc'[t] = "record" /\ UNCHANGED <<tree, time, nodes, evolveToTime>>
        /\ Due(t, PullDue(f)) = {}
    BY <1>0, <1>4, ThreadTypes DEF EvolveEnd
  <2>2. Due(t, PullDue(f))' = {}
    BY <2>1 DEF Due, PullDue
  <2> QED
    BY <1>0, <2>1, <2>2 DEF NoneMissing
<1> QED
  BY <1>1, <1>2, <1>3, <1>4 DEF Evolve

LEMMA StepNoneMissing ==
  ASSUME OutputsClear, NodesMeet, OutInv, NodesInOrder, [Next]_vars,
         \A t \in Threads : NoneMissing(t), NEW t \in Threads
  PROVE  NoneMissing(t)'
<1>1. TypeInv /\ OwnerInv /\ Aims(t) /\ InPlace(t) /\ NoneMissing(t)
  BY DEF OutInv, AimInv, OwnerInv, TeamInv
<1>2. CASE ThreadStep(t)
  <2>1. CASE Fetch(t) \/ Limit(t) \/ Decide(t)
    <3>1. pc'[t] \in {"plan", "resume", "passEnd", "begin", "trigger"}
      BY <1>1, <2>1, ThreadTypes DEF Fetch, FetchNew, FetchNone, Resume, ResumeNone,
         Limit, Decide
    <3> QED
      BY <3>1 DEF NoneMissing
  <2> QED
    BY <1>1, <1>2, <2>1, PlanNoneMissing, EvolveNoneMissing, FinalizeNoneMissing
       DEF ThreadStep
<1>3. ASSUME NEW u \in Threads, ThreadStep(u), u # t PROVE NoneMissing(t)'
  BY <1>1, <1>3, OthersKept, NoneMissingKept
<1>4. CASE TeamStep
  <2>1. CASE pc'[t] \notin Holding
    BY <2>1 DEF NoneMissing, Holding, Evolving
  <2>2. CASE pc'[t] \in Holding
    <3>1. /\ Private(t)' = Private(t) /\ UNCHANGED <<forests, pulled>>
          /\ deadlockReport => deadlockReport'
      BY <1>1, <1>4, <2>2, TeamStepFrames
    <3> QED
      BY <1>1, <3>1, NoneMissingKept DEF Same
  <2> QED
    BY <2>1, <2>2
<1> QED
  BY <1>2, <1>3, <1>4, NextIsThreadOrTeam

(* How a step moves a forest from one phase of its life to another. *)
Moves(f, from, to) ==
  /\ f \in Forest /\ PhaseOf(f) = from /\ PhaseOf(f)' = to
  /\ \A g \in Forest \ {f} : PhaseOf(g)' = PhaseOf(g)

Turns ==
  /\ MasterTransfers /\ universeProcessed # <<>>
  /\ \A f \in Forest : /\ PhaseOf(f) \in {"aside", "complete"}
                       /\ PhaseOf(f)' = IF PhaseOf(f) = "aside" THEN "waiting"
                                                                ELSE PhaseOf(f)
  /\ \E f \in Forest : PhaseOf(f) = "aside"

LEMMA ForestNumbers ==
  ASSUME TypeInv
  PROVE  forestNumber \in Nat /\ NForests \in Nat /\ forestNumber <= NForests
BY ForestAssumption DEF TypeInv, TypeOK, UniverseOK

LEMMA HeldHandedOut ==
  ASSUME OwnerInv PROVE Held \subseteq HandedOut /\ Suspended \subseteq HandedOut
BY DEF OwnerInv, Places, Held

(* The master turns the passes when no thread holds a tree and none is waiting. *)
LEMMA MasterTurns ==
  ASSUME OwnerInv, MasterTransfers, universeProcessed # <<>>
  PROVE  Turns
<1>0. TypeInv /\ universeProcessed \in Seq(Forest)
  BY DEF OwnerInv, TeamInv, TypeInv, TypeOK, UniverseOK
<1>1. /\ universeWaiting' = universeProcessed /\ universeProcessed' = <<>>
      /\ UNCHANGED <<tree, forestNumber>> /\ pc[Master] = "master"
  BY DEF MasterTransfers
<1>2. universeWaiting = <<>> /\ forestNumber = NForests
  BY <1>1 DEF OwnerInv, TeamInv, Exhausted
<1>3. Held = {} /\ Held' = {}
  <2>1. \A t \in Threads : pc[t] \notin Holding
    BY <1>1 DEF OwnerInv, TeamInv, Phases, InWork, InMaster, InDecide, InEnd,
       Resetting, Working, Holding, Evolving
  <2> QED
    BY <1>1, <2>1 DEF OwnerInv, Places, Held
<1>4. \A f \in Forest : ~(f > forestNumber)
  BY <1>0, <1>2, ForestNumbers DEF Forest
<1>5. \E f \in Forest : f \in ElementsOf(universeProcessed)
  <2>1. universeProcessed[1] \in Forest /\ 1 \in DOMAIN universeProcessed
    BY <1>0
  <2> QED
    BY <2>1 DEF ElementsOf
<1>6. \A f \in Forest : PhaseOf(f) = IF f \in ElementsOf(universeProcessed) THEN "aside"
                                     ELSE "complete"
  BY <1>2, <1>3, <1>4, EmptyElements DEF PhaseOf
<1>7. \A f \in Forest : PhaseOf(f)' = IF f \in ElementsOf(universeProcessed)
                                      THEN "waiting" ELSE "complete"
  BY <1>1, <1>3, <1>4, EmptyElements DEF PhaseOf
<1> QED
  BY <1>5, <1>6, <1>7 DEF Turns

LEMMA PhaseMoves ==
  ASSUME OwnerInv, [Next]_vars
  PROVE  \/ \A f \in Forest : PhaseOf(f)' = PhaseOf(f)
         \/ \E t \in Threads : FetchNew(t) /\ \E f : Moves(f, "unbuilt", "evolving")
         \/ \E t \in Threads : Resume(t) /\ \E f : Moves(f, "waiting", "evolving")
         \/ \E t \in Threads : Suspend(t) /\ \E f : Moves(f, "evolving", "aside")
         \/ \E t \in Threads, f \in Forest :
              Destroy(t) /\ f = tree[t] /\ Moves(f, "evolving", "complete")
         \/ Turns
<1>1. /\ TypeInv /\ tree \in [Threads -> Forest \union {NoTree}]
      /\ universeProcessed \in Seq(Forest) /\ universeWaiting \in Seq(Forest)
      /\ Held \subseteq HandedOut /\ Suspended \subseteq HandedOut /\ HandedOut \subseteq Forest
      /\ Held \intersect Suspended = {}
      /\ ElementsOf(universeWaiting) \intersect ElementsOf(universeProcessed) = {}
      /\ NoTree \notin Forest
  BY ForestNumbers, HeldHandedOut, ForestAssumption, SMTT(30) DEF OwnerInv, TeamInv, TypeInv,
     TypeOK, UniverseOK, ThreadsOK, OneOwner, HandedOut, Forest
<1>2. ASSUME NEW t \in Threads, FetchNew(t)
      PROVE  \E f : Moves(f, "unbuilt", "evolving")
  <2>1. PICK f : f = forestNumber + 1
    OBVIOUS
  <2>2. /\ tree' = [tree EXCEPT ![t] = f] /\ forestNumber' = f
        /\ tree[t] = NoTree /\ UNCHANGED stacks /\ forestNumber < NForests
    BY <1>1, <1>2, <2>1 DEF FetchNew, WorkLeft, OwnerInv, Places, Holding, Evolving
  <2>3. f \in Forest /\ f \notin HandedOut /\ f > forestNumber /\ ~(f > forestNumber')
    BY <1>1, <2>1, <2>2, ForestNumbers DEF Forest, HandedOut
  <2>4. Held' = Held \union {f}
    BY <1>1, <2>2, <2>3 DEF Held
  <2>5. \A g \in Forest \ {f} : g > forestNumber <=> g > forestNumber'
    BY <1>1, <2>1, <2>2, ForestNumbers DEF Forest
  <2> QED
    BY <2>2, <2>3, <2>4, <2>5 DEF Moves, PhaseOf
<1>3. ASSUME NEW t \in Threads, Resume(t)
      PROVE  \E f : Moves(f, "waiting", "evolving")
  <2>1. PICK f : f = Head(universeWaiting)
    OBVIOUS
  <2>2. /\ tree' = [tree EXCEPT ![t] = f] /\ tree[t] = NoTree
        /\ universeWaiting' = Tail(universeWaiting) /\ universeWaiting # <<>>
        /\ UNCHANGED <<universeProcessed, forestNumber>>
    BY <1>1, <1>3, <2>1 DEF Resume, PopTree, OwnerInv, Places, Holding, Evolving
  <2>3. f \in ElementsOf(universeWaiting)
        /\ ElementsOf(universeWaiting') = ElementsOf(universeWaiting) \ {f}
    BY <1>1, <2>1, <2>2, TailElements DEF OwnerInv, OneOwner
  <2>4. f \in HandedOut /\ f \in Forest /\ f \notin Held
        /\ f \notin ElementsOf(universeProcessed)
    BY <1>1, <2>3 DEF Suspended
  <2>5. ~(f > forestNumber)
    BY <1>1, <2>4, ForestNumbers DEF HandedOut
  <2>6. Held' = Held \union {f}
    BY <1>1, <2>2, <2>4 DEF Held
  <2> QED
    BY <2>2, <2>3, <2>4, <2>5, <2>6 DEF Moves, PhaseOf
<1>4. ASSUME NEW t \in Threads, Suspend(t) \/ Destroy(t)
      PROVE  /\ tree[t] \in Forest /\ PhaseOf(tree[t]) = "evolving"
             /\ ~(tree[t] > forestNumber)
             /\ Held' = Held \ {tree[t]} /\ tree[t] \in Held /\ tree[t] \notin Suspended
  <2>1. PICK f : f = tree[t]
    OBVIOUS
  <2>2. pc[t] = "release" /\ tree' = [tree EXCEPT ![t] = NoTree]
    BY <1>4 DEF Suspend, Destroy
  <2>3. f \in HandedOut /\ f \in Forest /\ f \in Held
    BY <1>1, <2>1, <2>2 DEF OwnerInv, Places, Holding, Held
  <2>4. ~(f > forestNumber)
    BY <1>1, <2>3, ForestNumbers DEF HandedOut
  <2>5. \A u \in Threads \ {t} : tree[u] # f
    BY <1>1, <2>1, <2>3 DEF OwnerInv, OneOwner
  <2>6. Held' = Held \ {f}
    BY <1>1, <2>1, <2>2, <2>3, <2>5 DEF Held
  <2> QED
    BY <1>1, <2>1, <2>3, <2>4, <2>6 DEF PhaseOf
<1>5. ASSUME NEW t \in Threads, Suspend(t) PROVE \E f : Moves(f, "evolving", "aside")
  <2>1. PICK f : f = tree[t]
    OBVIOUS
  <2>2. /\ universeProcessed' = Append(universeProcessed, f)
        /\ UNCHANGED <<universeWaiting, forestNumber>>
    BY <1>5, <2>1 DEF Suspend, PushTree
  <2>3. ElementsOf(universeProcessed') = ElementsOf(universeProcessed) \union {f}
    BY <1>1, <1>4, <1>5, <2>1, <2>2, AppendElements
  <2> QED
    BY <1>4, <1>5, <2>1, <2>2, <2>3 DEF Moves, PhaseOf
<1>6. ASSUME NEW t \in Threads, Destroy(t)
      PROVE  \E f \in Forest : f = tree[t] /\ Moves(f, "evolving", "complete")
  <2>1. PICK f : f = tree[t]
    OBVIOUS
  <2>2. UNCHANGED <<stacks, forestNumber>>
    BY <1>6 DEF Destroy
  <2> QED
    BY <1>4, <1>6, <2>1, <2>2 DEF Moves, PhaseOf, Suspended
<1>7. MasterTransfers /\ universeProcessed # <<>> => Turns
  BY MasterTurns
<1>8. UNCHANGED <<tree, stacks, forestNumber>> => \A f \in Forest : PhaseOf(f)' = PhaseOf(f)
  BY DEF PhaseOf, Held
<1>9. ASSUME NEW t \in Threads, ThreadStep(t)
      PROVE  \/ FetchNew(t) \/ Resume(t) \/ Suspend(t) \/ Destroy(t)
             \/ UNCHANGED <<tree, stacks, forestNumber>>
  BY <1>9 DEF ThreadStep, Fetch, FetchNone, ResumeNone, Plan, Limit,
     Evolve, EvolveBegin, EvolveAdvance, EvolvePush, EvolvePull, EvolveSuspend,
     EvolveEnd, Finalize, Record, FinalizeShort, FinalizeLimited, FinalizeOutput,
     Decide
<1>10. ASSUME TeamStep
       PROVE  \/ MasterTransfers /\ universeProcessed # <<>>
              \/ UNCHANGED <<tree, stacks, forestNumber>>
  BY <1>10 DEF TeamStep, MasterStep, MasterStops, MasterTransfers, Reset, PassBarrier,
     vars
<1> QED
  BY <1>2, <1>3, <1>5, <1>6, <1>7, <1>8, <1>9, <1>10, NextIsThreadOrTeam

(* The last pass is over when the master has found nothing to transfer, and the team
   leaves the loop only then. *)
Leaving(t) == pc[t] = "done" \/ Resetting(t, TRUE)
Over ==
  /\ ~triggerFinishUniverse
  /\ \A t \in Threads : pc[t] \in {"universe", "decide", "trigger"} \/ Leaving(t)

OverInv ==
  /\ Over => /\ universeProcessed = <<>> /\ universeWaiting = <<>>
             /\ forestNumber = NForests
  /\ \A t \in Threads : Leaving(t) => ~triggerFinishUniverse

(* A forest that is done has been sent its nodes, unless the program is about to
   report a deadlock. *)
DoneArrived ==
  ~deadlockReport \/ Over =>
    \A f \in Forest : PhaseOf(f) = "complete" => AllArrived(f)

MeetInv ==
  /\ OutInv /\ NodesInOrder /\ OverInv /\ DoneArrived
  /\ \A t \in Threads : NoneMissing(t)

(* Of the steps of a thread only the decision can be one of the last pass's end. *)
LEMMA ThreadStepOver ==
  ASSUME OwnerInv, NEW t \in Threads, ThreadStep(t)
  PROVE  /\ UNCHANGED triggerFinishUniverse
         /\ \A u \in Threads : Leaving(u)' => Leaving(u)
         /\ Over' => Over /\ Decide(t)
<1>1. /\ pc \in [Threads -> Points] /\ finished \in [Threads -> BOOLEAN]
      /\ Master \in Threads
  BY TeamAssumption DEF OwnerInv, TeamInv, TypeInv, TypeOK, ThreadsOK, FlagsOK
<1>2. UNCHANGED triggerFinishUniverse
  BY DEF ThreadStep, Fetch, FetchNew, FetchNone, Resume, ResumeNone, Plan, Limit,
     Evolve, EvolveBegin, EvolveAdvance, EvolvePush, EvolvePull, EvolveSuspend,
     EvolveEnd, Finalize, Record, FinalizeShort, FinalizeLimited, FinalizeOutput,
     Destroy, Suspend, Decide
<1>3. ASSUME ~Decide(t)
      PROVE  pc'[t] \in Working \union {"passEnd"}
  <2>1. CASE Fetch(t)
    BY <1>1, <2>1 DEF Fetch, FetchNew, FetchNone, Resume, ResumeNone, Working
  <2>2. CASE Plan(t) \/ Limit(t)
    BY <1>1, <2>2 DEF Plan, Limit, Working
  <2>3. CASE Evolve(t)
    BY <1>1, <2>3 DEF Evolve, EvolveBegin, EvolveAdvance, EvolvePush, EvolvePull,
       EvolveSuspend, EvolveEnd, Working
  <2>4. CASE Finalize(t)
    BY <1>1, <2>4 DEF Finalize, Record, FinalizeShort, FinalizeLimited, FinalizeOutput,
       Destroy, Suspend, Working
  <2> QED
    BY <1>3, <2>1, <2>2, <2>3, <2>4 DEF ThreadStep
<1>4. Decide(t) => pc[t] = "decide" /\ pc'[t] = "trigger"
  BY <1>1 DEF Decide
<1>5. \A u \in Threads \ {t} : pc'[u] = pc[u] /\ finished'[u] = finished[u]
  <2>1. \A u \in Threads \ {t} : pc'[u] = pc[u]
    BY ThreadStepFrames DEF Frame, Private, OwnerInv, TeamInv
  <2>2. \A u \in Threads \ {t} : finished'[u] = finished[u]
    BY <1>1 DEF ThreadStep, Fetch, FetchNew, FetchNone, Resume, ResumeNone, Plan, Limit,
       Evolve, EvolveBegin, EvolveAdvance, EvolvePush, EvolvePull, EvolveSuspend,
       EvolveEnd, Finalize, Record, FinalizeShort, FinalizeLimited, FinalizeOutput,
       Destroy, Suspend, Decide
  <2> QED
    BY <2>1, <2>2
<1>6. ~Leaving(t)'
  BY <1>3, <1>4 DEF Leaving, Resetting, Working
<1>7. \A u \in Threads : Leaving(u)' => Leaving(u)
  BY <1>5, <1>6 DEF Leaving, Resetting
<1>8. Over' => Decide(t)
  BY <1>3, <1>6 DEF Over, Working
<1>9. Over' => Over
  BY <1>2, <1>4, <1>7, <1>8, <1>5 DEF Over
<1> QED
  BY <1>2, <1>7, <1>8, <1>9

(* Of the team's steps only the master's, with nothing to transfer, can end it. *)
LEMMA TeamStepOver ==
  ASSUME OwnerInv, OverInv, TeamStep
  PROVE  /\ \A t \in Threads : Leaving(t)' => ~triggerFinishUniverse'
         /\ \/ ~Over'
            \/ Over /\ UNCHANGED <<stacks, forestNumber>>
            \/ /\ MasterTransfers /\ UNCHANGED <<stacks, forestNumber>>
               /\ universeProcessed = <<>> /\ universeWaiting = <<>>
               /\ forestNumber = NForests
<1>1. /\ pc \in [Threads -> Points] /\ finished \in [Threads -> BOOLEAN]
      /\ triggerFinishUniverse \in BOOLEAN /\ Master \in Threads
      /\ Phases /\ Finished /\ Exhausted
  BY TeamAssumption DEF OwnerInv, TeamInv, TypeInv, TypeOK, ThreadsOK, FlagsOK
<1>2. CASE MasterStops
  <2>1. pc[Master] = "master" /\ UNCHANGED <<pc, finished, triggerFinishUniverse>>
    BY <1>2 DEF MasterStops
  <2>2. ~Over'
    BY <1>1, <2>1 DEF Over, Leaving, Resetting
  <2>3. \A t \in Threads : Leaving(t)' => Leaving(t)
    BY <2>1 DEF Leaving, Resetting
  <2> QED
    BY <2>1, <2>2, <2>3 DEF OverInv
<1>3. CASE MasterTransfers
  <2>1. pc[Master] = "master" /\ pc' = [pc EXCEPT ![Master] = "universe"]
    BY <1>3 DEF MasterTransfers
  <2>2. \A t \in Threads \ {Master} : pc[t] = "universe"
    BY <1>1, <2>1 DEF Phases, InWork, InMaster, InDecide, InEnd, Resetting, Working
  <2>3. \A t \in Threads : pc'[t] = "universe"
    BY <1>1, <2>1, <2>2
  <2>4. \A t \in Threads : ~Leaving(t)'
    BY <2>3 DEF Leaving, Resetting
  <2>5. universeWaiting = <<>> /\ forestNumber = NForests
    BY <1>1, <2>1 DEF Exhausted
  <2>6. /\ UNCHANGED forestNumber
        /\ universeProcessed # <<>> => triggerFinishUniverse'
        /\ universeProcessed = <<>> => UNCHANGED stacks
    BY <1>3 DEF MasterTransfers
  <2> QED
    BY <1>3, <2>4, <2>5, <2>6 DEF Over
<1>4. CASE Reset
  <2>1. /\ pc[Master] = "reset" /\ pc' = [pc EXCEPT ![Master] = LoopTest(Master)]
        /\ triggerFinishUniverse' = FALSE
        /\ UNCHANGED <<finished, stacks, forestNumber>>
    BY <1>4 DEF Reset, AfterReset
  <2>2. \A t \in Threads \ {Master} : pc'[t] = pc[t]
    BY <1>1, <2>1
  <2>3. pc'[Master] = LoopTest(Master)
    BY <1>1, <2>1
  <2>4. Over' => finished[Master] = TRUE
    BY <1>1, <2>3 DEF Over, Leaving, Resetting, LoopTest
  <2>5. Over' => Leaving(Master)
    BY <2>1, <2>4 DEF Leaving, Resetting
  <2>6. ASSUME Over' PROVE Over
    <3>1. ~triggerFinishUniverse
      BY <1>1, <2>5, <2>6 DEF OverInv
    <3>2. \A t \in Threads \ {Master} :
            pc[t] \in {"universe", "decide", "trigger"} \/ Leaving(t)
      BY <2>2, <2>6 DEF Over, Leaving, Resetting
    <3> QED
      BY <2>5, <2>6, <3>1, <3>2 DEF Over
  <2> QED
    BY <2>1, <2>6
<1>5. CASE PassBarrier
  <2>1. /\ \A t \in Threads : pc[t] \in Barriers /\ pc'[t] = AfterBarrier(t)
        /\ UNCHANGED <<finished, triggerFinishUniverse, stacks, forestNumber>>
    BY <1>5 DEF PassBarrier, BarrierMet
  <2>2. ASSUME NEW t \in Threads, Leaving(t)' PROVE ~triggerFinishUniverse
    <3>1. CASE pc[t] = "trigger"
      <4>1. finished[t] = ~triggerFinishUniverse
        BY <1>1, <3>1 DEF Finished
      <4>2. finished[t] = TRUE
        BY <1>1, <2>1, <2>2, <3>1 DEF Leaving, Resetting, AfterBarrier, LoopTest
      <4> QED
        BY <1>1, <4>1, <4>2
    <3>2. CASE pc[t] # "trigger"
      <4>1. pc[t] = "done"
        BY <2>1, <2>2, <3>2 DEF Leaving, Resetting, AfterBarrier, Barriers
      <4> QED
        BY <4>1 DEF OverInv, Leaving
    <3> QED
      BY <3>1, <3>2
  <2>3. ASSUME Over' PROVE Over
    <3>1. pc[Master] # "passEnd"
      <4>1. pc[Master] = "passEnd" => pc'[Master] = "master"
        BY <1>1, <2>1 DEF AfterBarrier
      <4> QED
        BY <1>1, <2>3, <4>1 DEF Over, Leaving, Resetting
    <3>2. ~InWork
      BY <1>1, <2>1, <3>1 DEF InWork, Working, Barriers, Resetting
    <3>3. \A t \in Threads : pc[t] \in {"universe", "trigger", "done"}
      BY <1>1, <2>1, <3>1, <3>2 DEF Phases, InMaster, InDecide, InEnd, Resetting, Barriers
    <3> QED
      BY <2>1, <2>3, <3>3 DEF Over, Leaving
  <2> QED
    BY <2>1, <2>2, <2>3
<1>6. CASE UNCHANGED vars
  BY <1>6 DEF vars, OverInv, Over, Leaving, Resetting
<1> QED
  BY <1>2, <1>3, <1>4, <1>5, <1>6 DEF TeamStep, MasterStep

LEMMA StepOverInv ==
  ASSUME OwnerInv, OverInv, [Next]_vars
  PROVE  OverInv'
<1>1. ASSUME NEW t \in Threads, ThreadStep(t) PROVE OverInv'
  <2>1. Decide(t) => UNCHANGED <<stacks, forestNumber>>
    BY DEF Decide
  <2> QED
    BY <1>1, <2>1, ThreadStepOver DEF OverInv
<1>2. CASE TeamStep
  BY <1>2, TeamStepOver DEF OverInv
<1> QED
  BY <1>1, <1>2, NextIsThreadOrTeam

LEMMA StepDoneArrived ==
  ASSUME MeetInv, [Next]_vars
  PROVE  DoneArrived'
<1>1. OwnerInv /\ TypeInv /\ OverInv /\ DoneArrived
  BY DEF MeetInv, OutInv, OwnerInv, TeamInv
<1>2. SUFFICES ASSUME ~deadlockReport' \/ Over', NEW f \in Forest,
                      PhaseOf(f)' = "complete"
               PROVE  AllArrived(f)'
  BY DEF DoneArrived
<1>3. pulled \subseteq pulled' /\ (deadlockReport => deadlockReport')
  <2>1. ASSUME NEW t \in Threads, ThreadStep(t)
        PROVE  pulled \subseteq pulled' /\ deadlockReport' = deadlockReport
    BY <1>1, <2>1, ThreadStepFrames DEF Frame
  <2> QED
    BY <1>1, <2>1, TeamStepFrames, NextIsThreadOrTeam
<1>4. AllArrived(f) => AllArrived(f)'
  BY <1>3 DEF AllArrived
<1>5. ~deadlockReport \/ Over
  <2>1. CASE ~deadlockReport'
    BY <1>3, <2>1
  <2>2. CASE Over'
    <3>1. MasterTransfers => ~deadlockReport
      BY DEF MasterTransfers
    <3> QED
      BY <1>1, <2>2, <3>1, ThreadStepOver, TeamStepOver, NextIsThreadOrTeam
  <2> QED
    BY <1>2, <2>1, <2>2
<1>6. CASE PhaseOf(f) = "complete"
  BY <1>1, <1>4, <1>5, <1>6 DEF DoneArrived
<1>7. CASE PhaseOf(f) # "complete"
  <2>1. PICK t \in Threads : Destroy(t) /\ tree[t] = f
    <3>1. \A g : ~Moves(g, "unbuilt", "evolving") /\ ~Moves(g, "waiting", "evolving")
          /\ ~Moves(g, "evolving", "aside")
      BY <1>2, <1>7 DEF Moves
    <3>2. ~Turns
      BY <1>2, <1>7 DEF Turns
    <3>3. PICK t \in Threads, g \in Forest :
            Destroy(t) /\ g = tree[t] /\ Moves(g, "evolving", "complete")
      BY <1>1, <1>2, <1>7, <3>1, <3>2, PhaseMoves
    <3> QED
      BY <1>2, <1>7, <3>3 DEF Moves
  <2>2. pc[t] = "release" /\ treeIsFinished[t] /\ ThreadStep(t) /\ ~Decide(t)
    BY <2>1 DEF Destroy, Decide, ThreadStep, Finalize
  <2>3. ~Over'
    BY <1>1, <2>2, ThreadStepOver
  <2>4. ~deadlockReport
    BY <1>2, <1>3, <2>3
  <2>5. f \in emptied \/ AllArrived(f)
    BY <2>1, <2>2, <2>4 DEF MeetInv, NoneMissing, GivenUp
  <2> QED
    BY <1>4, <2>5 DEF MeetInv, NodesInOrder
<1> QED
  BY <1>6, <1>7

LEMMA StepMeetInv ==
  ASSUME OutputsClear, NodesMeet, MeetInv, [Next]_vars PROVE MeetInv'
<1>1. OwnerInv /\ AimInv /\ OutInv /\ NodesInOrder /\ OverInv
  BY DEF MeetInv, OutInv
<1>2. OutInv'
  BY <1>1, StepOutInv
<1>3. \A t \in Threads : NoneMissing(t)'
  BY <1>1, StepNoneMissing DEF MeetInv
<1> QED
  BY <1>1, <1>2, <1>3, StepNodesInOrder, StepOverInv, StepDoneArrived DEF MeetInv

LEMMA InitMeetInv == NodesMeet /\ Init => MeetInv
<1> SUFFICES ASSUME NodesMeet, Init PROVE MeetInv
  OBVIOUS
<1>1. OutInv
  BY InitOutInv
<1>2. NodesInOrder
  BY DEF Init, NodesInOrder, NodesMeet
<1>3. \A t \in Threads : NoneMissing(t) /\ ~Leaving(t)
                         /\ pc[t] \notin {"universe", "decide", "trigger"}
  BY DEF Init, NoneMissing, Leaving, Resetting
<1>4. OverInv
  BY <1>3, TeamAssumption DEF OverInv, Over
<1>5. DoneArrived
  <2>1. \A f \in Forest : f > 0
    BY ForestAssumption DEF Forest
  <2> QED
    BY <2>1 DEF DoneArrived, PhaseOf, Init
<1> QED
  BY <1>1, <1>2, <1>3, <1>4, <1>5 DEF MeetInv

(* When the parallel region ends every forest has been output to the end, and every
   node that left a forest has arrived in another. *)
THEOREM EndsComplete == OutputsClear /\ NodesMeet /\ Spec => []AllDoneIsComplete
<1> DEFINE I == OutputsClear /\ NodesMeet /\ MeetInv
<1>1. I => AllDoneIsComplete
  <2> SUFFICES ASSUME I, AllDone
               PROVE  /\ forestNumber = NForests
                      /\ \A f \in Forest : Complete(f)
                      /\ waitList = {}
    BY DEF AllDoneIsComplete
  <2>1. /\ TypeInv /\ OwnerInv /\ OutInv /\ OverInv /\ DoneArrived /\ NodesInOrder
        /\ Master \in Threads
    BY TeamAssumption DEF MeetInv, OutInv, OwnerInv, TeamInv
  <2>2. \A t \in Threads : Leaving(t)
    BY DEF AllDone, Leaving
  <2>3. Over
    BY <2>1, <2>2 DEF Over, OverInv
  <2>4. universeProcessed = <<>> /\ universeWaiting = <<>> /\ forestNumber = NForests
    BY <2>1, <2>3 DEF OverInv
  <2>5. Held = {} /\ Suspended = {}
    <3>1. \A t \in Threads : pc[t] \notin Holding
      BY DEF AllDone, Holding, Evolving
    <3> QED
      BY <2>1, <2>4, <3>1, EmptyElements DEF OwnerInv, Places, Held, Suspended
  <2>6. \A f \in Forest : f \in HandedOut \ (Held \union Suspended)
    BY <2>4, <2>5 DEF HandedOut, Forest
  <2>7. \A f \in Forest : PhaseOf(f) = "complete"
    <3>1. \A f \in Forest : ~(f > forestNumber)
      BY <2>1, <2>4, ForestNumbers DEF Forest
    <3> QED
      BY <2>4, <2>5, <3>1, EmptyElements DEF PhaseOf
  <2>8. ASSUME NEW x \in waitList PROVE FALSE
    <3>1. x \in Transfers
      BY <2>1 DEF TypeInv, TypeOK, UniverseOK
    <3>2. x.to \in Forest
      BY <3>1 DEF NodesMeet
    <3>3. AllArrived(x.to)
      BY <2>1, <2>3, <2>7, <3>2 DEF DoneArrived
    <3> QED
      BY <2>1, <2>8, <3>1, <3>3 DEF AllArrived, NodesInOrder
  <2> QED
    BY <2>1, <2>4, <2>6, <2>8, DoneIsComplete
<1>2. OutputsClear /\ NodesMeet /\ Init => I
  BY InitMeetInv
<1>3. I /\ [Next]_vars => I'
  BY StepMeetInv DEF OutputsClear, NodesMeet
<1> HIDE DEF I
<1> QED
  BY <1>1, <1>2, <1>3, PTL DEF Spec

-------------------------------------------------------------------------------
(* The ledger *)

(* The list begins with the first event of every creator that has one. *)
LEMMA FirstAgendaIs ==
  ASSUME NEW q \in FirstEvents
  PROVE  ElementsOf(q) = {EventOf(c, 1) : c \in {x \in Creators : Schedule[x] # <<>>}}
<1> DEFINE active == {c \in Creators : Schedule[c] # <<>>}
           first == {EventOf(c, 1) : c \in active}
           n == Cardinality(active)
<1>1. IsFiniteSet(active) /\ n \in Nat
  BY EventAssumption, FS_Subset, FS_CardinalityType
<1>2. IsFiniteSet(first) /\ Cardinality(first) = n
  <2> DEFINE b == [c \in active |-> EventOf(c, 1)]
  <2>1. \A c \in active : EventOf(c, 1).creator = c
    BY DEF EventOf
  <2>2. b \in [active -> first] /\ \A c, d \in active : b[c] = b[d] => c = d
    BY <2>1
  <2>3. \A e \in first : \E c \in active : b[c] = e
    OBVIOUS
  <2> HIDE DEF b, active, first
  <2>4. b \in Bijection(active, first)
    BY <2>2, <2>3 DEF Bijection, Injection, IsInjective, Surjection
  <2>5. ExistsBijection(active, first)
    BY <2>4 DEF ExistsBijection
  <2> QED
    BY <1>1, <2>5, FS_Bijection
<1>3. q \in [1 .. n -> first] /\ \A i, j \in 1 .. n : i # j => q[i] # q[j]
  BY DEF FirstEvents
<1> HIDE DEF n, active, first
<1>4. q \in Injection(1 .. n, first)
  BY <1>3 DEF Injection, IsInjective
<1>5. Cardinality(1 .. n) = Cardinality(first)
  BY <1>1, <1>2, FS_Interval
<1>6. q \in Surjection(1 .. n, first)
  BY <1>2, <1>4, <1>5, FS_Injection
<1>7. \A e \in first : \E i \in 1 .. n : q[i] = e
  BY <1>6 DEF Surjection
<1>8. ElementsOf(q) = first
  BY <1>3, <1>7 DEF ElementsOf
<1> QED
  BY <1>8 DEF first, active

Phase == [f \in Forest |-> PhaseOf(f)]

(* When the master turns the passes, at most one event is performed: the first. *)
LEMMA TurnsLedger ==
  ASSUME OwnerInv, EventsInv, Turns PROVE Ledger!Turn
<1>1. TypeInv
  BY DEF OwnerInv, TeamInv
<1>2. UNCHANGED output /\ TeamStep
  BY DEF Turns, MasterTransfers, TeamStep, MasterStep
<1>3. /\ \A f \in Forest : Phase[f] \in {"aside", "complete"}
      /\ \E f \in Forest : Phase[f] = "aside"
      /\ Phase' = [f \in Forest |-> IF Phase[f] = "aside" THEN "waiting" ELSE Phase[f]]
  BY DEF Turns, Phase
<1>4. CASE events' = events
  BY <1>2, <1>3, <1>4 DEF Ledger!Turn, Phase, ElementsOf
<1>5. CASE Performed
  <2>1. PICK e \in ElementsOf(events) :
          /\ e \notin ElementsOf(events')
          /\ e.time = universalEvolveToTime
          /\ ElementsOf(events) \ {e} \subseteq ElementsOf(events')
          /\ \A x \in ElementsOf(events') \ ElementsOf(events) : e.time < x.time
    BY <1>5 DEF Performed
  <2>2. \A x \in ElementsOf(events) : e.time <= x.time
    BY <2>1 DEF EventsInv, EventsAhead, ElementsOf
  <2> QED
    BY <1>2, <1>3, <2>1, <2>2 DEF Ledger!Turn, Phase
<1> QED
  BY <1>1, <1>2, <1>4, <1>5, TeamEvents

(* A thread takes a forest, or lays it aside or finishes with it; or writes it. *)
LEMMA MovesLedger ==
  ASSUME NEW f, NEW from, NEW to, Moves(f, from, to)
  PROVE  Phase[f] = from /\ Phase' = [Phase EXCEPT ![f] = to] /\ f \in Forest
BY DEF Moves, Phase

LEMMA WritesLedger ==
  ASSUME OutInv, [Next]_vars, NEW t \in Threads, FinalizeOutput(t),
         output' # output, Phase' = Phase
  PROVE  Ledger!Write(tree[t])
<1>0. PICK f : f = tree[t]
  OBVIOUS
<1>1. TypeInv /\ OwnerInv /\ InPlace(t)
  BY DEF OutInv, OwnerInv, TeamInv
<1>2. /\ pc[t] = "finalize" /\ f \notin emptied /\ events' = events
      /\ output' = [output EXCEPT ![f] = Append(@, iOutput[t])]
  BY <1>0 DEF FinalizeOutput
<1>3. /\ f \in Forest /\ iOutput[t] \in 1 .. NOutputs /\ pc[t] \in Evolving
      /\ output \in [Forest -> Seq(1 .. NOutputs)]
  BY <1>0, <1>1, <1>2, ThreadTypes DEF Holding, Evolving
<1>4. iOutput[t] = FirstDue(f) + Len(output[f])
  BY <1>0, <1>1, <1>2, <1>3 DEF InPlace, NextDue
<1>5. Phase[f] = "evolving"
  <2>1. f \in HandedOut /\ f \in Held
    BY <1>0, <1>1, <1>3 DEF OwnerInv, Places, Holding, Held
  <2>2. ~(f > forestNumber)
    BY <1>1, <1>3, <2>1, ForestNumbers DEF HandedOut
  <2> QED
    BY <1>3, <2>1, <2>2 DEF Phase, PhaseOf
<1>6. FirstDue(f) + Len(output[f]) <= NOutputs
  BY <1>3, <1>4, OutputTimes
<1> DEFINE first == [g \in Forest |-> FirstDue(g)]
<1>7. first[f] = FirstDue(f)
  BY <1>3
<1>8. output' = [output EXCEPT ![f] = Append(@, first[f] + Len(@))]
  BY <1>2, <1>3, <1>4, <1>7
<1> QED
  BY <1>0, <1>2, <1>5, <1>6, <1>7, <1>8 DEF Ledger!Write, Phase

LEMMA StepLedger ==
  ASSUME OutInv, [Next]_vars
  PROVE  [Ledger!Next]_(Ledger!vars)
<1>1. TypeInv /\ OwnerInv /\ EventsInv
  BY DEF OutInv, OwnerInv, TeamInv
<1>2. ASSUME NEW t \in Threads, FetchNew(t) \/ Resume(t), NEW f, NEW from,
             from \in {"unbuilt", "waiting"}, Moves(f, from, "evolving")
      PROVE  Ledger!Next
  <2>1. UNCHANGED <<output, events>>
    BY <1>2 DEF FetchNew, Resume
  <2> QED
    <3>1. Phase[f] = from /\ Phase' = [Phase EXCEPT ![f] = "evolving"] /\ f \in Forest
      BY <1>2, MovesLedger
    <3>2. Ledger!Take(f)
      BY <1>2, <2>1, <3>1 DEF Ledger!Take, Ledger!Become, Phase, ElementsOf
    <3> QED
      BY <3>1, <3>2 DEF Ledger!Next
<1>3. ASSUME NEW t \in Threads, Suspend(t), NEW f, Moves(f, "evolving", "aside")
      PROVE  Ledger!Next
  <2>1. UNCHANGED <<output, events>>
    BY <1>3 DEF Suspend
  <2> QED
    <3>1. Phase[f] = "evolving" /\ Phase' = [Phase EXCEPT ![f] = "aside"] /\ f \in Forest
      BY <1>3, MovesLedger
    <3>2. Ledger!LayAside(f)
      BY <2>1, <3>1 DEF Ledger!LayAside, Ledger!Become, Phase, ElementsOf
    <3> QED
      BY <3>1, <3>2 DEF Ledger!Next
<1>4. ASSUME NEW t \in Threads, Destroy(t), NEW f, Moves(f, "evolving", "complete")
      PROVE  Ledger!Next
  <2>1. UNCHANGED <<output, events>>
    BY <1>4 DEF Destroy
  <2> QED
    <3>1. Phase[f] = "evolving" /\ Phase' = [Phase EXCEPT ![f] = "complete"] /\ f \in Forest
      BY <1>4, MovesLedger
    <3>2. Ledger!Finish(f)
      BY <2>1, <3>1 DEF Ledger!Finish, Ledger!Become, Phase, ElementsOf
    <3> QED
      BY <3>1, <3>2 DEF Ledger!Next
<1>5. Turns => Ledger!Next
  BY <1>1, TurnsLedger DEF Ledger!Next
<1>6. ASSUME \A f \in Forest : PhaseOf(f)' = PhaseOf(f)
      PROVE  [Ledger!Next]_(Ledger!vars)
  <2>1. Phase' = Phase
    BY <1>6 DEF Phase
  <2>2. ~Turns
    BY <1>6 DEF Turns
  <2>3. events' = events
    <3>1. MasterTransfers /\ universeProcessed # <<>> => Turns
      BY <1>1, MasterTurns
    <3> QED
      BY <1>1, <2>2, <3>1, TeamEvents, NextIsThreadOrTeam, ThreadStepFrames DEF Frame
  <2>4. CASE output' = output
    BY <2>1, <2>3, <2>4 DEF Ledger!vars, Phase
  <2>5. CASE output' # output
    <3>1. PICK f \in Forest : output'[f] # output[f]
      <4>1. output \in [Forest -> Seq(1 .. NOutputs)] /\ output' \in [Forest -> Seq(1 .. NOutputs)]
        <5>1. TypeInv'
          BY <1>1, StepTypeInv
        <5> QED
          BY <1>1, <5>1 DEF TypeInv, TypeOK, ForestsOK
      <4> QED
        BY <2>5, <4>1
    <3>2. PICK t \in Threads : FinalizeOutput(t) /\ tree[t] = f
      BY <1>1, <3>1, WhoWrites
    <3>3. Ledger!Write(f)
      BY <2>1, <2>5, <3>2, WritesLedger
    <3> QED
      BY <3>3 DEF Ledger!Next
  <2> QED
    BY <2>4, <2>5
<1> QED
  BY <1>1, <1>2, <1>3, <1>4, <1>5, <1>6, PhaseMoves

(* The task keeps the promise of the ledger: each forest is taken, written at its next
   output, laid aside and taken again, and events are performed between the passes, in
   the order of their times. *)
THEOREM ImplementsLedger == OutputsClear /\ Spec => KeepsLedger
<1>1. OutputsClear /\ Init => (OutputsClear /\ OutInv) /\ Ledger!Init
  <2>1. ASSUME Init PROVE Ledger!Init
    <3>1. ElementsOf(events) = {EventOf(c, 1) : c \in {x \in Creators : Schedule[x] # <<>>}}
      BY <2>1, FirstAgendaIs DEF Init
    <3>2. \A f \in Forest : PhaseOf(f) = "unbuilt"
      BY <2>1 DEF Init, PhaseOf, Forest
    <3>3. output = [f \in Forest |-> <<>>]
      BY <2>1 DEF Init
    <3> QED
      BY <3>1, <3>2, <3>3 DEF Ledger!Init
  <2> QED
    BY <2>1, InitOutInv
<1>2. (OutputsClear /\ OutInv) /\ [Next]_vars => (OutputsClear /\ OutInv)'
  BY StepOutInv DEF OutputsClear
<1>3. (OutputsClear /\ OutInv) /\ [Next]_vars => [Ledger!Next]_(Ledger!vars)
  BY StepLedger
<1> QED
  BY <1>1, <1>2, <1>3, PTL DEF Spec, KeepsLedger, Ledger!Spec
-------------------------------------------------------------------------------
(* No false deadlock.  Two threads share the result of the evolver, and may lose
   it: this is about a team of one. *)
OneThread == Threads = {Master}

(* No two creators attach events at the same time. *)
DistinctEvents ==
  \A c, d \in Creators : c # d =>
    \A i \in DOMAIN Schedule[c], j \in DOMAIN Schedule[d] :
      Schedule[c][i] # Schedule[d][j]

(* A node that moves leaves a forest of the run, within its times. *)
NodesLeave ==
  \A x \in Transfers : /\ x.from \in Forest
                       /\ StartTime[x.from] <= x.time
                       /\ x.time <= EndTime[x.from]

(* Some forest begins no later than the others, at the time of no event, and lasts
   beyond the outputs. *)
LastTime == OutputTime[NOutputs]
Lasts(f) ==
  /\ \A g \in Forest : StartTime[f] <= StartTime[g]
  /\ \A c \in Creators : \A i \in DOMAIN Schedule[c] : Schedule[c][i] # StartTime[f]
  /\ StartTime[f] <= LastTime /\ LastTime <= EndTime[f]

(* What holds whatever becomes of the universe. *)
BaseInv == OwnerInv /\ EventsInv /\ AimInv /\ NodesInOrder

(* The nodes that are to leave a forest by a time have left it. *)
Sent(f, o) ==
  \A x \in Transfers : x.from = f /\ x.time <= o => x \in waitList \union pulled

(* A forest does not go beyond the time of a node it has yet to send, and is not
   emptied before. *)
SentInOrder ==
  /\ \A x \in Transfers : x \in waitList \union pulled \/ time[x.from] <= x.time
  /\ \A x \in Transfers : x.from \in emptied => x \in waitList \union pulled

(* Neither does a thread write it, nor finish with it. *)
Served(t) ==
  /\ pc[t] \in {"record", "finalize"} /\ ~Hindered(t) => Sent(tree[t], evolveToTime[t])
  /\ pc[t] = "release" /\ treeIsFinished[t] => Sent(tree[t], LastTime)
DoneSent == \A f \in Forest : PhaseOf(f) = "complete" => Sent(f, LastTime)

LEMMA LastTimeIs == LastTime \in Nat /\ \A i \in 1 .. NOutputs : OutputTime[i] <= LastTime
<1>1. NOutputs \in 1 .. NOutputs
  BY OutputTimes
<1> QED
  BY <1>1, LastOutput DEF LastTime

LEMMA TheThread ==
  ASSUME BaseInv
  PROVE  /\ Master \in Threads /\ TypeInv /\ OwnerInv /\ Aims(Master)
         /\ pc \in [Threads -> Points]
         /\ treesDidEvolve \in BOOLEAN /\ treeDidEvolve \in BOOLEAN
         /\ pc[Master] \in Holding => tree[Master] \in Forest
         /\ evolveToTime[Master] \in Nat
BY TeamAssumption, ThreadTypes DEF BaseInv, OwnerInv, TeamInv, AimInv, TypeInv, TypeOK,
   FlagsOK

(* The steps there are with one thread. *)
Passing == MasterStops \/ Reset \/ PassBarrier \/ UNCHANGED vars

LEMMA OneStep ==
  ASSUME OneThread, [Next]_vars
  PROVE  ThreadStep(Master) \/ MasterTransfers \/ Passing
BY NextIsThreadOrTeam DEF OneThread, TeamStep, MasterStep, Passing

LEMMA PassingKeeps ==
  ASSUME BaseInv, Passing
  PROVE  /\ UNCHANGED <<didEvolve, deadlock, universal, stacks, nodes, forestNumber,
                        tree, plan, limit, forests>>
         /\ pc'[Master] = pc[Master] \/ pc'[Master] \notin Holding
<1>1. UNCHANGED <<didEvolve, deadlock, universal, stacks, nodes, forestNumber,
                  tree, plan, limit, forests>>
  BY DEF Passing, MasterStops, Reset, PassBarrier, vars
<1>2. TeamStep
  BY DEF Passing, TeamStep, MasterStep
<1>3. pc'[Master] = pc[Master] \/ pc'[Master] \notin Holding
  BY <1>2, TheThread, TeamStepFrames
<1> QED
  BY <1>1, <1>3

LEMMA TransfersKeeps ==
  ASSUME BaseInv, MasterTransfers
  PROVE  /\ UNCHANGED <<treeDidEvolve, treesCouldEvolve, universalEvolveToTime, nodes,
                        forestNumber, tree, plan, limit, forests>>
         /\ pc[Master] = "master" /\ pc'[Master] = "universe"
         /\ ~deadlockReport /\ treesDidEvolve' = FALSE
         /\ universeWaiting = <<>> /\ forestNumber = NForests
         /\ universeProcessed' = <<>> /\ universeWaiting' = universeProcessed
<1>1. /\ UNCHANGED <<treeDidEvolve, treesCouldEvolve, universalEvolveToTime, nodes,
                     forestNumber, tree, plan, limit, forests>>
      /\ pc[Master] = "master" /\ pc'[Master] = "universe"
      /\ ~deadlockReport /\ treesDidEvolve' = FALSE
  BY TheThread DEF MasterTransfers
<1>2. universeWaiting = <<>> /\ forestNumber = NForests
  BY <1>1, TheThread DEF OwnerInv, TeamInv, Exhausted
<1>3. universeProcessed' = <<>> /\ universeWaiting' = universeProcessed
  BY <1>2 DEF MasterTransfers
<1> QED
  BY <1>1, <1>2, <1>3

LEMMA TransferSource ==
  ASSUME NodesLeave, NEW x \in Transfers
  PROVE  /\ x.time \in Nat /\ x.from \in Forest /\ StartTime[x.from] <= x.time
         /\ x.time <= EndTime[x.from]
BY TransferTypes DEF NodesLeave

-------------------------------------------------------------------------------
(* Nodes leave their forests in time *)

(* A node that has left a forest has left it for good. *)
LEMMA StepNodes ==
  ASSUME OneThread, [Next]_vars
  PROVE  waitList \union pulled \subseteq waitList' \union pulled'
<1>1. CASE ThreadStep(Master)
  BY <1>1 DEF ThreadStep, Fetch, FetchNew, FetchNone, Resume, ResumeNone, Plan, Limit,
     Evolve, EvolveBegin, EvolveAdvance, EvolvePush, EvolvePull, EvolveSuspend,
     EvolveEnd, Finalize, Record, FinalizeShort, FinalizeLimited, FinalizeOutput,
     Destroy, Suspend, Decide
<1>2. CASE MasterTransfers \/ Passing
  BY <1>2 DEF MasterTransfers, Passing, MasterStops, Reset, PassBarrier, vars
<1> QED
  BY <1>1, <1>2, OneStep

LEMMA StepSentInOrder ==
  ASSUME OneThread, NodesLeave, BaseInv, SentInOrder, [Next]_vars
  PROVE  SentInOrder'
<1>1. /\ Master \in Threads /\ TypeInv
      /\ waitList \union pulled \subseteq waitList' \union pulled'
  BY TheThread, StepNodes
<1>2. CASE UNCHANGED <<time, emptied>>
  BY <1>1, <1>2 DEF SentInOrder
<1>3. CASE EvolveAdvance(Master)
  <2> DEFINE f == tree[Master]
  <2>1. /\ pc[Master] = "evolve" /\ UNCHANGED <<nodes, emptied>> /\ ~AtTarget(Master)
        /\ Due(Master, PushDue(f)) = {} /\ time' = [time EXCEPT ![f] = @ + 1]
    BY <1>3 DEF EvolveAdvance
  <2>2. f \in Forest /\ time \in [Forest -> Nat] /\ time[f] < evolveToTime[Master]
        /\ evolveToTime[Master] \in Nat
    BY <1>1, <2>1, ThreadTypes, FinalTimeIs DEF Holding, Evolving
  <2> HIDE DEF f
  <2>3. ASSUME NEW x \in Transfers, x \notin waitList \union pulled
        PROVE  time'[x.from] <= x.time
    <3>1. time[x.from] <= x.time /\ x.time \in Nat /\ x.from \in Forest
      BY <2>3, TransferSource DEF SentInOrder
    <3>2. CASE x.from = f
      <4>1. time[f] # x.time
        BY <2>1, <2>2, <2>3, <3>2 DEF Due, PushDue
      <4> QED
        BY <2>1, <2>2, <3>1, <3>2, <4>1
    <3> QED
      BY <2>1, <2>2, <3>1, <3>2
  <2> QED
    BY <2>1, <2>3 DEF SentInOrder
<1>4. CASE Record(Master)
  <2>1. UNCHANGED <<nodes, time>> /\ emptied' \subseteq emptied \union Remnant(Master)
    BY <1>4 DEF Record
  <2>2. \A x \in Transfers : x.from \in Remnant(Master) => x \in waitList \union pulled
    BY DEF Remnant, HasInterTreeEvent
  <2> QED
    BY <2>1, <2>2 DEF SentInOrder
<1>5. CASE ThreadStep(Master) /\ ~EvolveAdvance(Master) /\ ~Record(Master)
  <2>1. UNCHANGED <<time, emptied>>
    BY <1>5 DEF ThreadStep, Fetch, FetchNew, FetchNone, Resume, ResumeNone, Plan, Limit,
       Evolve, EvolveBegin, EvolvePush, EvolvePull, EvolveSuspend, EvolveEnd, Finalize,
       FinalizeShort, FinalizeLimited, FinalizeOutput, Destroy, Suspend, Decide
  <2> QED
    BY <1>2, <2>1
<1>6. CASE MasterTransfers \/ Passing
  BY <1>2, <1>6, PassingKeeps, TransfersKeeps
<1> QED
  BY <1>3, <1>4, <1>5, <1>6, OneStep

(* What has been sent stays sent. *)
LEMMA SentKept ==
  ASSUME OneThread, [Next]_vars, NEW f, NEW o, Sent(f, o)
  PROVE  Sent(f, o)'
BY StepNodes DEF Sent

LEMMA PlanServed ==
  ASSUME BaseInv, NodesLeave, SentInOrder, Plan(Master)
  PROVE  Served(Master)'
<1>0. PICK f : f = tree[Master]
  OBVIOUS
<1>a. PICK i : i = firstOutput(f, treeIsNew[Master])
  OBVIOUS
<1>1. /\ pc[Master] = "plan" /\ UNCHANGED <<tree, time, nodes, emptied>>
      /\ pc'[Master] = IF i = 0 THEN "release" ELSE "limit"
  BY <1>0, <1>a, TheThread, ThreadTypes DEF Plan
<1>2. f \in Forest /\ time[f] \in Nat
  BY <1>0, <1>1, TheThread, ThreadTypes DEF Holding
<1>3. CASE i = 0
  <2>1. f \in emptied \/ LastTime < time[f]
    <3> SUFFICES ASSUME f \notin emptied, time[f] <= LastTime PROVE FALSE
      BY <1>2, LastTimeIs
    <3>1. timeNext(time[f]) \in 1 .. NOutputs
      BY <1>2, TimeNextIs DEF LastTime
    <3>2. i \in 1 .. NOutputs
      BY <1>a, <3>1, OutputTimes DEF firstOutput
    <3> QED
      BY <1>3, <3>2
  <2>2. ASSUME NEW x \in Transfers, x.from = f, x.time <= LastTime
        PROVE  x \in waitList \union pulled
    <3>1. x.time \in Nat
      BY TransferSource
    <3> QED
      BY <1>2, <2>1, <2>2, <3>1, LastTimeIs DEF SentInOrder
  <2> QED
    BY <1>0, <1>1, <1>3, <2>2 DEF Served, Sent
<1> QED
  BY <1>1, <1>3 DEF Served

LEMMA EvolveServed ==
  ASSUME BaseInv, NodesLeave, SentInOrder, ~deadlockReport, Evolve(Master)
  PROVE  Served(Master)'
<1>0. PICK f : f = tree[Master]
  OBVIOUS
<1>1. /\ pc \in [Threads -> Points] /\ Master \in Threads
      /\ evolveToTime[Master] \in Nat
  BY TheThread
<1>2. CASE EvolveBegin(Master)
  <2>1. /\ UNCHANGED <<tree, evolveToTime, nodes, emptied>>
        /\ \/ pc'[Master] = "evolve"
           \/ f \in emptied \/ ~HasInterTreeEvent(f)
    BY <1>0, <1>1, <1>2 DEF EvolveBegin
  <2>2. ASSUME f \in emptied \/ ~HasInterTreeEvent(f), NEW x \in Transfers, x.from = f
        PROVE  x \in waitList \union pulled
    BY <2>2 DEF SentInOrder, HasInterTreeEvent
  <2>3. pc'[Master] \in {"evolve", "record"}
    BY <1>1, <1>2 DEF EvolveBegin
  <2> QED
    BY <1>0, <2>1, <2>2, <2>3 DEF Served, Sent
<1>3. CASE EvolveAdvance(Master) \/ EvolvePush(Master) \/ EvolvePull(Master)
  <2>1. pc'[Master] = "evolve"
    BY <1>3 DEF EvolveAdvance, EvolvePush, EvolvePull
  <2> QED
    BY <2>1 DEF Served
<1>4. CASE EvolveSuspend(Master)
  <2>1. pc'[Master] = "record" /\ suspendTree'[Master] = TRUE
    BY <1>1, <1>4, ThreadTypes, TheThread DEF EvolveSuspend
  <2> QED
    BY <2>1 DEF Served, Hindered, Limited
<1>5. CASE EvolveEnd(Master)
  <2>1. /\ UNCHANGED <<tree, evolveToTime, nodes>> /\ pc'[Master] = "record"
        /\ AtTarget(Master) /\ Due(Master, PushDue(f)) = {} /\ pc[Master] = "evolve"
    BY <1>0, <1>1, <1>5 DEF EvolveEnd
  <2>2. f \in Forest /\ time[f] \in Nat /\ EndTime[f] \in Nat
    BY <1>0, <2>1, TheThread, ThreadTypes DEF Holding, Evolving
  <2>3. evolveToTime[Master] <= time[f] \/ EndTime[f] <= time[f]
    BY <1>0, <1>1, <2>1, <2>2, FinalTimeIs
  <2>4. ASSUME NEW x \in Transfers, x.from = f, x.time <= evolveToTime[Master],
               x \notin waitList \union pulled
        PROVE  FALSE
    <3>1. time[f] <= x.time /\ x.time \in Nat /\ x.time <= EndTime[f]
      BY <2>4, TransferSource DEF SentInOrder
    <3>2. x.time = time[f]
      BY <1>1, <2>2, <2>3, <2>4, <3>1
    <3> QED
      BY <2>1, <2>4, <3>2 DEF Due, PushDue
  <2> QED
    BY <1>0, <2>1, <2>4 DEF Served, Sent
<1> QED
  BY <1>2, <1>3, <1>4, <1>5 DEF Evolve

LEMMA FinalizeServed ==
  ASSUME BaseInv, Served(Master), Finalize(Master)
  PROVE  Served(Master)'
<1>1. /\ pc \in [Threads -> Points] /\ Master \in Threads /\ TypeInv /\ Aims(Master)
  BY TheThread
<1>2. CASE Record(Master)
  <2>1. /\ pc[Master] = "record" /\ pc'[Master] = "finalize"
        /\ evolutionIsEventLimited'[Master] = Limited(Master)
        /\ UNCHANGED <<tree, evolveToTime, nodes>>
    BY <1>1, <1>2, ThreadTypes DEF Record
  <2> QED
    BY <2>1 DEF Served, Hindered, Sent
<1>3. CASE FinalizeShort(Master) \/ FinalizeLimited(Master)
  <2>1. /\ pc[Master] = "finalize" /\ (pc' = pc \/ pc'[Master] = "release")
        /\ UNCHANGED <<tree, plan, limit, nodes>>
    BY <1>1, <1>3 DEF FinalizeShort, FinalizeLimited
  <2>2. ~treeIsFinished[Master]
    BY <1>1, <2>1 DEF Aims, Evolving
  <2> QED
    BY <2>1, <2>2 DEF Served, Hindered, Sent
<1>4. CASE FinalizeOutput(Master)
  <2>1. /\ pc[Master] = "finalize" /\ ~Hindered(Master)
        /\ pc'[Master] = IF iOutput[Master] = NOutputs THEN "release" ELSE "limit"
        /\ UNCHANGED <<tree, nodes>>
    BY <1>1, <1>4 DEF FinalizeOutput, Hindered
  <2>2. evolveToTime[Master] = OutputTime[iOutput[Master]]
    BY <1>1, <2>1 DEF Aims, Began, Evolving
  <2> QED
    BY <2>1, <2>2 DEF Served, Sent, LastTime
<1>5. CASE Destroy(Master) \/ Suspend(Master)
  <2>1. pc'[Master] = "fetch"
    BY <1>1, <1>5 DEF Destroy, Suspend
  <2> QED
    BY <2>1 DEF Served
<1> QED
  BY <1>2, <1>3, <1>4, <1>5 DEF Finalize

LEMMA StepServed ==
  ASSUME OneThread, NodesLeave, BaseInv, SentInOrder, ~deadlockReport, Served(Master),
         [Next]_vars
  PROVE  Served(Master)'
<1>1. pc \in [Threads -> Points] /\ Master \in Threads
  BY TheThread
<1>2. CASE Fetch(Master) \/ Decide(Master) \/ Limit(Master)
  <2>1. pc'[Master] \in {"plan", "resume", "passEnd", "trigger", "begin"}
    BY <1>1, <1>2 DEF Fetch, FetchNew, FetchNone, Resume, ResumeNone, Decide, Limit
  <2> QED
    BY <2>1 DEF Served
<1>3. CASE MasterTransfers
  <2>1. pc'[Master] = "universe"
    BY <1>3, TransfersKeeps
  <2> QED
    BY <2>1 DEF Served
<1>4. CASE Passing
  <2>1. /\ UNCHANGED <<nodes, tree, plan, limit>>
        /\ pc'[Master] = pc[Master] \/ pc'[Master] \notin Holding
    BY <1>4, PassingKeeps
  <2>2. CASE pc'[Master] = pc[Master]
    BY <2>1, <2>2 DEF Served, Hindered, Limited, Sent
  <2>3. CASE pc'[Master] \notin Holding
    BY <2>3 DEF Served, Holding, Evolving
  <2> QED
    BY <2>1, <2>2, <2>3
<1> QED
  BY <1>2, <1>3, <1>4, OneStep, PlanServed, EvolveServed, FinalizeServed DEF ThreadStep

LEMMA StepDoneSent ==
  ASSUME OneThread, BaseInv, Served(Master), DoneSent, [Next]_vars
  PROVE  DoneSent'
<1> SUFFICES ASSUME NEW f \in Forest, PhaseOf(f)' = "complete"
             PROVE  Sent(f, LastTime)'
  BY DEF DoneSent
<1>1. SUFFICES Sent(f, LastTime)
  BY SentKept
<1>2. CASE PhaseOf(f) # "complete"
  <2>1. \A g : ~Moves(g, "unbuilt", "evolving") /\ ~Moves(g, "waiting", "evolving")
               /\ ~Moves(g, "evolving", "aside")
    BY <1>2 DEF Moves
  <2>2. ~Turns
    BY <1>2 DEF Turns
  <2>3. PICK t \in Threads, g \in Forest :
          Destroy(t) /\ g = tree[t] /\ Moves(g, "evolving", "complete")
    BY <1>2, <2>1, <2>2, PhaseMoves DEF BaseInv
  <2>4. t = Master /\ g = f
    BY <1>2, <2>3 DEF Moves, OneThread
  <2> QED
    BY <2>3, <2>4 DEF Destroy, Served
<1> QED
  BY <1>2 DEF DoneSent

-------------------------------------------------------------------------------
(* How far forests are *)

(* Events are only attached later than one that is performed. *)
LEMMA StepNoEventBefore ==
  ASSUME OneThread, BaseInv, [Next]_vars, NEW o \in Nat, NoEventBefore(o)
  PROVE  NoEventBefore(o)'
<1>1. TypeInv /\ EventsInv /\ Master \in Threads
  BY TheThread DEF BaseInv
<1>2. CASE events' = events
  BY <1>2 DEF NoEventBefore
<1>3. CASE Performed
  <2>1. PICK e \in ElementsOf(events) :
          \A x \in ElementsOf(events') \ ElementsOf(events) : e.time < x.time
    BY <1>3 DEF Performed
  <2>2. PICK i \in DOMAIN events : e = events[i]
    BY Zenon DEF ElementsOf
  <2>3. ASSUME NEW j \in DOMAIN events' PROVE o <= events'[j].time
    <3>1. CASE events'[j] \in ElementsOf(events)
      BY <3>1 DEF ElementsOf, NoEventBefore
    <3>2. CASE events'[j] \notin ElementsOf(events)
      <4>1. events'[j] \in ElementsOf(events')
        BY Zenon DEF ElementsOf
      <4>2. o <= events[i].time /\ events[i].time < events'[j].time
        BY <2>1, <2>2, <3>2, <4>1 DEF NoEventBefore
      <4>3. events'[j].time \in Nat /\ events[i].time \in Nat
        BY <1>1, StepTypeInv, EventsTypedPrime, EventsTyped
      <4> QED
        BY <4>2, <4>3
    <3> QED
      BY <3>1, <3>2
  <2> QED
    BY <2>3 DEF NoEventBefore
<1>4. events' = events \/ Performed
  <2>1. CASE ThreadStep(Master)
    BY <1>1, <2>1, ThreadStepFrames DEF Frame
  <2>2. CASE MasterTransfers
    BY <1>1, <2>2, TeamEvents DEF TeamStep, MasterStep
  <2>3. CASE Passing
    BY <2>3, PassingKeeps
  <2> QED
    BY <2>1, <2>2, <2>3, OneStep
<1> QED
  BY <1>2, <1>3, <1>4

(* A forest is where it began, or no event lies behind it. *)
TimesInv ==
  \A f \in Forest :
    /\ StartTime[f] <= time[f]
    /\ time[f] = StartTime[f] \/ (time[f] <= LastTime /\ NoEventBefore(time[f]))
    /\ f \notin HandedOut => time[f] = StartTime[f]

LEMMA StepTimes ==
  ASSUME OneThread, BaseInv, TimesInv, [Next]_vars
  PROVE  TimesInv'
<1>1. /\ Master \in Threads /\ TypeInv /\ OwnerInv /\ time \in [Forest -> Nat]
      /\ \A f \in Forest : time[f] \in Nat /\ StartTime[f] \in Nat
  BY TheThread, ForestAssumption DEF TypeInv, TypeOK, ForestsOK
<1>2. CASE UNCHANGED time
  <2>1. HandedOut \subseteq HandedOut'
    <3>1. UNCHANGED forestNumber \/ forestNumber' = forestNumber + 1
      <4>1. CASE ThreadStep(Master)
        BY <4>1 DEF ThreadStep, Fetch, FetchNew, FetchNone, Resume, ResumeNone, Plan,
           Limit, Evolve, EvolveBegin, EvolveAdvance, EvolvePush, EvolvePull,
           EvolveSuspend, EvolveEnd, Finalize, Record, FinalizeShort, FinalizeLimited,
           FinalizeOutput, Destroy, Suspend, Decide
      <4> QED
        BY <4>1, OneStep, PassingKeeps, TransfersKeeps
    <3>2. forestNumber \in Nat
      BY <1>1, ForestNumbers
    <3> QED
      BY <3>1, <3>2 DEF HandedOut
  <2>2. ASSUME NEW f \in Forest PROVE NoEventBefore(time[f]) => NoEventBefore(time[f])'
    <3>1. PICK o \in Nat : o = time[f]
      BY <1>1
    <3>2. NoEventBefore(o) => NoEventBefore(o)'
      BY StepNoEventBefore
    <3> QED
      BY <1>2, <3>1, <3>2
  <2> QED
    BY <1>2, <2>1, <2>2 DEF TimesInv
<1>3. CASE EvolveAdvance(Master)
  <2>0. PICK f : f = tree[Master]
    OBVIOUS
  <2>1. /\ pc[Master] = "evolve" /\ UNCHANGED <<forestNumber, events>> /\ ~AtTarget(Master)
        /\ time' = [time EXCEPT ![f] = @ + 1]
    BY <1>3, <2>0 DEF EvolveAdvance
  <2>2. f \in Forest /\ f \in HandedOut /\ evolveToTime[Master] \in Nat
        /\ EndTime[f] \in Nat /\ pc[Master] \in Evolving /\ pc[Master] \in Began
    BY <1>1, <2>0, <2>1, ThreadTypes DEF Holding, Evolving, Began, OwnerInv, Places
  <2>3. time[f] < evolveToTime[Master]
    BY <1>1, <2>0, <2>1, <2>2, FinalTimeIs
  <2>4. evolveToTime[Master] <= LastTime /\ NoEventBefore(evolveToTime[Master])
    <3>1. /\ NoEventBefore(evolveToTime[Master])
          /\ evolveToTime[Master] <= OutputTime[iOutput[Master]]
      BY <2>2, TheThread DEF Aims
    <3>2. iOutput[Master] \in 1 .. NOutputs /\ OutputTime[iOutput[Master]] \in Nat
      BY <1>1, <2>2, ThreadTypes
    <3> QED
      BY <2>2, <3>1, <3>2, LastTimeIs
  <2>5. time'[f] = time[f] + 1 /\ time'[f] <= LastTime /\ StartTime[f] <= time'[f]
    BY <1>1, <2>1, <2>2, <2>3, <2>4, LastTimeIs DEF TimesInv
  <2>6. NoEventBefore(time[f])'
    <3>1. \A i \in DOMAIN events : events[i].time \in Nat
      BY <1>1, EventsTyped
    <3>2. time[f] + 1 <= evolveToTime[Master]
      BY <1>1, <2>2, <2>3
    <3>3. \A i \in DOMAIN events : time[f] + 1 <= events[i].time
      BY <1>1, <2>2, <2>4, <3>1, <3>2 DEF NoEventBefore
    <3> QED
      BY <2>1, <2>5, <3>3 DEF NoEventBefore
  <2>7. ASSUME NEW g \in Forest, g # f
        PROVE  time'[g] = time[g] /\ (NoEventBefore(time[g]) => NoEventBefore(time[g])')
    BY <1>1, <2>1, <2>7 DEF NoEventBefore
  <2> QED
    BY <2>1, <2>2, <2>5, <2>6, <2>7 DEF TimesInv, HandedOut
<1>4. CASE ThreadStep(Master) /\ ~EvolveAdvance(Master)
  <2>1. UNCHANGED time
    BY <1>4 DEF ThreadStep, Fetch, FetchNew, FetchNone, Resume, ResumeNone, Plan, Limit,
       Evolve, EvolveBegin, EvolvePush, EvolvePull, EvolveSuspend, EvolveEnd, Finalize,
       Record, FinalizeShort, FinalizeLimited, FinalizeOutput, Destroy, Suspend, Decide
  <2> QED
    BY <1>2, <2>1
<1>5. CASE MasterTransfers \/ Passing
  BY <1>2, <1>5, PassingKeeps, TransfersKeeps
<1> QED
  BY <1>3, <1>4, <1>5, OneStep

-------------------------------------------------------------------------------
(* What stands in a forest's way *)

(* Nothing has evolved so far in this pass. *)
Idle == /\ ~treesDidEvolve
        /\ pc[Master] \in {"evolve", "record"} => ~treeDidEvolve

LEMMA IdleStep ==
  ASSUME BaseInv, ThreadStep(Master), Idle'
  PROVE  Idle /\ UNCHANGED <<time, nodes>>
<1>1. pc \in [Threads -> Points] /\ Master \in Threads
      /\ treesDidEvolve \in BOOLEAN /\ treeDidEvolve \in BOOLEAN
  BY TheThread
<1>2. CASE EvolveAdvance(Master) \/ EvolvePush(Master) \/ EvolvePull(Master)
  <2>1. pc'[Master] = "evolve" /\ treeDidEvolve' = TRUE
    BY <1>2 DEF EvolveAdvance, EvolvePush, EvolvePull
  <2> QED
    BY <2>1 DEF Idle
<1>3. CASE Record(Master)
  <2>1. /\ treesDidEvolve' = (treesDidEvolve \/ treeDidEvolve)
        /\ UNCHANGED <<time, nodes>>
    BY <1>3 DEF Record, SomeEvolved
  <2> QED
    BY <1>1, <2>1 DEF Idle
<1>4. CASE EvolveBegin(Master)
  <2>1. pc[Master] = "begin" /\ UNCHANGED <<treesDidEvolve, time, nodes>>
    BY <1>4 DEF EvolveBegin
  <2> QED
    BY <2>1 DEF Idle
<1>5. CASE EvolveSuspend(Master) \/ EvolveEnd(Master)
  <2>1. pc'[Master] = "record" /\ UNCHANGED <<didEvolve, time, nodes>>
    BY <1>1, <1>5 DEF EvolveSuspend, EvolveEnd
  <2> QED
    BY <2>1 DEF Idle
<1>6. CASE Fetch(Master) \/ Plan(Master) \/ Limit(Master) \/ Decide(Master)
  <2>1. /\ pc[Master] \notin {"evolve", "record"}
        /\ UNCHANGED <<didEvolve, time, nodes>>
    BY <1>6 DEF Fetch, FetchNew, FetchNone, Resume, ResumeNone, Plan, Limit, Decide
  <2> QED
    BY <2>1 DEF Idle
<1>7. CASE FinalizeShort(Master) \/ FinalizeLimited(Master) \/ FinalizeOutput(Master)
           \/ Destroy(Master) \/ Suspend(Master)
  <2>1. /\ pc[Master] \notin {"evolve", "record"}
        /\ UNCHANGED <<didEvolve, time, nodes>>
    BY <1>7 DEF FinalizeShort, FinalizeLimited, FinalizeOutput, Destroy, Suspend
  <2> QED
    BY <2>1 DEF Idle
<1> QED
  BY <1>2, <1>3, <1>4, <1>5, <1>6, <1>7 DEF ThreadStep, Evolve, Finalize

(* A forest that ends before its target is evolved only if it has a node to send or
   to be sent. *)
BeginInv ==
  pc[Master] = "evolve" /\ ~treeDidEvolve /\ EndTime[tree[Master]] < evolveToTime[Master]
    => HasInterTreeEvent(tree[Master])

LEMMA StepBegin ==
  ASSUME OneThread, BaseInv, BeginInv, [Next]_vars
  PROVE  BeginInv'
<1>1. pc \in [Threads -> Points] /\ Master \in Threads
  BY TheThread
<1>2. CASE EvolveBegin(Master)
  <2>1. PICK f : f = tree[Master]
    OBVIOUS
  <2>2. CASE pc'[Master] # "evolve"
    BY <2>2 DEF BeginInv
  <2>3. CASE pc'[Master] = "evolve"
    <3>1. /\ UNCHANGED <<tree, evolveToTime, nodes>>
          /\ evolveToTime[Master] > EndTime[f] => HasInterTreeEvent(f)
      BY <1>1, <1>2, <2>1, <2>3 DEF EvolveBegin
    <3>2. EndTime[f] < evolveToTime[Master] => evolveToTime[Master] > EndTime[f]
      OBVIOUS
    <3>3. HasInterTreeEvent(f) => HasInterTreeEvent(f)'
      BY <3>1 DEF HasInterTreeEvent
    <3> QED
      BY <2>1, <3>1, <3>2, <3>3 DEF BeginInv
  <2> QED
    BY <2>2, <2>3
<1>3. CASE EvolveAdvance(Master) \/ EvolvePush(Master) \/ EvolvePull(Master)
  <2>1. treeDidEvolve'
    BY <1>3 DEF EvolveAdvance, EvolvePush, EvolvePull
  <2> QED
    BY <2>1 DEF BeginInv
<1>4. CASE Passing
  <2>1. /\ UNCHANGED <<treeDidEvolve, tree, evolveToTime, nodes>>
        /\ pc'[Master] = pc[Master] \/ pc'[Master] # "evolve"
    BY <1>4, PassingKeeps DEF Holding, Evolving
  <2> QED
    BY <2>1 DEF BeginInv, HasInterTreeEvent
<1>5. CASE MasterTransfers
  <2>1. pc'[Master] = "universe"
    BY <1>5, TransfersKeeps
  <2> QED
    BY <2>1 DEF BeginInv
<1>6. CASE EvolveSuspend(Master) \/ EvolveEnd(Master) \/ Fetch(Master) \/ Plan(Master)
           \/ Limit(Master) \/ Decide(Master)
  <2>1. pc'[Master] # "evolve"
    BY <1>1, <1>6 DEF EvolveSuspend, EvolveEnd, Fetch, FetchNew, FetchNone, Resume,
       ResumeNone, Plan, Limit, Decide
  <2> QED
    BY <2>1 DEF BeginInv
<1>7. CASE Finalize(Master)
  <2>1. pc'[Master] # "evolve"
    BY <1>1, <1>7 DEF Finalize, Record, FinalizeShort, FinalizeLimited, FinalizeOutput,
       Destroy, Suspend
  <2> QED
    BY <2>1 DEF BeginInv
<1> QED
  BY <1>2, <1>3, <1>4, <1>5, <1>6, <1>7, OneStep DEF ThreadStep, Evolve

(* The thread evolves, and sends nodes to, no forest but its own. *)
LEMMA PullKept ==
  ASSUME BaseInv, ThreadStep(Master), NEW f \in Forest, f # tree[Master]
  PROVE  time'[f] = time[f] /\ PullDue(f)' = PullDue(f)
<1>1. time'[f] = time[f]
  BY TheThread, ThreadStepFrames DEF Frame
<1>2. \A x \in Transfers : x.to = f => (x \in pulled' <=> x \in pulled)
  <2>1. CASE EvolvePull(Master)
    BY <2>1 DEF EvolvePull, Due, PullDue
  <2>2. CASE ~EvolvePull(Master)
    <3>1. UNCHANGED pulled
      BY <2>2 DEF ThreadStep, Fetch, FetchNew, FetchNone, Resume, ResumeNone, Plan,
         Limit, Evolve, EvolveBegin, EvolveAdvance, EvolvePush, EvolveSuspend,
         EvolveEnd, Finalize, Record, FinalizeShort, FinalizeLimited, FinalizeOutput,
         Destroy, Suspend, Decide
    <3> QED
      BY <3>1
  <2> QED
    BY <2>1, <2>2
<1> QED
  BY <1>1, <1>2 DEF PullDue

(* A tree on a stack is not the one the thread holds. *)
LEMMA SuspendedElsewhere ==
  ASSUME BaseInv, NEW f \in Suspended
  PROVE  f \in Forest /\ f # tree[Master]
<1>1. /\ Master \in Threads /\ OwnerInv /\ TypeInv /\ NoTree \notin Forest
  BY TheThread, ForestAssumption
<1>2. Suspended \subseteq HandedOut /\ HandedOut \subseteq Forest
  BY <1>1, HeldHandedOut, ForestNumbers DEF HandedOut, Forest
<1> QED
  BY <1>1, <1>2 DEF OwnerInv, OneOwner, Held

(* What a step does to the stacks. *)
LEMMA ThreadStacks ==
  ASSUME BaseInv, ThreadStep(Master)
  PROVE  /\ ElementsOf(universeWaiting') \subseteq ElementsOf(universeWaiting)
         /\ Resume(Master) => tree'[Master] \in ElementsOf(universeWaiting)
         /\ IF Suspend(Master)
            THEN ElementsOf(universeProcessed')
                   = ElementsOf(universeProcessed) \union {tree[Master]}
            ELSE universeProcessed' = universeProcessed
<1>1. /\ Master \in Threads /\ OwnerInv /\ TypeInv
      /\ universeProcessed \in Seq(Forest) /\ universeWaiting \in Seq(Forest)
      /\ NoRepeats(universeWaiting)
      /\ tree \in [Threads -> Forest \union {NoTree}]
  BY TheThread, ThreadTypes DEF TypeInv, TypeOK, UniverseOK, OwnerInv, OneOwner
<1>2. CASE Resume(Master)
  <2>1. /\ universeWaiting # <<>> /\ universeProcessed' = universeProcessed
        /\ universeWaiting' = Tail(universeWaiting)
        /\ tree'[Master] = Head(universeWaiting)
        /\ ~Suspend(Master)
    BY <1>1, <1>2 DEF Resume, PopTree, Suspend
  <2> QED
    BY <1>1, <2>1, TailElements
<1>3. CASE Suspend(Master)
  <2>1. /\ pc[Master] = "release" /\ universeWaiting' = universeWaiting
        /\ universeProcessed' = Append(universeProcessed, tree[Master])
    BY <1>3 DEF Suspend, PushTree
  <2>2. tree[Master] \in Forest /\ ~Resume(Master)
    BY <2>1, TheThread DEF Holding, Resume
  <2> QED
    BY <1>1, <1>3, <2>1, <2>2, AppendElements
<1>4. CASE ~Resume(Master) /\ ~Suspend(Master)
  <2>1. UNCHANGED stacks
    BY <1>4 DEF ThreadStep, Fetch, FetchNew, FetchNone, ResumeNone, Plan, Limit, Evolve,
       EvolveBegin, EvolveAdvance, EvolvePush, EvolvePull, EvolveSuspend, EvolveEnd,
       Finalize, Record, FinalizeShort, FinalizeLimited, FinalizeOutput, Destroy, Decide
  <2> QED
    BY <1>4, <2>1
<1> QED
  BY <1>2, <1>3, <1>4

(* What lays a forest aside: a node it lacks, or the event found last. *)
FoundAt == EventAt(universalEvolveToTime)
Laid(f) == PullDue(f) # {} \/ FoundAt
HeldLaid ==
  /\ pc[Master] \in {"begin", "evolve", "record"} /\ evolutionIsEventLimited[Master]
       => FoundAt /\ evolveToTime[Master] = universalEvolveToTime
  /\ pc[Master] = "record" /\ suspendTree[Master] => PullDue(tree[Master]) # {}
  /\ pc[Master] = "finalize" /\ Hindered(Master) => Laid(tree[Master])
  /\ pc[Master] = "release" /\ ~treeIsFinished[Master] => Laid(tree[Master])
LaidInv == HeldLaid /\ \A f \in ElementsOf(universeProcessed) : Laid(f)

LEMMA LimitLaid ==
  ASSUME BaseInv, Limit(Master)
  PROVE  evolutionIsEventLimited'[Master]
           => FoundAt' /\ evolveToTime'[Master] = universalEvolveToTime'
<1> DEFINE target == OutputTime[iOutput[Master]]
           before == EventBefore(target)
           first  == Least(before \union {target})
<1>1. /\ Master \in Threads /\ TypeInv /\ pc[Master] = "limit"
      /\ evolutionIsEventLimited \in [Threads -> BOOLEAN]
      /\ evolveToTime \in [Threads -> Nat]
  BY TheThread, ThreadTypes DEF Limit
<1>2. target \in Nat
  BY <1>1, ThreadTypes DEF Evolving
<1>3. before # {} => \E i \in DOMAIN events : first = events[i].time
  BY <1>1, <1>2, FirstEventBefore
<1>4. /\ universalEvolveToTime' = IF before # {} THEN first ELSE universalEvolveToTime
      /\ evolutionIsEventLimited'[Master] = (before # {})
      /\ evolveToTime'[Master] = first /\ events' = events
  BY <1>1 DEF Limit
<1> HIDE DEF before, first
<1> QED
  BY <1>3, <1>4 DEF FoundAt, EventAt

LEMMA HeldStaysLaid ==
  ASSUME BaseInv, ~deadlockReport, HeldLaid, ThreadStep(Master)
  PROVE  HeldLaid'
<1>1. /\ pc \in [Threads -> Points] /\ Master \in Threads /\ TypeInv /\ EventsInv
      /\ Aims(Master)
      /\ treeIsFinished \in [Threads -> BOOLEAN] /\ suspendTree \in [Threads -> BOOLEAN]
      /\ evolutionIsEventLimited \in [Threads -> BOOLEAN]
  BY TheThread, ThreadTypes DEF BaseInv
<1>2. FoundAt => FoundAt' /\ UNCHANGED universalEvolveToTime
  BY <1>1, TimeFoundKept DEF FoundAt, EventAt
<1>3. CASE Fetch(Master) \/ Decide(Master) \/ Destroy(Master) \/ Suspend(Master)
  <2>1. pc'[Master] \in {"plan", "resume", "passEnd", "trigger", "fetch"}
    BY <1>1, <1>3 DEF Fetch, FetchNew, FetchNone, Resume, ResumeNone, Decide, Destroy,
       Suspend
  <2> QED
    BY <2>1 DEF HeldLaid
<1>4. CASE Plan(Master) \/ FinalizeOutput(Master)
  <2>1. pc'[Master] = "limit" \/ (pc'[Master] = "release" /\ treeIsFinished'[Master])
    BY <1>1, <1>4 DEF Plan, FinalizeOutput
  <2> QED
    BY <2>1 DEF HeldLaid
<1>5. CASE Limit(Master)
  <2>1. pc'[Master] = "begin"
    BY <1>1, <1>5 DEF Limit
  <2> QED
    BY <1>5, <2>1, LimitLaid DEF HeldLaid
<1>6. CASE EvolveBegin(Master)
  <2>1. /\ pc[Master] = "begin" /\ pc'[Master] \in {"evolve", "record"}
        /\ UNCHANGED <<evolveToTime, evolutionIsEventLimited>>
        /\ suspendTree'[Master] = FALSE
    BY <1>1, <1>6 DEF EvolveBegin
  <2> QED
    BY <1>2, <2>1 DEF HeldLaid
<1>7. CASE EvolveAdvance(Master) \/ EvolvePush(Master) \/ EvolvePull(Master)
  <2>1. /\ pc[Master] = "evolve" /\ pc'[Master] = "evolve"
        /\ UNCHANGED <<evolveToTime, evolutionIsEventLimited>>
    BY <1>7 DEF EvolveAdvance, EvolvePush, EvolvePull
  <2> QED
    BY <1>2, <2>1 DEF HeldLaid
<1>8. CASE EvolveSuspend(Master)
  <2>1. /\ pc[Master] = "evolve" /\ pc'[Master] = "record"
        /\ UNCHANGED <<evolveToTime, evolutionIsEventLimited, tree, time, nodes>>
        /\ PullDue(tree[Master]) # {}
    BY <1>1, <1>8 DEF EvolveSuspend, Due
  <2> QED
    BY <1>2, <2>1 DEF HeldLaid, PullDue
<1>9. CASE EvolveEnd(Master)
  <2>1. /\ pc[Master] = "evolve" /\ pc'[Master] = "record"
        /\ UNCHANGED limit /\ ~suspendTree[Master]
    BY <1>1, <1>9 DEF EvolveEnd, Aims
  <2> QED
    BY <1>2, <2>1 DEF HeldLaid
<1>10. CASE Record(Master)
  <2>1. /\ pc[Master] = "record" /\ pc'[Master] = "finalize"
        /\ evolutionIsEventLimited'[Master]
             = (evolutionIsEventLimited[Master] \/ suspendTree[Master])
        /\ UNCHANGED <<tree, time, nodes, universal>>
    BY <1>1, <1>10 DEF Record, Limited
  <2> QED
    BY <2>1 DEF HeldLaid, Hindered, Laid, PullDue, FoundAt, EventAt
<1>11. CASE FinalizeShort(Master)
  <2>1. pc[Master] = "finalize" /\ UNCHANGED <<pc, tree, plan, limit, time, nodes, universal>>
    BY <1>11 DEF FinalizeShort
  <2> QED
    BY <2>1 DEF HeldLaid, Hindered, Laid, PullDue, FoundAt, EventAt
<1>12. CASE FinalizeLimited(Master)
  <2>1. /\ pc[Master] = "finalize" /\ pc'[Master] = "release" /\ evolutionIsEventLimited[Master]
        /\ UNCHANGED <<tree, plan, limit, time, nodes, universal>>
    BY <1>1, <1>12 DEF FinalizeLimited
  <2> QED
    BY <2>1 DEF HeldLaid, Hindered, Laid, PullDue, FoundAt, EventAt
<1> QED
  BY <1>3, <1>4, <1>5, <1>6, <1>7, <1>8, <1>9, <1>10, <1>11, <1>12
     DEF ThreadStep, Evolve, Finalize

LEMMA StepLaid ==
  ASSUME OneThread, BaseInv, ~deadlockReport, LaidInv, [Next]_vars
  PROVE  LaidInv'
<1>1. Master \in Threads /\ TypeInv /\ EventsInv
  BY TheThread DEF BaseInv
<1>2. CASE ThreadStep(Master)
  <2>1. FoundAt => FoundAt'
    BY <1>1, <1>2, TimeFoundKept DEF FoundAt, EventAt
  <2>2. ASSUME NEW f \in ElementsOf(universeProcessed) PROVE Laid(f)'
    <3>1. f \in Forest /\ f # tree[Master]
      BY SuspendedElsewhere DEF Suspended
    <3> QED
      BY <1>2, <2>1, <3>1, PullKept DEF LaidInv, Laid
  <2>3. CASE Suspend(Master)
    <3>1. PICK f : f = tree[Master]
      OBVIOUS
    <3>2. Laid(f)
      BY <2>3, <3>1 DEF Suspend, LaidInv, HeldLaid
    <3>3. Laid(f)'
      BY <2>1, <2>3, <3>2 DEF Suspend, Laid, PullDue
    <3>4. ElementsOf(universeProcessed') = ElementsOf(universeProcessed) \union {f}
      BY <1>2, <2>3, <3>1, ThreadStacks
    <3> QED
      BY <1>2, <2>2, <3>3, <3>4, HeldStaysLaid DEF LaidInv
  <2>4. CASE ~Suspend(Master)
    BY <1>2, <2>2, <2>4, ThreadStacks, HeldStaysLaid DEF LaidInv
  <2> QED
    BY <2>3, <2>4
<1>3. CASE MasterTransfers
  <2>1. pc'[Master] = "universe" /\ universeProcessed' = <<>>
    BY <1>3, TransfersKeeps
  <2> QED
    BY <2>1, EmptyElements DEF LaidInv, HeldLaid
<1>4. CASE Passing
  <2>1. /\ UNCHANGED <<universal, stacks, nodes, tree, plan, limit, forests>>
        /\ pc'[Master] = pc[Master] \/ pc'[Master] \notin Holding
    BY <1>4, PassingKeeps
  <2>2. UNCHANGED <<events, universalEvolveToTime, universeProcessed, pulled, tree,
                    treeIsFinished, evolveToTime, evolutionIsEventLimited, suspendTree,
                    time>>
    BY <2>1
  <2>3. \A f : Laid(f) => Laid(f)'
    BY <2>2 DEF Laid, PullDue, FoundAt, EventAt
  <2>4. HeldLaid'
    <3>1. CASE pc'[Master] = pc[Master]
      BY <2>2, <3>1 DEF LaidInv, HeldLaid, Hindered, Limited, Laid, PullDue, FoundAt, EventAt
    <3>2. CASE pc'[Master] \notin Holding
      BY <3>2 DEF HeldLaid, Holding, Evolving
    <3> QED
      BY <2>1, <3>1, <3>2
  <2> QED
    BY <2>2, <2>3, <2>4 DEF LaidInv
<1> QED
  BY <1>2, <1>3, <1>4, OneStep

-------------------------------------------------------------------------------
(* Events let forests go *)

(* The time of an event is one of its creator's schedule. *)
LEMMA EventParts ==
  ASSUME NEW e \in Event
  PROVE  /\ e.creator \in Creators /\ e.index \in DOMAIN Schedule[e.creator]
         /\ e.time = Schedule[e.creator][e.index]
BY DEF Event, EventOf

LEMMA DistinctTimes ==
  ASSUME DistinctEvents, TypeInv, OneEventEach, NEW i \in DOMAIN events,
         NEW k \in DOMAIN events, i # k
  PROVE  events[i].time # events[k].time
<1>1. events[i] \in Event /\ events[k] \in Event /\ events[i].creator # events[k].creator
  BY EventsTyped DEF OneEventEach
<1>2. \A e \in Event : /\ e.creator \in Creators
                       /\ e.index \in DOMAIN Schedule[e.creator]
                       /\ e.time = Schedule[e.creator][e.index]
  BY EventParts
<1>3. PICK c, d, m, n : /\ c = events[i].creator /\ m = events[i].index
                        /\ d = events[k].creator /\ n = events[k].index
  OBVIOUS
<1>4. /\ c \in Creators /\ m \in DOMAIN Schedule[c] /\ events[i].time = Schedule[c][m]
      /\ d \in Creators /\ n \in DOMAIN Schedule[d] /\ events[k].time = Schedule[d][n]
      /\ c # d
  BY <1>1, <1>2, <1>3
<1> QED
  BY <1>4 DEF DistinctEvents

(* Once the event found last is performed, the others lie later. *)
LEMMA FirstPerformed ==
  ASSUME DistinctEvents, TypeInv, EventsInv, FoundAt, PerformEvent
  PROVE  \A j \in DOMAIN events' : universalEvolveToTime < events'[j].time
<1>1. /\ universalEvolveToTime \in Nat /\ \A k \in DOMAIN events : events[k].time \in Nat
      /\ \A k \in DOMAIN events : universalEvolveToTime <= events[k].time
      /\ OneEventEach
  BY EventsTyped DEF EventsInv, EventsAhead
<1>2. PICK i \in DOMAIN events :
        /\ events[i].time <= universalEvolveToTime
        /\ IF events[i].time < universalEvolveToTime
           THEN UNCHANGED events
           ELSE events' = After(i)
  <2>1. PICK k \in DOMAIN events : events[k].time = universalEvolveToTime
    BY DEF FoundAt, EventAt
  <2>2. events[k].time <= universalEvolveToTime
    BY <1>1, <2>1
  <2> QED
    BY <2>2 DEF PerformEvent, After
<1>3. events[i].time = universalEvolveToTime /\ events' = After(i)
  <2>1. \A a, b \in Nat : a <= b /\ b <= a => a = b /\ ~(a < b)
    OBVIOUS
  <2> QED
    BY <1>1, <1>2, <2>1
<1>4. ASSUME NEW k \in DOMAIN events \ {i} PROVE universalEvolveToTime < events[k].time
  <2>1. events[k].time # universalEvolveToTime
    BY <1>1, <1>3, DistinctTimes
  <2> QED
    BY <1>1, <2>1
<1> SUFFICES ASSUME NEW j \in DOMAIN After(i)
             PROVE  universalEvolveToTime < After(i)[j].time
  BY <1>3
<1>5. \/ \E k \in DOMAIN events \ {i} : After(i)[j] = events[k]
      \/ events[i].time < After(i)[j].time
  BY <1>1, AfterIs
<1> QED
  BY <1>3, <1>4, <1>5

(* Whatever else stands in a forest's way, it has not reached an event yet. *)
CanGo(f) ==
  \/ time[f] = StartTime[f] \/ PullDue(f) # {}
  \/ \A i \in DOMAIN events : time[f] < events[i].time
GoInv == /\ \A f \in ElementsOf(universeWaiting) : CanGo(f)
         /\ pc[Master] \in Holding /\ Idle => CanGo(tree[Master])

LEMMA TransfersGo ==
  ASSUME DistinctEvents, BaseInv, TimesInv, LaidInv, MasterTransfers,
         NEW f \in ElementsOf(universeProcessed)
  PROVE  CanGo(f)'
<1>1. /\ TypeInv /\ EventsInv /\ f \in Forest /\ Laid(f) /\ time[f] \in Nat
      /\ universalEvolveToTime \in Nat
      /\ UNCHANGED <<time, pulled>>
  BY TheThread, SuspendedElsewhere, TransfersKeeps, EventsTyped
     DEF BaseInv, LaidInv, TypeInv, TypeOK, ForestsOK, Suspended
<1>2. CASE PullDue(f) # {} \/ time[f] = StartTime[f]
  BY <1>1, <1>2 DEF CanGo, PullDue
<1>3. CASE FoundAt /\ time[f] # StartTime[f]
  <2>1. universeProcessed # <<>>
    BY EmptyElements
  <2>2. PerformEvent
    BY <2>1 DEF MasterTransfers
  <2>3. \A j \in DOMAIN events' : universalEvolveToTime < events'[j].time
    BY <1>1, <1>3, <2>2, FirstPerformed
  <2>4. time[f] <= universalEvolveToTime
    BY <1>1, <1>3 DEF TimesInv, FoundAt, EventAt, NoEventBefore
  <2>5. \A j \in DOMAIN events' : events'[j].time \in Nat
    <3>1. TypeInv'
      BY <1>1, MasterTransfersTyped
    <3> QED
      BY <3>1, EventsTypedPrime
  <2>6. \A j \in DOMAIN events' : time[f] < events'[j].time
    BY <1>1, <2>3, <2>4, <2>5
  <2> QED
    BY <1>1, <2>6 DEF CanGo
<1> QED
  BY <1>1, <1>2, <1>3 DEF Laid

LEMMA ThreadGoes ==
  ASSUME BaseInv, TimesInv, GoInv, ThreadStep(Master)
  PROVE  GoInv'
<1>1. /\ Master \in Threads /\ TypeInv /\ OwnerInv /\ pc \in [Threads -> Points]
      /\ tree \in [Threads -> Forest \union {NoTree}]
  BY TheThread, ThreadTypes
<1>2. events' = events
  BY <1>1, ThreadStepFrames DEF Frame
<1>3. ASSUME NEW f, time'[f] = time[f], PullDue(f)' = PullDue(f), CanGo(f)
      PROVE  CanGo(f)'
  BY <1>2, <1>3 DEF CanGo
<1>4. \A f \in ElementsOf(universeWaiting) : CanGo(f)'
  <2> SUFFICES ASSUME NEW f \in ElementsOf(universeWaiting) PROVE CanGo(f)'
    OBVIOUS
  <2>1. f \in Forest /\ f # tree[Master]
    BY SuspendedElsewhere DEF Suspended
  <2> QED
    BY <1>3, <2>1, PullKept DEF GoInv
<1>5. ASSUME pc'[Master] \in Holding, Idle' PROVE CanGo(tree[Master])'
  <2>1. Idle /\ UNCHANGED <<time, nodes>>
    BY <1>5, IdleStep
  <2>2. \A f : CanGo(f) => CanGo(f)'
    BY <1>2, <2>1 DEF CanGo, PullDue
  <2>3. CASE pc[Master] \in Holding /\ tree' = tree
    BY <2>1, <2>2, <2>3 DEF GoInv
  <2>4. CASE FetchNew(Master)
    <3>1. PICK f : f = tree'[Master]
      OBVIOUS
    <3>2. f = forestNumber + 1 /\ forestNumber < NForests
      BY <1>1, <2>4, <3>1 DEF FetchNew, WorkLeft
    <3>3. f \in Forest /\ f \notin HandedOut
      BY <1>1, <3>2, ForestNumbers DEF Forest, HandedOut
    <3>4. CanGo(f)
      BY <3>3 DEF TimesInv, CanGo
    <3> QED
      BY <2>2, <3>1, <3>4
  <2>5. CASE Resume(Master)
    BY <1>4, <2>5, ThreadStacks
  <2>6. \/ pc[Master] \in Holding /\ tree' = tree
        \/ FetchNew(Master) \/ Resume(Master) \/ pc'[Master] \notin Holding
    BY <1>1 DEF ThreadStep, Fetch, FetchNone, ResumeNone, Plan, Limit, Evolve,
       EvolveBegin, EvolveAdvance, EvolvePush, EvolvePull, EvolveSuspend, EvolveEnd,
       Finalize, Record, FinalizeShort, FinalizeLimited, FinalizeOutput, Destroy,
       Suspend, Decide, Holding, Evolving
  <2> QED
    BY <1>5, <2>3, <2>4, <2>5, <2>6
<1> QED
  BY <1>4, <1>5, ThreadStacks DEF GoInv

LEMMA StepGo ==
  ASSUME OneThread, DistinctEvents, BaseInv, TimesInv, LaidInv, GoInv, [Next]_vars
  PROVE  GoInv'
<1>1. CASE MasterTransfers
  <2>1. pc'[Master] = "universe" /\ universeWaiting' = universeProcessed
    BY <1>1, TransfersKeeps
  <2> QED
    BY <1>1, <2>1, TransfersGo DEF GoInv, Holding, Evolving
<1>2. CASE Passing
  <2>1. /\ UNCHANGED <<didEvolve, universal, stacks, nodes, tree, forests>>
        /\ pc'[Master] = pc[Master] \/ pc'[Master] \notin Holding
    BY <1>2, PassingKeeps
  <2>2. UNCHANGED <<treeDidEvolve, treesDidEvolve, events, universeWaiting, pulled, tree,
                    time>>
    BY <2>1
  <2>3. \A f : CanGo(f) => CanGo(f)'
    BY <2>2 DEF CanGo, PullDue
  <2>4. pc'[Master] = pc[Master] /\ Idle' => Idle
    BY <2>2 DEF Idle
  <2> QED
    BY <2>1, <2>2, <2>3, <2>4 DEF GoInv
<1> QED
  BY <1>1, <1>2, ThreadGoes, OneStep

-------------------------------------------------------------------------------
(* What stops a forest when nothing has evolved *)

WaitsForNode(f) ==
  /\ PushDue(f) = {} /\ PullDue(f) # {} /\ PullDue(f) \intersect waitList = {}
  /\ time[f] <= LastTime /\ NoEventBefore(time[f])
WaitsForEvent(f) ==
  /\ time[f] = StartTime[f]
  /\ \E i \in DOMAIN events :
       /\ events[i].time < LastTime /\ events[i].time <= time[f]
       /\ NoEventBefore(events[i].time)
       /\ time[f] = events[i].time => PushDue(f) = {}
Stuck(f) == WaitsForNode(f) \/ WaitsForEvent(f)
HeldStuck ==
  /\ pc[Master] \in {"record", "finalize"} /\ Hindered(Master) => Stuck(tree[Master])
  /\ pc[Master] = "release" /\ ~treeIsFinished[Master] => Stuck(tree[Master])
StuckInv == Idle => HeldStuck /\ \A f \in ElementsOf(universeProcessed) : Stuck(f)

LEMMA StuckStays ==
  ASSUME NEW f, Stuck(f), UNCHANGED <<time, nodes, events>>
  PROVE  Stuck(f)'
BY DEF Stuck, WaitsForNode, WaitsForEvent, PushDue, PullDue, NoEventBefore

(* The thread evolves towards a time that is not beyond the outputs. *)
LEMMA TargetIs ==
  ASSUME BaseInv, pc[Master] = "evolve"
  PROVE  /\ evolveToTime[Master] \in Nat /\ evolveToTime[Master] <= LastTime
         /\ NoEventBefore(evolveToTime[Master])
         /\ evolutionIsEventLimited[Master] => evolveToTime[Master] < LastTime
<1>1. /\ NoEventBefore(evolveToTime[Master]) /\ evolveToTime[Master] \in Nat
      /\ evolveToTime[Master] <= OutputTime[iOutput[Master]]
      /\ evolutionIsEventLimited[Master] =>
           evolveToTime[Master] < OutputTime[iOutput[Master]]
  BY TheThread DEF Aims, Began, Evolving, Hindered
<1>2. iOutput[Master] \in 1 .. NOutputs /\ OutputTime[iOutput[Master]] \in Nat
  BY TheThread, ThreadTypes DEF Evolving
<1> QED
  BY <1>1, <1>2, LastTimeIs

LEMMA SuspendStuck ==
  ASSUME BaseInv, EvolveSuspend(Master)
  PROVE  WaitsForNode(tree[Master])
<1>1. PICK f : f = tree[Master]
  OBVIOUS
<1>2. PICK e : e = evolveToTime[Master]
  OBVIOUS
<1>3. /\ pc[Master] = "evolve"
      /\ \A x \in PushDue(f) : ~(x.time <= e)
      /\ \E x \in PullDue(f) : x.time <= e
      /\ \A x \in PullDue(f) : x.time <= e => x \notin waitList
  BY <1>1, <1>2 DEF EvolveSuspend, Due
<1>4. e \in Nat /\ e <= LastTime /\ NoEventBefore(e) /\ f \in Forest /\ time[f] \in Nat
  BY <1>1, <1>2, <1>3, TargetIs, TheThread, ThreadTypes DEF Holding, Evolving
<1>5. time[f] <= e
  BY <1>3 DEF PullDue
<1>6. NoEventBefore(time[f])
  BY <1>4, <1>5, TheThread, EventsTyped DEF NoEventBefore
<1>7. \A x \in PushDue(f) \union PullDue(f) : x.time <= e
  BY <1>5 DEF PushDue, PullDue
<1> QED
  BY <1>1, <1>3, <1>4, <1>5, <1>6, <1>7, LastTimeIs DEF WaitsForNode

(* A forest that can evolve no further though nothing moved it is at its start. *)
LEMMA EndStuck ==
  ASSUME NodesMeet, NodesLeave, BaseInv, SentInOrder, TimesInv, BeginInv, LaidInv, GoInv,
         EvolveEnd(Master), Idle, evolutionIsEventLimited[Master]
  PROVE  WaitsForEvent(tree[Master])
<1>1. PICK f : f = tree[Master]
  OBVIOUS
<1>2. PICK e : e = evolveToTime[Master]
  OBVIOUS
<1>3. /\ pc[Master] = "evolve" /\ AtTarget(Master)
      /\ \A x \in PushDue(f) \union PullDue(f) : ~(x.time <= e)
  BY <1>1, <1>2 DEF EvolveEnd, Due
<1>4. /\ e \in Nat /\ e < LastTime /\ NoEventBefore(e)
      /\ f \in Forest /\ time[f] \in Nat /\ EndTime[f] \in Nat
  BY <1>1, <1>2, <1>3, TargetIs, TheThread, ThreadTypes DEF Holding, Evolving
<1>5. e <= time[f] \/ EndTime[f] <= time[f]
  BY <1>1, <1>2, <1>3, <1>4, FinalTimeIs
<1>6. PICK i \in DOMAIN events : events[i].time = e
  BY <1>2, <1>3 DEF LaidInv, HeldLaid, FoundAt, EventAt
<1>7. e <= time[f]
  <2> SUFFICES ASSUME time[f] < e PROVE FALSE
    BY <1>4
  <2>1. EndTime[f] <= time[f] /\ EndTime[f] < e
    BY <1>4, <1>5
  <2>2. HasInterTreeEvent(f)
    BY <1>1, <1>2, <1>3, <2>1 DEF BeginInv, Idle
  <2>3. ASSUME NEW x \in Transfers, x.from = f, x \notin waitList \union pulled
        PROVE  FALSE
    <3>1. x.time \in Nat /\ x.time <= EndTime[f] /\ time[f] <= x.time
      BY <2>3, TransferSource DEF SentInOrder
    <3>2. x.time = time[f]
      BY <1>4, <2>1, <3>1
    <3> QED
      BY <1>3, <1>4, <2>3, <3>2 DEF PushDue
  <2>4. ASSUME NEW x \in Transfers, x.to = f, x \notin pulled PROVE FALSE
    <3>1. x.time \in Nat /\ x.time <= EndTime[f] /\ time[f] <= x.time
      BY <1>4, <2>4, TransferTypes DEF BaseInv, NodesInOrder, NodesMeet
    <3>2. x.time = time[f]
      BY <1>4, <2>1, <3>1
    <3> QED
      BY <1>3, <1>4, <2>4, <3>2 DEF PullDue
  <2> QED
    BY <2>2, <2>3, <2>4 DEF HasInterTreeEvent
<1>8. time[f] = StartTime[f]
  <2>1. CASE PullDue(f) # {}
    <3>1. e < time[f]
      BY <1>3, <1>4, <2>1 DEF PullDue
    <3> QED
      BY <1>4, <1>6, <3>1 DEF TimesInv, NoEventBefore
  <2>2. CASE PullDue(f) = {}
    <3>1. CanGo(f)
      BY <1>1, <1>3 DEF GoInv, Holding, Evolving
    <3>2. ~(time[f] < events[i].time)
      BY <1>4, <1>6, <1>7
    <3> QED
      BY <2>2, <3>1, <3>2 DEF CanGo
  <2> QED
    BY <2>1, <2>2
<1>9. time[f] = e => PushDue(f) = {}
  BY <1>3, <1>4 DEF PushDue
<1> QED
  BY <1>1, <1>4, <1>6, <1>7, <1>8, <1>9 DEF WaitsForEvent

LEMMA HeldStaysStuck ==
  ASSUME NodesMeet, NodesLeave, BaseInv, ~deadlockReport, SentInOrder, TimesInv, BeginInv,
         LaidInv, GoInv, Idle, HeldStuck, ThreadStep(Master), Idle'
  PROVE  HeldStuck'
<1>1. /\ pc \in [Threads -> Points] /\ Master \in Threads /\ Aims(Master) /\ TypeInv
      /\ treeIsFinished \in [Threads -> BOOLEAN] /\ suspendTree \in [Threads -> BOOLEAN]
      /\ evolutionIsEventLimited \in [Threads -> BOOLEAN]
      /\ UNCHANGED <<time, nodes, events>>
  BY TheThread, ThreadTypes, IdleStep, ThreadStepFrames DEF Frame
<1>2. CASE EvolveSuspend(Master)
  <2>1. pc'[Master] = "record" /\ tree' = tree
    BY <1>1, <1>2 DEF EvolveSuspend
  <2>2. Stuck(tree[Master])
    BY <1>2, SuspendStuck DEF Stuck
  <2>3. Stuck(tree[Master])'
    BY <1>1, <2>1, <2>2 DEF Stuck, WaitsForNode, WaitsForEvent, PushDue, PullDue,
       NoEventBefore
  <2> QED
    BY <2>1, <2>3 DEF HeldStuck
<1>3. CASE EvolveEnd(Master)
  <2>1. /\ pc[Master] = "evolve" /\ pc'[Master] = "record"
        /\ tree' = tree /\ UNCHANGED limit /\ ~suspendTree[Master]
    BY <1>1, <1>3 DEF EvolveEnd, Aims
  <2>2. CASE evolutionIsEventLimited[Master]
    <3>1. Stuck(tree[Master])
      BY <1>3, <2>2, EndStuck DEF Stuck
    <3>2. Stuck(tree[Master])'
      BY <1>1, <2>1, <3>1 DEF Stuck, WaitsForNode, WaitsForEvent, PushDue, PullDue,
         NoEventBefore
    <3> QED
      BY <2>1, <3>2 DEF HeldStuck
  <2>3. CASE ~evolutionIsEventLimited[Master]
    BY <2>1, <2>3 DEF HeldStuck, Hindered, Limited
  <2> QED
    BY <2>2, <2>3
<1>4. CASE Record(Master) \/ FinalizeShort(Master) \/ FinalizeLimited(Master)
  <2>1. /\ tree' = tree
        /\ \/ /\ pc[Master] = "record" /\ pc'[Master] = "finalize"
              /\ evolutionIsEventLimited'[Master] = Limited(Master)
           \/ pc[Master] = "finalize" /\ UNCHANGED <<pc, limit>>
           \/ pc[Master] = "finalize" /\ evolutionIsEventLimited[Master]
              /\ pc'[Master] = "release"
    BY <1>1, <1>4 DEF Record, FinalizeShort, FinalizeLimited
  <2>2. Hindered(Master)' => Hindered(Master)
    BY <2>1 DEF Hindered
  <2>3. /\ pc'[Master] \in {"finalize", "release"}
        /\ pc'[Master] = "finalize" => ~Hindered(Master)' \/ Stuck(tree[Master])
        /\ pc'[Master] = "release" => Stuck(tree[Master])
    BY <2>1, <2>2 DEF HeldStuck, Hindered
  <2>4. Stuck(tree[Master]) => Stuck(tree[Master])'
    BY <1>1, <2>1 DEF Stuck, WaitsForNode, WaitsForEvent, PushDue, PullDue, NoEventBefore
  <2> QED
    BY <2>3, <2>4 DEF HeldStuck
<1>5. CASE Plan(Master) \/ FinalizeOutput(Master)
  <2>1. pc'[Master] = "limit" \/ (pc'[Master] = "release" /\ treeIsFinished'[Master])
    BY <1>1, <1>5 DEF Plan, FinalizeOutput
  <2> QED
    BY <2>1 DEF HeldStuck
<1>6. CASE EvolveBegin(Master)
  <2>1. pc'[Master] = "evolve" \/ (pc'[Master] = "record" /\ treeDidEvolve')
    BY <1>1, <1>6 DEF EvolveBegin
  <2>2. pc'[Master] # "record"
    BY <2>1 DEF Idle
  <2> QED
    BY <2>1, <2>2 DEF HeldStuck
<1>7. CASE Fetch(Master) \/ Decide(Master) \/ Destroy(Master) \/ Suspend(Master)
           \/ Limit(Master)
  <2>1. pc'[Master] \in {"plan", "resume", "passEnd", "trigger", "fetch", "begin"}
    BY <1>1, <1>7 DEF Fetch, FetchNew, FetchNone, Resume, ResumeNone, Decide, Destroy,
       Suspend, Limit
  <2> QED
    BY <2>1 DEF HeldStuck
<1>8. CASE EvolveAdvance(Master) \/ EvolvePush(Master) \/ EvolvePull(Master)
  <2>1. pc'[Master] = "evolve"
    BY <1>1, <1>8 DEF EvolveAdvance, EvolvePush, EvolvePull
  <2> QED
    BY <2>1 DEF HeldStuck
<1> QED
  BY <1>2, <1>3, <1>4, <1>5, <1>6, <1>7, <1>8 DEF ThreadStep, Evolve, Finalize

LEMMA StepStuck ==
  ASSUME OneThread, NodesMeet, NodesLeave, BaseInv, ~deadlockReport, SentInOrder, TimesInv,
         BeginInv, LaidInv, GoInv, StuckInv, [Next]_vars
  PROVE  StuckInv'
<1>1. Master \in Threads /\ TypeInv /\ pc \in [Threads -> Points]
  BY TheThread
<1>2. CASE ThreadStep(Master)
  <2> SUFFICES ASSUME Idle'
               PROVE  /\ HeldStuck'
                      /\ \A f \in ElementsOf(universeProcessed') : Stuck(f)'
    BY DEF StuckInv
  <2>1. Idle /\ UNCHANGED <<time, nodes, events>>
    BY <1>1, <1>2, IdleStep, ThreadStepFrames DEF Frame
  <2>2. HeldStuck'
    BY <1>2, <2>1, HeldStaysStuck DEF StuckInv
  <2>3. ASSUME NEW f \in ElementsOf(universeProcessed') PROVE Stuck(f)
    <3>1. CASE f \in ElementsOf(universeProcessed)
      BY <2>1, <3>1 DEF StuckInv
    <3>2. CASE f \notin ElementsOf(universeProcessed)
      <4>1. Suspend(Master) /\ f = tree[Master]
        BY <1>2, <2>3, <3>2, ThreadStacks
      <4> QED
        BY <2>1, <4>1 DEF Suspend, StuckInv, HeldStuck
    <3> QED
      BY <3>1, <3>2
  <2> QED
    BY <2>1, <2>2, <2>3, StuckStays
<1>3. CASE MasterTransfers
  <2>1. pc'[Master] = "universe" /\ universeProcessed' = <<>>
    BY <1>3, TransfersKeeps
  <2> QED
    BY <2>1, EmptyElements DEF StuckInv, HeldStuck
<1>4. CASE Passing
  <2>1. /\ UNCHANGED <<didEvolve, universal, stacks, nodes, tree, plan, limit, forests>>
        /\ pc'[Master] = pc[Master] \/ pc'[Master] \notin Holding
    BY <1>4, PassingKeeps
  <2>2. UNCHANGED <<treeDidEvolve, treesDidEvolve, events, universeProcessed, nodes, tree,
                    treeIsFinished, evolutionIsEventLimited, suspendTree, time>>
    BY <2>1
  <2>3. \A f : Stuck(f) => Stuck(f)'
    BY <2>2, StuckStays
  <2>4. CASE pc'[Master] = pc[Master]
    <3>1. (Idle' => Idle) /\ (Hindered(Master)' <=> Hindered(Master))
      BY <2>2, <2>4 DEF Idle, Hindered, Limited
    <3>2. HeldStuck => HeldStuck'
      BY <2>2, <2>3, <2>4, <3>1 DEF HeldStuck
    <3> QED
      BY <2>2, <2>3, <3>1, <3>2 DEF StuckInv
  <2>5. CASE pc'[Master] \notin Holding
    <3>1. HeldStuck'
      BY <2>5 DEF HeldStuck, Holding, Evolving
    <3>2. Idle' => Idle \/ pc[Master] \in {"evolve", "record"}
      BY <2>2 DEF Idle
    <3>3. pc[Master] \notin {"evolve", "record"} \/ pc'[Master] = pc[Master]
      BY <1>1, <1>4 DEF Passing, MasterStops, Reset, PassBarrier, BarrierMet, Barriers, vars
    <3> QED
      BY <2>2, <2>3, <3>1, <3>2, <3>3, <2>5 DEF StuckInv, Holding, Evolving
  <2> QED
    BY <2>1, <2>4, <2>5
<1> QED
  BY <1>2, <1>3, <1>4, OneStep

-------------------------------------------------------------------------------
(* The forest that lasts *)

(* No forest could evolve unless no event lies before the time it begins at. *)
Begun(f0) == treesCouldEvolve => NoEventBefore(StartTime[f0])

(* It is only finished when no event is left before the last output. *)
LastDone(f0) ==
  /\ PhaseOf(f0) = "complete" => NoEventBefore(LastTime)
  /\ pc[Master] = "release" /\ tree[Master] = f0 /\ treeIsFinished[Master]
       => NoEventBefore(LastTime)
  /\ \A f \in emptied : EndTime[f] < LastTime

LEMMA StepBegun ==
  ASSUME OneThread, NEW f0 \in Forest, Lasts(f0), BaseInv, TimesInv, Begun(f0), [Next]_vars
  PROVE  Begun(f0)'
<1>1. StartTime[f0] \in Nat /\ Master \in Threads /\ TypeInv
  BY TheThread, ForestAssumption
<1>2. NoEventBefore(StartTime[f0]) => NoEventBefore(StartTime[f0])'
  <2>1. PICK o \in Nat : o = StartTime[f0]
    BY <1>1
  <2> QED
    BY <2>1, StepNoEventBefore
<1>3. CASE Limit(Master)
  <2>1. PICK f : f = tree[Master]
    OBVIOUS
  <2> DEFINE target == OutputTime[iOutput[Master]]
             before == EventBefore(target)
             first  == Least(before \union {target})
  <2>2. target \in Nat /\ f \in Forest /\ time[f] \in Nat
    BY <1>1, <1>3, <2>1, ThreadTypes DEF Limit, Evolving, Holding
  <2>3. first \in Nat /\ \A i \in DOMAIN events : first <= events[i].time
    BY <1>1, <2>2, FirstEventBefore
  <2>4. /\ events' = events
        /\ treesCouldEvolve' = (treesCouldEvolve \/ (f \notin emptied /\ time[f] <= first))
    BY <1>3, <2>1 DEF Limit
  <2> HIDE DEF first
  <2>5. ASSUME time[f] <= first PROVE NoEventBefore(StartTime[f0])
    <3>1. StartTime[f0] <= StartTime[f] /\ StartTime[f] <= time[f] /\ StartTime[f] \in Nat
      BY <2>2, ForestAssumption DEF Lasts, TimesInv
    <3>2. StartTime[f0] <= first
      BY <1>1, <2>2, <2>3, <2>5, <3>1
    <3>3. \A i \in DOMAIN events : events[i].time \in Nat
      BY <1>1, EventsTyped
    <3> QED
      BY <1>1, <2>3, <3>2, <3>3 DEF NoEventBefore
  <2> QED
    BY <1>2, <2>4, <2>5 DEF Begun
<1>4. CASE ThreadStep(Master) /\ ~Limit(Master)
  <2>1. UNCHANGED treesCouldEvolve
    BY <1>4 DEF ThreadStep, Fetch, FetchNew, FetchNone, Resume, ResumeNone, Plan, Evolve,
       EvolveBegin, EvolveAdvance, EvolvePush, EvolvePull, EvolveSuspend, EvolveEnd,
       Finalize, Record, FinalizeShort, FinalizeLimited, FinalizeOutput, Destroy, Suspend,
       Decide
  <2> QED
    BY <1>2, <2>1 DEF Begun
<1>5. CASE MasterTransfers \/ Passing
  <2>1. UNCHANGED treesCouldEvolve
    BY <1>5, TransfersKeeps, PassingKeeps
  <2> QED
    BY <1>2, <2>1 DEF Begun
<1> QED
  BY <1>3, <1>4, <1>5, OneStep

(* Written at the last output, the forest has reached it before every event. *)
LEMMA FinishesLast ==
  ASSUME NEW f0 \in Forest, Lasts(f0), BaseInv, TimesInv, LastDone(f0), ThreadStep(Master),
         pc'[Master] = "release", tree'[Master] = f0, treeIsFinished'[Master]
  PROVE  NoEventBefore(LastTime)
<1>1. /\ pc \in [Threads -> Points] /\ Master \in Threads /\ Aims(Master) /\ TypeInv
      /\ treeIsFinished \in [Threads -> BOOLEAN]
      /\ StartTime[f0] \in Nat /\ EndTime[f0] \in Nat /\ time[f0] \in Nat
  BY TheThread, ThreadTypes, ForestAssumption
<1>2. CASE Plan(Master)
  <2>1. PICK i : i = firstOutput(f0, treeIsNew[Master])
    OBVIOUS
  <2>2. i = 0
    BY <1>1, <1>2, <2>1 DEF Plan
  <2>3. f0 \notin emptied
    BY <1>1, LastTimeIs DEF LastDone, Lasts
  <2>4. time[f0] <= LastTime
    BY <1>1, LastTimeIs DEF TimesInv, Lasts
  <2>5. timeNext(time[f0]) \in 1 .. NOutputs
    BY <1>1, <2>4, TimeNextIs DEF LastTime
  <2>6. i \in 1 .. NOutputs
    BY <2>1, <2>3, <2>5, OutputTimes DEF firstOutput
  <2> QED
    BY <2>2, <2>6
<1>3. CASE FinalizeOutput(Master)
  <2>1. /\ pc[Master] = "finalize" /\ ~Hindered(Master) /\ iOutput[Master] = NOutputs
    BY <1>1, <1>3 DEF FinalizeOutput, Hindered
  <2>2. NoEventBefore(evolveToTime[Master]) /\ evolveToTime[Master] = LastTime
    BY <1>1, <2>1 DEF Aims, Began, Evolving, LastTime
  <2> QED
    BY <2>2
<1>4. CASE FinalizeShort(Master) \/ FinalizeLimited(Master)
  <2>1. pc[Master] = "finalize" /\ UNCHANGED plan
    BY <1>4 DEF FinalizeShort, FinalizeLimited
  <2> QED
    BY <1>1, <2>1 DEF Aims, Evolving
<1>5. CASE Fetch(Master) \/ Limit(Master) \/ Evolve(Master) \/ Record(Master)
           \/ Destroy(Master) \/ Suspend(Master) \/ Decide(Master)
  <2>1. pc'[Master] # "release"
    BY <1>1, <1>5 DEF Fetch, FetchNew, FetchNone, Resume, ResumeNone, Limit, Evolve,
       EvolveBegin, EvolveAdvance, EvolvePush, EvolvePull, EvolveSuspend, EvolveEnd,
       Record, Destroy, Suspend, Decide
  <2> QED
    BY <2>1
<1> QED
  BY <1>2, <1>3, <1>4, <1>5 DEF ThreadStep, Finalize

LEMMA StepLastDone ==
  ASSUME OneThread, NEW f0 \in Forest, Lasts(f0), BaseInv, TimesInv, LastDone(f0),
         [Next]_vars
  PROVE  LastDone(f0)'
<1>1. Master \in Threads /\ TypeInv /\ OwnerInv /\ pc \in [Threads -> Points]
      /\ tree \in [Threads -> Forest \union {NoTree}]
  BY TheThread, ThreadTypes
<1>2. NoEventBefore(LastTime) => NoEventBefore(LastTime)'
  BY LastTimeIs, StepNoEventBefore
<1>3. ASSUME PhaseOf(f0)' = "complete" PROVE NoEventBefore(LastTime)
  <2>1. CASE PhaseOf(f0) # "complete"
    <3>1. \A g : ~Moves(g, "unbuilt", "evolving") /\ ~Moves(g, "waiting", "evolving")
                 /\ ~Moves(g, "evolving", "aside")
      BY <1>3, <2>1 DEF Moves
    <3>2. ~Turns
      BY <1>3, <2>1 DEF Turns
    <3>3. PICK t \in Threads, g \in Forest :
            Destroy(t) /\ g = tree[t] /\ Moves(g, "evolving", "complete")
      BY <1>1, <1>3, <2>1, <3>1, <3>2, PhaseMoves
    <3>4. t = Master /\ g = f0
      BY <1>3, <2>1, <3>3 DEF Moves, OneThread
    <3> QED
      BY <3>3, <3>4 DEF Destroy, LastDone
  <2> QED
    BY <2>1 DEF LastDone
<1>4. ASSUME pc'[Master] = "release", tree'[Master] = f0, treeIsFinished'[Master]
      PROVE  NoEventBefore(LastTime)
  <2>1. CASE ThreadStep(Master)
    BY <1>4, <2>1, FinishesLast
  <2>2. CASE MasterTransfers
    BY <1>4, <2>2, TransfersKeeps
  <2>3. CASE Passing
    <3>1. UNCHANGED <<tree, plan>> /\ (pc'[Master] = pc[Master] \/ pc'[Master] \notin Holding)
      BY <2>3, PassingKeeps
    <3> QED
      BY <1>4, <3>1 DEF LastDone, Holding
  <2> QED
    BY <2>1, <2>2, <2>3, OneStep
<1>5. ASSUME NEW f \in emptied' PROVE EndTime[f] < LastTime
  <2>1. CASE f \in emptied
    BY <2>1 DEF LastDone
  <2>2. CASE Record(Master) /\ f \notin emptied
    <3>1. /\ pc[Master] = "record" /\ f = tree[Master] /\ EndTime[f] < evolveToTime[Master]
      BY <1>5, <2>2 DEF Record, Remnant
    <3>2. /\ evolveToTime[Master] <= OutputTime[iOutput[Master]]
          /\ evolveToTime[Master] \in Nat /\ EndTime[f] \in Nat
          /\ iOutput[Master] \in 1 .. NOutputs /\ OutputTime[iOutput[Master]] \in Nat
      BY <1>1, <3>1, TheThread, ThreadTypes DEF Aims, Began, Evolving, Holding
    <3> QED
      BY <3>1, <3>2, LastTimeIs
  <2>3. CASE ThreadStep(Master) /\ ~Record(Master)
    <3>1. UNCHANGED emptied
      BY <2>3 DEF ThreadStep, Fetch, FetchNew, FetchNone, Resume, ResumeNone, Plan, Limit,
         Evolve, EvolveBegin, EvolveAdvance, EvolvePush, EvolvePull, EvolveSuspend,
         EvolveEnd, Finalize, FinalizeShort, FinalizeLimited, FinalizeOutput, Destroy,
         Suspend, Decide
    <3> QED
      BY <1>5, <2>1, <3>1
  <2>4. CASE MasterTransfers \/ Passing
    BY <1>5, <2>1, <2>4, TransfersKeeps, PassingKeeps
  <2> QED
    BY <2>1, <2>2, <2>3, <2>4, OneStep
<1> QED
  BY <1>2, <1>3, <1>4, <1>5 DEF LastDone

(* During a pass the flag of the next one is down. *)
TriggerInv == pc[Master] \in Working \union {"passEnd", "master"} => ~triggerFinishUniverse

LEMMA StepTrigger ==
  ASSUME OneThread, BaseInv, OverInv, TriggerInv, [Next]_vars
  PROVE  TriggerInv'
<1>1. /\ Master \in Threads /\ OwnerInv /\ Finished /\ pc \in [Threads -> Points]
      /\ finished \in [Threads -> BOOLEAN] /\ triggerFinishUniverse \in BOOLEAN
  BY TheThread DEF OwnerInv, TeamInv, TypeInv, TypeOK, FlagsOK
<1>2. CASE ThreadStep(Master)
  <2>1. UNCHANGED triggerFinishUniverse
    BY <1>1, <1>2, ThreadStepOver
  <2>2. CASE Decide(Master)
    <3>1. pc'[Master] = "trigger"
      BY <1>1, <2>2 DEF Decide
    <3> QED
      BY <3>1 DEF TriggerInv, Working
  <2>3. CASE ~Decide(Master)
    <3>1. pc[Master] \in Working
      BY <1>2, <2>3 DEF ThreadStep, Fetch, FetchNew, FetchNone, Resume, ResumeNone, Plan,
         Limit, Evolve, EvolveBegin, EvolveAdvance, EvolvePush, EvolvePull, EvolveSuspend,
         EvolveEnd, Finalize, Record, FinalizeShort, FinalizeLimited, FinalizeOutput,
         Destroy, Suspend, Working
    <3> QED
      BY <2>1, <3>1 DEF TriggerInv
  <2> QED
    BY <2>2, <2>3
<1>3. CASE MasterTransfers
  <2>1. pc'[Master] = "universe"
    BY <1>3, TransfersKeeps
  <2> QED
    BY <2>1 DEF TriggerInv, Working
<1>4. CASE Reset
  BY <1>4 DEF Reset, AfterReset, TriggerInv
<1>5. CASE MasterStops \/ UNCHANGED vars
  BY <1>5 DEF MasterStops, TriggerInv, vars
<1>6. CASE PassBarrier
  <2>1. /\ pc'[Master] = AfterBarrier(Master) /\ pc[Master] \in Barriers
        /\ UNCHANGED triggerFinishUniverse
    BY <1>1, <1>6 DEF PassBarrier, BarrierMet
  <2>2. CASE pc[Master] = "passEnd"
    BY <2>1, <2>2 DEF TriggerInv
  <2>3. CASE pc[Master] # "passEnd"
    <3>1. pc'[Master] \in {"decide", "reset", "done"}
      BY <2>1, <2>3 DEF AfterBarrier, Barriers
    <3> QED
      BY <3>1 DEF TriggerInv, Working
  <2> QED
    BY <2>2, <2>3
<1> QED
  BY <1>2, <1>3, <1>4, <1>5, <1>6, OneStep DEF Passing

-------------------------------------------------------------------------------
(* A pass in which nothing evolves lays nothing aside *)

LEMMA BetweenPasses ==
  ASSUME OneThread, BaseInv, pc[Master] = "master", NEW f \in Forest
  PROVE  f \in ElementsOf(universeProcessed) \/ PhaseOf(f) = "complete"
<1>1. OwnerInv /\ Master \in Threads
  BY TheThread
<1>2. forestNumber = NForests /\ universeWaiting = <<>> /\ tree[Master] = NoTree
  BY <1>1 DEF OwnerInv, TeamInv, Exhausted, Places, Holding, Evolving
<1>3. ~(f > forestNumber) /\ f \notin Held /\ f \notin ElementsOf(universeWaiting)
  BY <1>1, <1>2, ForestAssumption, EmptyElements DEF Forest, Held, OneThread
<1> QED
  BY <1>3 DEF PhaseOf

(* No forest waits for a node: one that waits at the least time would have the node
   sent to it. *)
LEMMA NoneWaitsForNode ==
  ASSUME OneThread, NodesLeave, BaseInv, SentInOrder, DoneSent,
         pc[Master] = "master", \A f \in ElementsOf(universeProcessed) : Stuck(f)
  PROVE  \A f \in ElementsOf(universeProcessed) : ~WaitsForNode(f)
<1> DEFINE W == {f \in ElementsOf(universeProcessed) : WaitsForNode(f)}
           S == {time[f] : f \in W}
<1> SUFFICES ASSUME W # {} PROVE FALSE
  OBVIOUS
<1>1. /\ TypeInv /\ Master \in Threads
      /\ \A f \in Forest : time[f] \in Nat
      /\ \A f \in ElementsOf(universeProcessed) : f \in Forest
  BY TheThread, ThreadTypes, SuspendedElsewhere DEF Suspended
<1>2. S \subseteq Nat /\ S # {}
  BY <1>1
<1>3. Least(S) \in S /\ \A y \in S : Least(S) <= y
  BY <1>2, LeastIsLeast
<1>4. PICK f \in W : time[f] = Least(S)
  BY <1>3
<1>5. \A g \in W : time[f] <= time[g]
  BY <1>3, <1>4
<1>6. f \in ElementsOf(universeProcessed) /\ f \in Forest /\ WaitsForNode(f)
  BY <1>1
<1>7. PICK x \in PullDue(f) : x \notin waitList
  BY <1>6 DEF WaitsForNode
<1>8. /\ x \in Transfers /\ x.to = f /\ x.time = time[f] /\ x \notin waitList \union pulled
      /\ time[f] <= LastTime /\ NoEventBefore(time[f])
  BY <1>6, <1>7 DEF PullDue, WaitsForNode
<1>9. PICK g \in Forest : g = x.from
  BY <1>8, TransferSource
<1>10. g \in ElementsOf(universeProcessed)
  <2>1. PhaseOf(g) # "complete"
    BY <1>8, <1>9 DEF DoneSent, Sent
  <2> QED
    BY <2>1, BetweenPasses
<1>11. Stuck(g) /\ time[g] \in Nat /\ time[f] \in Nat /\ time[g] <= time[f]
  BY <1>1, <1>6, <1>8, <1>9, <1>10 DEF SentInOrder
<1>12. time[g] = time[f] => PushDue(g) # {}
  BY <1>8, <1>9 DEF PushDue
<1>13. CASE WaitsForNode(g)
  <2>1. time[g] = time[f]
    BY <1>5, <1>10, <1>11, <1>13
  <2> QED
    BY <1>12, <1>13, <2>1 DEF WaitsForNode
<1>14. CASE WaitsForEvent(g)
  <2>1. PICK i \in DOMAIN events : /\ events[i].time <= time[g]
                                   /\ time[g] = events[i].time => PushDue(g) = {}
    BY <1>14 DEF WaitsForEvent
  <2>2. events[i].time \in Nat /\ time[f] <= events[i].time
    BY <1>1, <1>8, EventsTyped DEF NoEventBefore
  <2>3. time[g] = time[f] /\ time[g] = events[i].time
    BY <1>11, <2>1, <2>2
  <2> QED
    BY <1>12, <2>1, <2>3
<1> QED
  BY <1>11, <1>13, <1>14 DEF Stuck

(* Nor for an event: the forest that lasts would not have begun. *)
LEMMA PassEvolves ==
  ASSUME OneThread, NodesLeave, BaseInv, SentInOrder, DoneSent, StuckInv,
         NEW f0 \in Forest, Lasts(f0), Begun(f0), LastDone(f0),
         pc[Master] = "master", ~treesDidEvolve, treesCouldEvolve
  PROVE  ElementsOf(universeProcessed) = {}
<1>1. /\ TypeInv /\ \A i \in DOMAIN events : events[i] \in Event /\ events[i].time \in Nat
      /\ StartTime[f0] \in Nat
  BY TheThread, EventsTyped, ForestAssumption
<1>2. \A f \in ElementsOf(universeProcessed) : Stuck(f)
  BY DEF StuckInv, Idle
<1>3. \A f \in ElementsOf(universeProcessed) : WaitsForEvent(f)
  BY <1>2, NoneWaitsForNode DEF Stuck
<1> SUFFICES ASSUME NEW g \in ElementsOf(universeProcessed) PROVE FALSE
  OBVIOUS
<1>4. PICK i \in DOMAIN events : events[i].time < LastTime
  BY <1>3 DEF WaitsForEvent
<1>5. ~NoEventBefore(LastTime)
  BY <1>1, <1>4, LastTimeIs DEF NoEventBefore
<1>6. WaitsForEvent(f0)
  BY <1>3, <1>5, BetweenPasses DEF LastDone
<1>7. PICK k \in DOMAIN events : events[k].time <= StartTime[f0]
  BY <1>6 DEF WaitsForEvent
<1>8. StartTime[f0] <= events[k].time
  BY <1>7 DEF Begun, NoEventBefore
<1>9. events[k].time = StartTime[f0]
  BY <1>1, <1>7, <1>8
<1>10. PICK e \in Event : e = events[k]
  BY <1>1, <1>7
<1>11. e.creator \in Creators /\ e.time # StartTime[f0]
  BY EventParts DEF Lasts
<1> QED
  BY <1>9, <1>10, <1>11

-------------------------------------------------------------------------------
(* The inductive invariant, for the forest f0 that lasts. *)

GoesOn(f0) ==
  /\ SentInOrder /\ Served(Master) /\ DoneSent
  /\ TimesInv /\ BeginInv /\ LaidInv /\ GoInv /\ StuckInv
  /\ Begun(f0) /\ LastDone(f0) /\ TriggerInv
DeadlockInv(f0) ==
  /\ BaseInv /\ OverInv
  /\ deadlockReport => Over
  /\ ~deadlockReport => GoesOn(f0)
  /\ NoUniverseDeadlock

LEMMA InitDeadlockInv ==
  ASSUME OneThread, NodesMeet, NodesLeave, NEW f0 \in Forest, Lasts(f0), Init
  PROVE  DeadlockInv(f0)
<1>1. BaseInv /\ OverInv
  BY InitMeetInv DEF MeetInv, OutInv, BaseInv
<1>2. /\ pc[Master] = "fetch" /\ forestNumber = 0 /\ ElementsOf(universeProcessed) = {}
      /\ ElementsOf(universeWaiting) = {}
      /\ ~triggerFinishUniverse /\ ~deadlockReport /\ ~treesCouldEvolve
      /\ time = StartTime /\ emptied = {} /\ waitList = {} /\ error = None
  BY TeamAssumption, EmptyElements DEF Init
<1>3. \A f \in Forest : PhaseOf(f) = "unbuilt"
  BY <1>2, ForestAssumption DEF Forest, PhaseOf
<1>4. TimesInv /\ SentInOrder
  <2>1. \A f \in Forest : StartTime[f] \in Nat
    BY ForestAssumption
  <2>2. \A x \in Transfers : time[x.from] <= x.time
    BY <1>2 DEF NodesLeave
  <2> QED
    BY <1>2, <2>1, <2>2 DEF TimesInv, SentInOrder
<1>5. GoesOn(f0)
  BY <1>2, <1>3, <1>4 DEF GoesOn, Served, DoneSent, BeginInv, LaidInv, HeldLaid, GoInv,
     StuckInv, HeldStuck, Begun, LastDone, TriggerInv, Holding, Evolving
<1> QED
  BY <1>1, <1>2, <1>5, FlagAssumption DEF DeadlockInv, NoUniverseDeadlock, Errors

LEMMA StepOver ==
  ASSUME OneThread, BaseInv, deadlockReport, Over, [Next]_vars
  PROVE  Over'
<1>1. /\ Master \in Threads /\ OwnerInv /\ pc \in [Threads -> Points] /\ Finished
      /\ finished \in [Threads -> BOOLEAN]
      /\ ~triggerFinishUniverse
      /\ pc[Master] \in {"universe", "decide", "trigger"} \/ Leaving(Master)
  BY TheThread DEF OwnerInv, TeamInv, TypeInv, TypeOK, FlagsOK, Over
<1>2. CASE ThreadStep(Master)
  <2>1. Decide(Master)
    BY <1>1, <1>2 DEF Leaving, Resetting, ThreadStep, Fetch, FetchNew, FetchNone, Resume,
       ResumeNone, Plan, Limit, Evolve, EvolveBegin, EvolveAdvance, EvolvePush,
       EvolvePull, EvolveSuspend, EvolveEnd, Finalize, Record, FinalizeShort,
       FinalizeLimited, FinalizeOutput, Destroy, Suspend
  <2>2. pc'[Master] = "trigger" /\ triggerFinishUniverse' = triggerFinishUniverse
    BY <1>1, <2>1 DEF Decide
  <2> QED
    BY <1>1, <2>2 DEF Over, OneThread
<1>3. CASE MasterTransfers
  BY <1>3, TransfersKeeps
<1>4. CASE MasterStops
  <2>1. pc[Master] = "master"
    BY <1>4 DEF MasterStops
  <2> QED
    BY <1>1, <2>1 DEF Leaving, Resetting
<1>5. CASE Reset
  <2>1. finished[Master] = TRUE
    BY <1>1, <1>5 DEF Reset, Leaving, Resetting
  <2>2. pc'[Master] = "done" /\ triggerFinishUniverse' = FALSE
    BY <1>1, <1>5, <2>1 DEF Reset, LoopTest, AfterReset
  <2> QED
    BY <2>2 DEF Over, Leaving, OneThread
<1>6. CASE PassBarrier
  <2>1. /\ pc'[Master] = AfterBarrier(Master) /\ pc[Master] \in {"universe", "trigger", "done"}
        /\ UNCHANGED <<finished, triggerFinishUniverse>>
    BY <1>1, <1>6 DEF PassBarrier, BarrierMet, Barriers, Leaving, Resetting
  <2>2. pc[Master] = "trigger" => finished[Master] = TRUE
    BY <1>1 DEF Finished
  <2>3. pc'[Master] = "decide" \/ Leaving(Master)'
    BY <2>1, <2>2 DEF AfterBarrier, Leaving, Resetting
  <2> QED
    BY <1>1, <2>1, <2>3 DEF Over, OneThread
<1>7. CASE UNCHANGED vars
  BY <1>7 DEF vars, Over, Leaving, Resetting
<1> QED
  BY <1>2, <1>3, <1>4, <1>5, <1>6, <1>7, OneStep DEF Passing

LEMMA StepReport ==
  ASSUME OneThread, NodesLeave, BaseInv, NEW f0 \in Forest, Lasts(f0), GoesOn(f0),
         ~deadlockReport, deadlockReport', [Next]_vars
  PROVE  Over'
<1>1. Master \in Threads /\ OwnerInv /\ TypeInv /\ pc \in [Threads -> Points]
  BY TheThread
<1>2. MasterTransfers
  <2>1. CASE ThreadStep(Master)
    BY <1>1, <2>1, ThreadStepFrames DEF Frame
  <2>2. CASE Passing
    BY <2>2, PassingKeeps
  <2> QED
    BY <2>1, <2>2, OneStep
<1>3. /\ pc[Master] = "master" /\ ~treesDidEvolve /\ treesCouldEvolve
  BY <1>2 DEF MasterTransfers, Deadlocked
<1>4. ElementsOf(universeProcessed) = {}
  BY <1>3, PassEvolves DEF GoesOn
<1>5. universeProcessed = <<>>
  <2>1. universeProcessed \in Seq(Forest)
    BY <1>1 DEF TypeInv, TypeOK, UniverseOK
  <2>2. \A i \in DOMAIN universeProcessed : universeProcessed[i] \in ElementsOf(universeProcessed)
    BY DEF ElementsOf
  <2>3. DOMAIN universeProcessed = {}
    BY <1>4, <2>2
  <2> QED
    BY <2>1, <2>3
<1>6. ~triggerFinishUniverse /\ UNCHANGED triggerFinishUniverse
  BY <1>2, <1>3, <1>5 DEF MasterTransfers, GoesOn, TriggerInv
<1>7. pc'[Master] = "universe"
  BY <1>2, TransfersKeeps
<1> QED
  BY <1>6, <1>7 DEF Over, OneThread

LEMMA StepGoesOn ==
  ASSUME OneThread, DistinctEvents, NodesMeet, NodesLeave, NEW f0 \in Forest, Lasts(f0),
         BaseInv, OverInv, ~deadlockReport, GoesOn(f0), [Next]_vars
  PROVE  GoesOn(f0)'
BY StepSentInOrder, StepServed, StepDoneSent, StepTimes, StepBegin, StepLaid, StepGo,
   StepStuck, StepBegun, StepLastDone, StepTrigger DEF GoesOn

LEMMA StepNoReport ==
  ASSUME OneThread, BaseInv, deadlockReport => Over, NoUniverseDeadlock, [Next]_vars
  PROVE  NoUniverseDeadlock'
<1>1. Master \in Threads /\ TypeInv /\ EventsInv
  BY TheThread DEF BaseInv
<1>2. CASE ThreadStep(Master)
  <2>1. FinalizeShort(Master) \/ UNCHANGED error
    BY <1>1, <1>2, ThreadStepFrames DEF Frame
  <2>2. FinalizeShort(Master) => UNCHANGED error \/ error' = "failed to evolve tree"
    BY DEF FinalizeShort
  <2> QED
    BY <2>1, <2>2 DEF NoUniverseDeadlock
<1>3. CASE MasterTransfers
  <2>1. UNCHANGED error \/ PerformEvent
    BY <1>3 DEF MasterTransfers
  <2>2. UNCHANGED error
    BY <1>1, <2>1, PerformIs
  <2> QED
    BY <2>2 DEF NoUniverseDeadlock
<1>4. ~MasterStops
  <2>1. Over => pc[Master] # "master"
    BY <1>1 DEF Over, Leaving, Resetting
  <2> QED
    BY <2>1 DEF MasterStops
<1>5. CASE Reset \/ PassBarrier \/ UNCHANGED vars
  BY <1>5 DEF Reset, PassBarrier, vars, NoUniverseDeadlock
<1> QED
  BY <1>2, <1>3, <1>4, <1>5, OneStep DEF Passing

LEMMA StepDeadlockInv ==
  ASSUME OneThread, DistinctEvents, NodesMeet, NodesLeave, NEW f0 \in Forest, Lasts(f0),
         DeadlockInv(f0), [Next]_vars
  PROVE  DeadlockInv(f0)'
<1>1. /\ BaseInv /\ OverInv /\ OwnerInv /\ (deadlockReport => Over) /\ NoUniverseDeadlock
      /\ ~deadlockReport => GoesOn(f0)
  BY DEF DeadlockInv, BaseInv
<1>2. BaseInv'
  <2>1. TypeInv /\ EventsInv /\ AimInv /\ NodesInOrder
    BY <1>1, TheThread DEF BaseInv
  <2> QED
    BY <1>1, <2>1, StepOwnerInv, StepEventsInv, StepAimInv, StepNodesInOrder DEF BaseInv
<1>3. OverInv'
  BY <1>1, StepOverInv
<1>4. deadlockReport => deadlockReport'
  <2>1. CASE ThreadStep(Master)
    BY <1>1, <2>1, TheThread, ThreadStepFrames DEF Frame
  <2>2. CASE MasterTransfers \/ Passing
    BY <1>1, <2>2, TransfersKeeps, PassingKeeps
  <2> QED
    BY <2>1, <2>2, OneStep
<1>5. deadlockReport' => Over'
  BY <1>1, StepOver, StepReport
<1>6. ~deadlockReport' => GoesOn(f0)'
  BY <1>1, <1>4, StepGoesOn
<1>7. NoUniverseDeadlock'
  BY <1>1, StepNoReport
<1> QED
  BY <1>2, <1>3, <1>5, <1>6, <1>7 DEF DeadlockInv

(* A universe whose nodes can all arrive is never reported as deadlocked: with one
   thread, when no two creators attach events at one time, and a forest that begins
   with the first, at the time of no event, lasts beyond the outputs. *)
THEOREM NeverFalselyDeadlocked ==
  /\ OneThread /\ DistinctEvents /\ NodesMeet /\ NodesLeave
  /\ \E f0 \in Forest : Lasts(f0)
  /\ Spec
  => []NoUniverseDeadlock
<1> DEFINE Given == /\ OneThread /\ DistinctEvents /\ NodesMeet /\ NodesLeave
                    /\ \E f0 \in Forest : Lasts(f0)
           I == Given /\ \E f0 \in Forest : Lasts(f0) /\ DeadlockInv(f0)
<1>1. Given /\ Init => I
  BY InitDeadlockInv
<1>2. I /\ [Next]_vars => I'
  <2> SUFFICES ASSUME I, [Next]_vars PROVE I'
    OBVIOUS
  <2>1. PICK f0 \in Forest : Lasts(f0) /\ DeadlockInv(f0)
    OBVIOUS
  <2>2. DeadlockInv(f0)'
    BY <2>1, StepDeadlockInv
  <2>3. Given' /\ Lasts(f0)'
    BY <2>1 DEF OneThread, DistinctEvents, NodesMeet, NodesLeave, Lasts, LastTime
  <2> QED
    BY <2>1, <2>2, <2>3
<1>3. I => NoUniverseDeadlock
  BY DEF DeadlockInv
<1> HIDE DEF I
<1> QED
  BY <1>1, <1>2, <1>3, PTL DEF Spec
===============================================================================
