------------------------- MODULE ReadWriteLock_proofs -------------------------
(***************************************************************************)
(* The read/write lock excludes writers from readers and from each other   *)
(* for any number of threads.  The inductive invariant is that the place   *)
(* of a thread in the routines tells exactly which slots it holds.         *)
(***************************************************************************)
EXTENDS ReadWriteLock, TLAPS

LockInv == LockTypeOK /\ HoldsItsSlots

LEMMA LockInitInv == LockInit => LockInv
BY LockAssumption DEF LockInit, LockInv, LockTypeOK, HoldsItsSlots, Holds,
   Places, Threads

LEMMA LockNextInv == LockInv /\ [LockNext]_lockVars => LockInv'
<1> SUFFICES ASSUME LockInv, [LockNext]_lockVars PROVE LockInv'
  OBVIOUS
<1> USE LockAssumption
<1> USE DEF LockInv, LockTypeOK, Places, OmpSetLock, OmpUnsetLock, MoveTo
<1>0. N \in Int /\ Threads \subseteq Int /\ Nobody \notin Threads
      /\ 0 \in Threads
      /\ \A i \in Threads : 0 <= i /\ i <= N-1 /\ (i # N-1 => i+1 \in Threads)
  BY DEF Threads
<1>1. ASSUME NEW t \in Threads, SetRead(t) PROVE LockInv'
  <2>1. locks[t] = Nobody /\ locks' = [locks EXCEPT ![t] = t]
        /\ at' = [at EXCEPT ![t] = "reading"] /\ UNCHANGED <<slot, again>>
    BY <1>1 DEF SetRead
  <2>2. at[t] = "free"
    BY <1>1, <2>1, <1>0 DEF SetRead, HoldsItsSlots, Holds
  <2>3. LockTypeOK'
    BY <2>1
  <2>4. HoldsItsSlots'
    BY <2>1, <2>2, <1>0 DEF HoldsItsSlots, Holds
  <2> QED BY <2>3, <2>4
<1>2. ASSUME NEW t \in Threads, UnsetRead(t) PROVE LockInv'
  BY <1>0, <1>2 DEF UnsetRead, HoldsItsSlots, Holds
<1>3. ASSUME NEW t \in Threads, NEW have \in BOOLEAN, SetWriteStart(t, have)
      PROVE  LockInv'
  <2>1. LockTypeOK'
    BY <1>0, <1>3 DEF SetWriteStart
  <2>2. HoldsItsSlots'
    <3>1. CASE have
      BY <1>0, <1>3, <3>1 DEF SetWriteStart, HoldsItsSlots, Holds
    <3>2. CASE ~ have
      BY <1>0, <1>3, <3>2 DEF SetWriteStart, HoldsItsSlots, Holds
    <3> QED BY <3>1, <3>2
  <2> QED BY <2>1, <2>2
<1>4. ASSUME NEW t \in Threads, NEW have \in BOOLEAN, UnsetWriteStart(t, have)
      PROVE  LockInv'
  BY <1>0, <1>4 DEF UnsetWriteStart, HoldsItsSlots, Holds
<1>5. ASSUME NEW t \in Threads, SetWriteStep(t) PROVE LockInv'
  <2>1. LockTypeOK'
    BY <1>0, <1>5, ZenonT(30) DEF SetWriteStep
  <2>2. HoldsItsSlots'
    <3>1. CASE slot[t] = N-1
      BY <1>0, <1>5, <3>1 DEF SetWriteStep, HoldsItsSlots, Holds
    <3>2. CASE slot[t] # N-1
      <4>1. at' = at /\ slot' = [slot EXCEPT ![t] = slot[t] + 1]
            /\ locks' = [locks EXCEPT ![slot[t]] = t]
            /\ at[t] = "setting"
        BY <1>5, <3>2 DEF SetWriteStep
      <4>2. SUFFICES ASSUME NEW u \in Threads, NEW i \in Threads
                     PROVE  locks'[i] = u <=> (i \in Holds(u))'
        BY DEF HoldsItsSlots
      <4>3. locks[i] = u <=> i \in Holds(u)
        BY DEF HoldsItsSlots
      <4>4. locks[slot[t]] = Nobody
        BY <1>5 DEF SetWriteStep
      <4>5. CASE u = t
        <5>1. at'[t] = at[t] /\ slot'[t] = slot[t] + 1 /\ slot[t] \in Int
              /\ i \in Int
          BY <1>0, <4>1
        <5>2. i \in Holds(t) <=> i < slot[t]
          BY <1>0, <4>1 DEF Holds
        <5>3. (i \in Holds(t))' <=> i < slot[t] + 1
          BY <1>0, <4>1, <5>1 DEF Holds
        <5>4. locks'[i] = t <=> i < slot[t] + 1
          BY <1>0, <4>1, <4>3, <4>4, <4>5, <5>1, <5>2
        <5> QED BY <4>5, <5>3, <5>4
      <4>6. CASE u # t /\ i = slot[t]
        BY <1>0, <1>5, <4>1, <4>3, <4>6 DEF Holds, HoldsItsSlots, SetWriteStep
      <4>7. CASE u # t /\ i # slot[t]
        BY <1>0, <4>1, <4>3, <4>7 DEF Holds
      <4> QED BY <4>5, <4>6, <4>7
    <3> QED BY <3>1, <3>2
  <2> QED BY <2>1, <2>2
<1>6. ASSUME NEW t \in Threads, UnsetWriteStep(t) PROVE LockInv'
  <2>1. LockTypeOK'
    BY <1>0, <1>6 DEF UnsetWriteStep
  <2>2. HoldsItsSlots'
    <3>1. CASE slot[t] = N-1
      BY <1>0, <1>6, <3>1 DEF UnsetWriteStep, HoldsItsSlots, Holds
    <3>2. CASE slot[t] # N-1
      <4>1. at' = at /\ slot' = [slot EXCEPT ![t] = slot[t] + 1]
            /\ locks' = [locks EXCEPT ![slot[t]] = Nobody]
            /\ at[t] = "unsetting"
        BY <1>6, <3>2 DEF UnsetWriteStep
      <4>2. SUFFICES ASSUME NEW u \in Threads, NEW i \in Threads
                     PROVE  locks'[i] = u <=> (i \in Holds(u))'
        BY DEF HoldsItsSlots
      <4>3. locks[i] = u <=> i \in Holds(u)
        BY DEF HoldsItsSlots
      <4>4. locks[slot[t]] = t
        <5>1. slot[t] \in Threads
          OBVIOUS
        <5>2. slot[t] <= slot[t]
          <6>1. \A j \in Int : j <= j
            OBVIOUS
          <6>2. slot[t] \in Int
            BY <1>0, <5>1
          <6> QED BY <6>1, <6>2
        <5>3. slot[t] \in Holds(t)
          BY <4>1, <5>1, <5>2 DEF Holds
        <5> QED BY <5>1, <5>3 DEF HoldsItsSlots
      <4>5. CASE u = t
        <5>1. at'[t] = at[t] /\ slot'[t] = slot[t] + 1 /\ slot[t] \in Int
              /\ i \in Int
          BY <1>0, <4>1
        <5>2. i \in Holds(t) <=> slot[t] <= i
          BY <1>0, <4>1 DEF Holds
        <5>3. (i \in Holds(t))' <=> slot[t] + 1 <= i
          BY <1>0, <4>1, <5>1 DEF Holds
        <5>4. locks'[i] = t <=> slot[t] + 1 <= i
          BY <1>0, <4>1, <4>3, <4>4, <4>5, <5>1, <5>2
        <5> QED BY <4>5, <5>3, <5>4
      <4>6. CASE u # t /\ i = slot[t]
        BY <1>0, <1>6, <4>1, <4>3, <4>6 DEF Holds, HoldsItsSlots, UnsetWriteStep
      <4>7. CASE u # t /\ i # slot[t]
        BY <1>0, <4>1, <4>3, <4>7 DEF Holds
      <4> QED BY <4>5, <4>6, <4>7
    <3> QED BY <3>1, <3>2
  <2> QED BY <2>1, <2>2
<1>7. ASSUME NEW t \in Threads, Reread(t) PROVE LockInv'
  BY <1>0, <1>7 DEF Reread, HoldsItsSlots, Holds
<1>8. CASE UNCHANGED lockVars
  BY <1>8 DEF lockVars, HoldsItsSlots, Holds
<1> QED BY <1>1, <1>2, <1>3, <1>4, <1>5, <1>6, <1>7, <1>8 DEF LockNext, LockStep

(* The place of a thread in the routines of the lock tells which slots it
   holds, so none gives back a slot of another thread (unsetWrite, unsetRead)
   and none is left behind. *)
THEOREM SlotsHeld == LockSpec => []LockInv
<1> QED BY LockInitInv, LockNextInv, PTL DEF LockSpec

THEOREM LockTypeCorrect == LockSpec => []LockTypeOK
<1>1. LockInv => LockTypeOK
  BY DEF LockInv
<1> QED BY <1>1, SlotsHeld, PTL

THEOREM SlotsAsPlaces == LockSpec => []HoldsItsSlots
<1>1. LockInv => HoldsItsSlots
  BY DEF LockInv
<1> QED BY <1>1, SlotsHeld, PTL

(* Two threads on their way to the write lock never wait for each other, nor
   any number of them in a ring: each waits for one that is further along
   (setWrite takes the slots in the order of their numbers). *)
THEOREM WaitingInOrder == LockSpec => []WaitsInOrder
<1>1. LockInv => WaitsInOrder
  <2> SUFFICES ASSUME LockInv, NEW t \in Threads, NEW u \in Threads,
                      locks[slot[t]] = u, at[u] = "setting"
               PROVE  slot[t] < slot[u]
    BY DEF WaitsInOrder
  <2>1. slot[t] \in Threads
    BY DEF LockInv, LockTypeOK
  <2> QED BY <2>1 DEF LockInv, HoldsItsSlots, Holds
<1> QED BY <1>1, SlotsHeld, PTL

(* Who writes holds every slot: nobody else writes, and nobody reads. *)
WriterAlone ==
  \A t, u \in Threads :
    at[t] = "writing" /\ u # t => at[u] \notin {"reading", "writing"}

LEMMA WriterIsAlone == LockInv => WriterAlone
<1> SUFFICES ASSUME LockInv, NEW t \in Threads, NEW u \in Threads,
                    at[t] = "writing", u # t
             PROVE  at[u] \notin {"reading", "writing"}
  BY DEF WriterAlone
<1>1. locks[u] = t
  BY DEF LockInv, HoldsItsSlots, Holds
<1> QED BY <1>1 DEF LockInv, HoldsItsSlots, Holds

(* The readers and the writer that an outsider sees. *)
ReadersAt(p) == {t \in Threads : p[t] = "reading"}

WriterAt(p) == IF \E t \in Threads : p[t] = "writing"
               THEN CHOOSE t \in Threads : p[t] = "writing"
               ELSE Nobody

LEMMA WriterAtIs ==
  ASSUME NEW p, NEW w \in Threads, p[w] = "writing",
         \A t \in Threads : p[t] = "writing" => t = w
  PROVE  WriterAt(p) = w
BY DEF WriterAt

LEMMA NobodyWrites ==
  ASSUME NEW p, \A t \in Threads : p[t] # "writing"
  PROVE  WriterAt(p) = Nobody
BY DEF WriterAt

LEMMA SameWriter ==
  ASSUME WriterAlone, WriterAlone',
         \A t \in Threads : at'[t] = "writing" <=> at[t] = "writing"
  PROVE  WriterAt(at') = WriterAt(at)
<1>1. CASE \E t \in Threads : at[t] = "writing"
  <2>1. PICK w \in Threads : at[w] = "writing"
    BY <1>1
  <2>2. WriterAt(at) = w
    BY <2>1, WriterAtIs DEF WriterAlone
  <2>3. WriterAt(at') = w
    BY <2>1, WriterAtIs DEF WriterAlone
  <2> QED BY <2>2, <2>3
<1>2. CASE \A t \in Threads : at[t] # "writing"
  BY <1>2, NobodyWrites
<1> QED BY <1>1, <1>2

(* The steps of ReadersWriter, over what the outsider sees. *)
SeenEnter(t) ==
  /\ WriterAt(at) = Nobody
  /\ ReadersAt(at') = ReadersAt(at) \cup {t}
  /\ WriterAt(at') = WriterAt(at)

SeenLeave(t) ==
  /\ t \in ReadersAt(at)
  /\ ReadersAt(at') = ReadersAt(at) \ {t}
  /\ WriterAt(at') = WriterAt(at)

SeenSeize(t) ==
  /\ ReadersAt(at) = {} /\ WriterAt(at) = Nobody
  /\ WriterAt(at') = t
  /\ ReadersAt(at') = ReadersAt(at)

SeenYield(t) ==
  /\ WriterAt(at) = t
  /\ WriterAt(at') = Nobody
  /\ ReadersAt(at') = ReadersAt(at)

SeenNothing ==
  ReadersAt(at') = ReadersAt(at) /\ WriterAt(at') = WriterAt(at)

Seen == \/ \E t \in Threads :
             SeenEnter(t) \/ SeenLeave(t) \/ SeenSeize(t) \/ SeenYield(t)
        \/ SeenNothing

(* Who gets a slot of its own finds nobody writing. *)
LEMMA SlotFreeNobodyWrites ==
  ASSUME LockInv, NEW i \in Threads, locks[i] = Nobody
  PROVE  WriterAt(at) = Nobody
<1>1. ASSUME NEW t \in Threads, at[t] = "writing" PROVE FALSE
  <2>1. locks[i] = t
    BY <1>1 DEF LockInv, HoldsItsSlots, Holds
  <2> QED BY <2>1, LockAssumption DEF Threads
<1> QED BY <1>1, NobodyWrites

LEMMA StepSeen ==
  ASSUME LockInv, LockInv', [LockNext]_lockVars PROVE Seen
<1> USE DEF LockInv, LockTypeOK, OmpSetLock, OmpUnsetLock, MoveTo
<1>0. WriterAlone /\ WriterAlone'
  <2>1. LockInv' => WriterAlone'
    BY WriterIsAlone, PTL
  <2> QED BY <2>1, WriterIsAlone
<1>1. ASSUME NEW t \in Threads, SetRead(t) \/ Reread(t) PROVE SeenEnter(t)
  <2>1. locks[t] = Nobody /\ at' = [at EXCEPT ![t] = "reading"]
    BY <1>1 DEF SetRead, Reread
  <2>2. WriterAt(at) = Nobody
    BY <2>1, SlotFreeNobodyWrites
  <2>3. at[t] # "writing"
    BY <1>0, <2>2, WriterAtIs, LockAssumption DEF WriterAlone, Threads
  <2>4. WriterAt(at') = WriterAt(at)
    BY <1>0, <2>1, <2>3, SameWriter
  <2>5. ReadersAt(at') = ReadersAt(at) \cup {t}
    BY <2>1 DEF ReadersAt
  <2> QED BY <2>2, <2>4, <2>5 DEF SeenEnter
<1>2. ASSUME NEW t \in Threads,
             UnsetRead(t) \/ SetWriteStart(t, TRUE)
      PROVE  SeenLeave(t)
  <2>1. at[t] = "reading"
        /\ \/ at' = [at EXCEPT ![t] = "free"]
           \/ at' = [at EXCEPT ![t] = "setting"]
    BY <1>2 DEF UnsetRead, SetWriteStart
  <2>2. WriterAt(at') = WriterAt(at)
    BY <1>0, <2>1, SameWriter
  <2>3. ReadersAt(at') = ReadersAt(at) \ {t} /\ t \in ReadersAt(at)
    BY <2>1 DEF ReadersAt
  <2> QED BY <2>2, <2>3 DEF SeenLeave
<1>3. ASSUME NEW t \in Threads, SetWriteStart(t, FALSE) PROVE SeenNothing
  <2>1. at[t] = "free" /\ at' = [at EXCEPT ![t] = "setting"]
    BY <1>3 DEF SetWriteStart
  <2>2. WriterAt(at') = WriterAt(at)
    BY <1>0, <2>1, SameWriter
  <2>3. ReadersAt(at') = ReadersAt(at)
    BY <2>1 DEF ReadersAt
  <2> QED BY <2>2, <2>3 DEF SeenNothing
<1>4. ASSUME NEW t \in Threads, SetWriteStep(t) PROVE Seen
  <2>1. CASE slot[t] = N-1
    <3>1. at[t] = "setting" /\ at' = [at EXCEPT ![t] = "writing"]
          /\ locks[slot[t]] = Nobody
      BY <1>4, <2>1 DEF SetWriteStep
    <3>2. WriterAt(at) = Nobody
      BY <3>1, SlotFreeNobodyWrites
    <3>3. WriterAt(at') = t
      <4>1. at'[t] = "writing"
        BY <3>1
      <4> QED BY <1>0, <4>1, WriterAtIs DEF WriterAlone
    <3>4. ReadersAt(at') = ReadersAt(at)
      BY <3>1 DEF ReadersAt
    <3>5. ReadersAt(at') = {}
      <4>1. at'[t] = "writing"
        BY <3>1
      <4> QED BY <1>0, <4>1 DEF WriterAlone, ReadersAt
    <3> QED BY <3>2, <3>3, <3>4, <3>5 DEF SeenSeize, Seen
  <2>2. CASE slot[t] # N-1
    BY <1>4, <2>2 DEF SetWriteStep, SeenNothing, Seen
  <2> QED BY <2>1, <2>2
<1>5. ASSUME NEW t \in Threads, NEW have \in BOOLEAN, UnsetWriteStart(t, have)
      PROVE  SeenYield(t)
  <2>1. at[t] = "writing" /\ at' = [at EXCEPT ![t] = "unsetting"]
    BY <1>5 DEF UnsetWriteStart
  <2>2. WriterAt(at) = t
    BY <1>0, <2>1, WriterAtIs DEF WriterAlone
  <2>3. \A u \in Threads : at'[u] # "writing"
    BY <1>0, <2>1 DEF WriterAlone
  <2>4. WriterAt(at') = Nobody
    BY <2>3, NobodyWrites
  <2>5. ReadersAt(at') = ReadersAt(at)
    BY <2>1 DEF ReadersAt
  <2> QED BY <2>2, <2>4, <2>5 DEF SeenYield
<1>6. ASSUME NEW t \in Threads, UnsetWriteStep(t) PROVE SeenNothing
  <2>1. \A u \in Threads : /\ at'[u] = "writing" <=> at[u] = "writing"
                           /\ at'[u] = "reading" <=> at[u] = "reading"
    <3>1. CASE slot[t] = N-1
      BY <1>6, <3>1 DEF UnsetWriteStep
    <3>2. CASE slot[t] # N-1
      BY <1>6, <3>2 DEF UnsetWriteStep
    <3> QED BY <3>1, <3>2
  <2>2. WriterAt(at') = WriterAt(at)
    BY <1>0, <2>1, SameWriter
  <2>3. ReadersAt(at') = ReadersAt(at)
    BY <2>1 DEF ReadersAt
  <2> QED BY <2>2, <2>3 DEF SeenNothing
<1>7. CASE UNCHANGED lockVars
  BY <1>7 DEF lockVars, SeenNothing, Seen
<1> QED BY <1>1, <1>2, <1>3, <1>4, <1>5, <1>6, <1>7, ZenonT(30) DEF LockNext, LockStep, Seen

(* The array of locks is a read/write lock (description of setWrite): its
   steps, seen through who reads and who writes, are those of ReadersWriter. *)
THEOREM IsReadersWriter == LockSpec => ActsAsReadersWriter
<1>1. LockInit => Exclusion!Init
  BY LockAssumption DEF LockInit, Exclusion!Init
<1>2. LockInv /\ LockInv' /\ [LockNext]_lockVars
      => [Exclusion!Next]_Exclusion!vars
  <2>1. Seen => [Exclusion!Next]_Exclusion!vars
    BY DEF Seen, SeenEnter, SeenLeave, SeenSeize, SeenYield, SeenNothing,
       ReadersAt, WriterAt, Exclusion!Next, Exclusion!vars, Exclusion!Enter,
       Exclusion!Leave, Exclusion!Seize, Exclusion!Yield
  <2> QED BY <2>1, StepSeen
<1> QED BY <1>1, <1>2, SlotsHeld, PTL
      DEF LockSpec, Exclusion!Spec, ActsAsReadersWriter
=============================================================================
