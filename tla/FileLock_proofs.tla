---------------------------- MODULE FileLock_proofs ----------------------------
(***************************************************************************)
(* Where the system has only the locks of a process, the locks of the      *)
(* files exclude as they should: for all threads and processes, files and  *)
(* numbers of locks held at once.                                          *)
(***************************************************************************)
EXTENDS FileLock, FiniteSetTheorems, TLAPS

(* The thread has passed the OpenMP lock of its process, *)
Counted == {"open", "wait", "unset", "unomp"}

(* and keeps it as long as it has locks. *)
Inside(t) == at[t] \in Counted \/ held[t] # {}

(* One thread of a process at a time is inside, and counts its locks and the
   one that it is taking or giving back. *)
OneInside ==
  \A t \in Threads :
    /\ Inside(t) => posixOpenMPFileLock[Process[t]] = t
    /\ IsFiniteSet(held[t])
    /\ posixOpenMPFileLockCount[t] =
         Cardinality(held[t]) + IF at[t] \in Counted THEN 1 ELSE 0

(* It holds no two locks of a file and takes none of a file that it has. *)
FilesApart ==
  \A t \in Threads :
    /\ \A l, m \in held[t] : l # m => l.file # m.file
    /\ at[t] \in {"omp", "open", "wait"} => \A l \in held[t] : l.file < lock[t].file

(* When it unlocks the region of a number, that number is still closed. *)
StillClosed ==
  \A t \in Threads : at[t] = "unset" => fds[Process[t]][lock[t].fd] = 0

(* The locks that the kernel has granted to different owners agree. *)
RegionsAgree ==
  \A r, q \in region : r.file = q.file /\ r.owner # q.owner => r.shared /\ q.shared

IInv ==
  TypeOK /\ OneInside /\ FilesApart /\ StillClosed /\ RegionsAgree /\ HeldIsLocked

Mine(t) == [file |-> lock[t].file, shared |-> lock[t].shared,
            owner |-> Owner(t, lock[t].fd)]

LEMMA ConstantsOK ==
  /\ 1 \in Files /\ 1 \in Numbers /\ Numbers \subseteq Nat /\ Files \subseteq Nat \ {0}
  /\ \A t \in Threads : Process[t] \in Processes
<1>1. Cardinality(Threads) \in Nat \ {0}
  BY FileLockAssumption, FS_CardinalityType, FS_EmptySet
<1>2. \A a, b \in Nat \ {0} : a * b \in Nat \ {0}
  OBVIOUS
<1>3. Cardinality(Threads) * MaxHeld \in Nat \ {0}
  BY <1>1, <1>2, FileLockAssumption
<1>4. 1 \in Numbers /\ Numbers \subseteq Nat
  BY <1>3 DEF Numbers
<1> QED BY <1>4, FileLockAssumption DEF Files, Processes

LEMMA OwnerOK ==
  ASSUME ~OFD, NEW t \in Threads, NEW n
  PROVE  Owner(t, n) = <<Process[t], 0>>
BY DEF Owner

(* A thread that is inside is the only one of its process. *)
LEMMA Alone ==
  ASSUME OneInside, NEW t \in Threads, NEW u \in Threads, t # u,
         Inside(t), Inside(u)
  PROVE  Process[t] # Process[u]
BY DEF OneInside

LEMMA InitInv == Init => IInv
<1> SUFFICES ASSUME Init PROVE IInv
  OBVIOUS
<1>1. TypeOK
  BY ConstantsOK, FileLockAssumption DEF Init, TypeOK, Locks, Places
<1>2. OneInside
  <2>1. IsFiniteSet({}) /\ Cardinality({}) = 0
    BY FS_EmptySet
  <2> QED BY <2>1 DEF Init, OneInside, Inside, Counted
<1>3. FilesApart /\ StillClosed /\ RegionsAgree /\ HeldIsLocked
  BY DEF Init, FilesApart, StillClosed, RegionsAgree, HeldIsLocked
<1> QED BY <1>1, <1>2, <1>3 DEF IInv

LEMMA TypeStep == TypeOK /\ OneInside /\ [Next]_vars => TypeOK'
<1> SUFFICES ASSUME TypeOK, OneInside, [Next]_vars PROVE TypeOK'
  OBVIOUS
<1> USE DEF TypeOK, Goto, Places
<1>1. ASSUME NEW t \in Threads, FileLockBegin(t) PROVE TypeOK'
  BY <1>1, ConstantsOK DEF FileLockBegin, Locks
<1>2. ASSUME NEW t \in Threads, SetOmpLock(t) PROVE TypeOK'
  BY <1>2, ConstantsOK DEF SetOmpLock
<1>3. ASSUME NEW t \in Threads, Open(t) PROVE TypeOK'
  <2>1. Process[t] \in Processes BY ConstantsOK
  <2>2. PICK n \in Numbers : /\ fds' = [fds EXCEPT ![Process[t]][n] = lock[t].file]
                             /\ lock' = [lock EXCEPT ![t].fd = n]
    BY <1>3 DEF Open
  <2>3. lock[t] \in Locks /\ lock[t].file \in Files /\ [lock[t] EXCEPT !.fd = n] \in Locks
    BY DEF Locks
  <2>4. lock' \in [Threads -> Locks]
    BY <2>2, <2>3
  <2>5. fds' \in [Processes -> [Numbers -> {0} \cup Files]]
    BY <2>1, <2>2, <2>3
  <2> QED BY <1>3, <2>4, <2>5 DEF Open
<1>4. ASSUME NEW t \in Threads, SetRegion(t) PROVE TypeOK'
  <2>1. Owner(t, lock[t].fd) \in Processes \X ({0} \cup Numbers)
    BY ConstantsOK DEF Owner, Locks
  <2>2. Mine(t) \in [file : Files, shared : BOOLEAN,
                     owner : Processes \X ({0} \cup Numbers)]
    BY <2>1 DEF Locks, Mine
  <2>3. region' \subseteq region \cup {Mine(t)}
    BY <1>4 DEF SetRegion, Mine
  <2>4. held' \in [Threads -> SUBSET Locks]
    BY <1>4 DEF SetRegion
  <2> QED BY <1>4, <2>2, <2>3, <2>4 DEF SetRegion
<1>5. ASSUME NEW t \in Threads, Close(t) PROVE TypeOK'
  <2>1. Process[t] \in Processes BY ConstantsOK
  <2>2. PICK l \in held[t] :
          /\ lock' = [lock EXCEPT ![t] = l]
          /\ held' = [held EXCEPT ![t] = @ \ {l}]
          /\ fds' = [fds EXCEPT ![Process[t]][l.fd] = 0]
          /\ region' = {r \in region : r.file # l.file \/ r.owner # Owner(t, l.fd)}
    BY <1>5 DEF Close
  <2>3. l \in Locks /\ l.fd \in Numbers
    BY DEF Locks
  <2>4. fds' \in [Processes -> [Numbers -> {0} \cup Files]]
    BY <2>1, <2>2, <2>3
  <2> QED BY <1>5, <2>2, <2>3, <2>4 DEF Close
<1>6. ASSUME NEW t \in Threads, UnsetRegion(t) PROVE TypeOK'
  BY <1>6 DEF UnsetRegion
<1>7. ASSUME NEW t \in Threads, UnsetOmpLock(t) PROVE TypeOK'
  <2>1. Cardinality(held[t]) \in Nat /\ at[t] = "unomp"
    BY <1>7, FS_CardinalityType DEF OneInside, UnsetOmpLock
  <2>2. posixOpenMPFileLockCount[t] > 0
    BY <2>1 DEF OneInside, Counted
  <2> QED BY <1>7, <2>2, ConstantsOK DEF UnsetOmpLock
<1>8. CASE UNCHANGED vars
  BY <1>8 DEF vars
<1> QED BY <1>1, <1>2, <1>3, <1>4, <1>5, <1>6, <1>7, <1>8 DEF Next

(* Whoever takes the OpenMP lock is alone in its process, and gives it up with
   the last of its locks. *)
LEMMA InsideStep ==
  ASSUME TypeOK, OneInside, FilesApart, ~OFD, [Next]_vars
  PROVE  OneInside'
<1> USE ConstantsOK DEF TypeOK, Goto, Places
<1> DEFINE Good(t) ==
             /\ Inside(t) => posixOpenMPFileLock[Process[t]] = t
             /\ IsFiniteSet(held[t])
             /\ posixOpenMPFileLockCount[t] =
                  Cardinality(held[t]) + IF at[t] \in Counted THEN 1 ELSE 0
<1>1. \A u \in Threads : Good(u) /\ Cardinality(held[u]) \in Nat
  BY FS_CardinalityType DEF OneInside
<1>2. \A u \in Threads : Cardinality(held[u]) > 0 <=> held[u] # {}
  <2> TAKE u \in Threads
  <2>1. IsFiniteSet(held[u]) BY <1>1
  <2>2. Cardinality(held[u]) = 0 <=> held[u] = {}
    BY <2>1, FS_EmptySet
  <2> QED BY <1>1, <2>2
<1>3. ASSUME NEW t \in Threads, NEW u \in Threads, t # u,
             at'[u] = at[u], held'[u] = held[u],
             posixOpenMPFileLockCount'[u] = posixOpenMPFileLockCount[u],
             \/ posixOpenMPFileLock' = posixOpenMPFileLock
             \/ posixOpenMPFileLock[Process[t]] \in {t, Nobody}
                /\ \A p \in Processes : p # Process[t] =>
                     posixOpenMPFileLock'[p] = posixOpenMPFileLock[p]
      PROVE  Good(u)'
  <2>1. Good(u) BY <1>1
  <2>2. Inside(u)' <=> Inside(u) BY <1>3 DEF Inside
  <2>3. Inside(u) => posixOpenMPFileLock'[Process[u]] = u
    BY <1>3, <2>1, FileLockAssumption
  <2> QED BY <1>3, <2>1, <2>2, <2>3
<1> HIDE DEF Good
<1>4. ASSUME NEW t \in Threads, FileLockBegin(t) PROVE \A u \in Threads : Good(u)'
  <2>1. \A u \in Threads : u # t => Good(u)'
    BY <1>3, <1>4 DEF FileLockBegin
  <2>2. Good(t)'
    <3>1. /\ at[t] = "out" /\ held' = held
          /\ posixOpenMPFileLock' = posixOpenMPFileLock
          /\ at'[t] = IF posixOpenMPFileLockCount[t] > 0 THEN "open" ELSE "omp"
          /\ posixOpenMPFileLockCount'[t] = IF posixOpenMPFileLockCount[t] > 0
                                            THEN posixOpenMPFileLockCount[t] + 1
                                            ELSE posixOpenMPFileLockCount[t]
      BY <1>4 DEF FileLockBegin
    <3>2. Good(t) BY <1>1
    <3>3. posixOpenMPFileLockCount[t] = Cardinality(held[t])
      BY <3>1, <3>2, <1>1 DEF Good, Counted
    <3>4. held[t] # {} => posixOpenMPFileLock[Process[t]] = t
      BY <3>2 DEF Good, Inside
    <3> QED BY <1>1, <1>2, <3>1, <3>2, <3>3, <3>4 DEF Good, Inside, Counted
  <2> QED BY <2>1, <2>2
<1>5. ASSUME NEW t \in Threads, SetOmpLock(t) PROVE \A u \in Threads : Good(u)'
  <2>1. \A u \in Threads : u # t => Good(u)'
    BY <1>3, <1>5 DEF SetOmpLock
  <2>2. Good(t)'
    <3>1. /\ at[t] = "omp" /\ held' = held /\ at'[t] = "open"
          /\ posixOpenMPFileLock'[Process[t]] = t
          /\ posixOpenMPFileLockCount'[t] = posixOpenMPFileLockCount[t] + 1
      BY <1>5 DEF SetOmpLock
    <3>2. Good(t) BY <1>1
    <3> QED BY <1>1, <3>1, <3>2 DEF Good, Counted
  <2> QED BY <2>1, <2>2
<1>6. ASSUME NEW t \in Threads, Open(t) \/ UnsetRegion(t)
      PROVE  \A u \in Threads : Good(u)'
  <2>1. /\ at[t] \in Counted /\ at' = [at EXCEPT ![t] = at'[t]] /\ at'[t] \in Counted
        /\ held' = held
        /\ UNCHANGED <<posixOpenMPFileLock, posixOpenMPFileLockCount>>
    BY <1>6 DEF Open, UnsetRegion, Counted
  <2>2. \A u \in Threads : Good(u)
    BY <1>1
  <2> QED BY <2>1, <2>2 DEF Good, Inside
<1>7. ASSUME NEW t \in Threads, SetRegion(t) PROVE \A u \in Threads : Good(u)'
  <2>1. \A u \in Threads : u # t => Good(u)'
    BY <1>3, <1>7 DEF SetRegion
  <2>2. Good(t)'
    <3>1. /\ at[t] = "wait" /\ at'[t] = "out" /\ held'[t] = held[t] \cup {lock[t]}
          /\ UNCHANGED <<posixOpenMPFileLock, posixOpenMPFileLockCount>>
      BY <1>7 DEF SetRegion
    <3>2. Good(t) BY <1>1
    <3>3. lock[t] \notin held[t]
      <4>1. \A l \in held[t] : l.file < lock[t].file
        BY <3>1 DEF FilesApart
      <4>2. lock[t].file \in Nat
        BY DEF Locks
      <4> QED BY <4>1, <4>2
    <3>4. /\ IsFiniteSet(held[t] \cup {lock[t]})
          /\ Cardinality(held[t] \cup {lock[t]}) = Cardinality(held[t]) + 1
      <4>1. IsFiniteSet(held[t])
        BY <3>2 DEF Good
      <4> QED BY <4>1, <3>3, FS_AddElement
    <3> QED BY <1>1, <3>1, <3>2, <3>4 DEF Good, Inside, Counted
  <2> QED BY <2>1, <2>2
<1>8. ASSUME NEW t \in Threads, Close(t) PROVE \A u \in Threads : Good(u)'
  <2>1. \A u \in Threads : u # t => Good(u)'
    BY <1>3, <1>8 DEF Close
  <2>2. Good(t)'
    <3>1. PICK l \in held[t] : held'[t] = held[t] \ {l}
      BY <1>8 DEF Close
    <3>2. /\ at[t] = "out" /\ at'[t] = "unset"
          /\ UNCHANGED <<posixOpenMPFileLock, posixOpenMPFileLockCount>>
      BY <1>8 DEF Close
    <3>3. Good(t) BY <1>1
    <3>4. IsFiniteSet(held'[t]) /\ Cardinality(held'[t]) = Cardinality(held[t]) - 1
      BY <3>1, <3>3, FS_RemoveElement, SMTT(30) DEF Good
    <3> QED BY <1>1, <3>1, <3>2, <3>3, <3>4 DEF Good, Inside, Counted
  <2> QED BY <2>1, <2>2
<1>9. ASSUME NEW t \in Threads, UnsetOmpLock(t) PROVE \A u \in Threads : Good(u)'
  <2>1. Good(t) BY <1>1
  <2>2. /\ at[t] = "unomp" /\ at'[t] = "out" /\ held' = held
        /\ posixOpenMPFileLockCount'[t] = posixOpenMPFileLockCount[t] - 1
        /\ posixOpenMPFileLock'[Process[t]] =
             IF posixOpenMPFileLockCount[t] = 1 THEN Nobody
             ELSE posixOpenMPFileLock[Process[t]]
    BY <1>9 DEF UnsetOmpLock
  <2>3. /\ posixOpenMPFileLock[Process[t]] = t
        /\ posixOpenMPFileLockCount[t] = Cardinality(held[t]) + 1
    BY <2>1, <2>2 DEF Good, Inside, Counted
  <2>4. \A u \in Threads : u # t => Good(u)'
    BY <1>3, <1>9, <2>3 DEF UnsetOmpLock
  <2>5. Good(t)'
    BY <1>1, <1>2, <2>1, <2>2, <2>3 DEF Good, Inside, Counted
  <2> QED BY <2>4, <2>5
<1>10. ASSUME UNCHANGED vars PROVE \A u \in Threads : Good(u)'
  <2>1. \A u \in Threads : Good(u)
    BY <1>1
  <2>2. UNCHANGED <<at, held, posixOpenMPFileLock, posixOpenMPFileLockCount>>
    BY <1>10 DEF vars
  <2> QED BY <2>1, <2>2 DEF Good, Inside
<1>11. \A u \in Threads : Good(u)'
  BY <1>4, <1>5, <1>6, <1>7, <1>8, <1>9, <1>10 DEF Next
<1> QED BY <1>11 DEF Good, OneInside

LEMMA ApartStep ==
  ASSUME TypeOK, FilesApart, [Next]_vars
  PROVE  FilesApart'
<1> USE DEF TypeOK, Goto, Places, FilesApart
<1>1. ASSUME NEW t \in Threads, FileLockBegin(t) PROVE FilesApart'
  BY <1>1 DEF FileLockBegin
<1>2. ASSUME NEW t \in Threads, SetOmpLock(t) PROVE FilesApart'
  BY <1>2 DEF SetOmpLock
<1>3. ASSUME NEW t \in Threads, Open(t) PROVE FilesApart'
  <2>1. \A u \in Threads : lock'[u].file = lock[u].file
    BY <1>3 DEF Open, Locks
  <2> QED BY <1>3, <2>1 DEF Open
<1>4. ASSUME NEW t \in Threads, SetRegion(t) PROVE FilesApart'
  <2>1. /\ at[t] = "wait" /\ at' = [at EXCEPT ![t] = "out"] /\ lock' = lock
        /\ held' = [held EXCEPT ![t] = @ \cup {lock[t]}]
    BY <1>4 DEF SetRegion
  <2>2. \A l \in held[t] : l.file # lock[t].file
    <3>1. \A l \in held[t] : l.file < lock[t].file
      BY <2>1
    <3>2. \A l \in held[t] : l \in Locks
      OBVIOUS
    <3>3. \A l \in Locks : l.file \in Nat
      BY ConstantsOK DEF Locks
    <3> QED BY <3>1, <3>2, <3>3
  <2>3. \A l, m \in held'[t] : l # m => l.file # m.file
    BY <2>1, <2>2
  <2> QED BY <2>1, <2>3
<1>5. ASSUME NEW t \in Threads, Close(t) PROVE FilesApart'
  <2>1. /\ at' = [at EXCEPT ![t] = "unset"]
        /\ \A u \in Threads : held'[u] \subseteq held[u]
        /\ \A u \in Threads : u # t => lock'[u] = lock[u]
    BY <1>5 DEF Close
  <2> QED BY <2>1
<1>6. ASSUME NEW t \in Threads, UnsetRegion(t) PROVE FilesApart'
  BY <1>6 DEF UnsetRegion
<1>7. ASSUME NEW t \in Threads, UnsetOmpLock(t) PROVE FilesApart'
  BY <1>7 DEF UnsetOmpLock
<1>8. CASE UNCHANGED vars
  BY <1>8 DEF vars
<1> QED BY <1>1, <1>2, <1>3, <1>4, <1>5, <1>6, <1>7, <1>8 DEF Next

(* Between the close and the unlock no other thread of the process opens. *)
LEMMA ClosedStep ==
  ASSUME TypeOK, OneInside, StillClosed, [Next]_vars
  PROVE  StillClosed'
<1> USE ConstantsOK DEF TypeOK, Goto, Places, StillClosed
<1>1. ASSUME NEW t \in Threads, FileLockBegin(t) PROVE StillClosed'
  BY <1>1 DEF FileLockBegin
<1>2. ASSUME NEW t \in Threads, SetOmpLock(t) PROVE StillClosed'
  BY <1>2 DEF SetOmpLock
<1>3. ASSUME NEW t \in Threads, Open(t) PROVE StillClosed'
  <2>1. /\ at[t] = "open" /\ at' = [at EXCEPT ![t] = "wait"]
        /\ \A p \in Processes : p # Process[t] => fds'[p] = fds[p]
        /\ \A u \in Threads : u # t => lock'[u] = lock[u]
    BY <1>3 DEF Open
  <2>2. ASSUME NEW u \in Threads, u # t, at[u] = "unset"
        PROVE  Process[u] # Process[t]
    <3>1. Inside(t) /\ Inside(u)
      BY <2>1, <2>2 DEF Inside, Counted
    <3> QED BY <2>2, <3>1, Alone
  <2> QED BY <2>1, <2>2
<1>4. ASSUME NEW t \in Threads, SetRegion(t) PROVE StillClosed'
  BY <1>4 DEF SetRegion
<1>5. ASSUME NEW t \in Threads, Close(t) PROVE StillClosed'
  <2>1. PICK l \in held[t] :
          /\ lock' = [lock EXCEPT ![t] = l]
          /\ fds' = [fds EXCEPT ![Process[t]][l.fd] = 0]
    BY <1>5 DEF Close
  <2>2. l.fd \in Numbers /\ \A u \in Threads : lock[u].fd \in Numbers
    BY DEF Locks
  <2>3. at' = [at EXCEPT ![t] = "unset"]
    BY <1>5 DEF Close
  <2>4. fds'[Process[t]][lock'[t].fd] = 0
    BY <2>1, <2>2
  <2>5. ASSUME NEW u \in Threads, u # t, fds[Process[u]][lock[u].fd] = 0
        PROVE  fds'[Process[u]][lock'[u].fd] = 0
    BY <2>1, <2>2, <2>5
  <2> QED BY <2>3, <2>4, <2>5
<1>6. ASSUME NEW t \in Threads, UnsetRegion(t) PROVE StillClosed'
  BY <1>6 DEF UnsetRegion
<1>7. ASSUME NEW t \in Threads, UnsetOmpLock(t) PROVE StillClosed'
  BY <1>7 DEF UnsetOmpLock
<1>8. CASE UNCHANGED vars
  BY <1>8 DEF vars
<1> QED BY <1>1, <1>2, <1>3, <1>4, <1>5, <1>6, <1>7, <1>8 DEF Next

(* How the kernel names the lock l of thread t. *)
Granted(t, l) == [file |-> l.file, shared |-> l.shared, owner |-> Owner(t, l.fd)]

(* What a thread is granted and gives back leaves the locks of others alone:
   they are of other processes, or of other files. *)
LEMMA RegionStep ==
  ASSUME TypeOK, OneInside, FilesApart, StillClosed, RegionsAgree, HeldIsLocked,
         ~OFD, [Next]_vars
  PROVE  RegionsAgree' /\ HeldIsLocked'
<1> USE DEF Goto
<1>1. ASSUME NEW t \in Threads, SetRegion(t) PROVE RegionsAgree' /\ HeldIsLocked'
  <2> DEFINE others == {r \in region : r.file = Mine(t).file /\ r.owner # Mine(t).owner}
  <2>1. /\ at[t] = "wait" /\ held' = [held EXCEPT ![t] = @ \cup {lock[t]}]
        /\ \A r \in others : Mine(t).shared /\ r.shared
        /\ region' = {r \in region : r.file # Mine(t).file} \cup others \cup {Mine(t)}
    BY <1>1 DEF SetRegion, Mine
  <2>2. RegionsAgree'
    BY <2>1 DEF RegionsAgree
  <2>3. ASSUME NEW u \in Threads, NEW l \in held'[u] PROVE Granted(u, l) \in region'
    <3>1. CASE u = t /\ l = lock[t]
      BY <2>1, <3>1 DEF Granted, Mine
    <3>2. CASE l \in held[u]
      <4>1. Granted(u, l) \in region
        BY <3>2 DEF HeldIsLocked, Granted
      <4>2. CASE u = t
        <5>1. l.file < lock[t].file
          BY <2>1, <3>2, <4>2 DEF FilesApart
        <5>2. l \in Locks
          BY <3>2 DEF TypeOK
        <5>3. l.file \in Nat
          BY <5>2, ConstantsOK DEF Locks
        <5>4. Granted(u, l).file # Mine(t).file
          BY <5>1, <5>3 DEF Granted, Mine
        <5> QED BY <2>1, <4>1, <5>4
      <4>3. CASE u # t
        <5>1. Inside(t) /\ Inside(u)
          BY <2>1, <3>2 DEF Inside, Counted
        <5>2. Granted(u, l).owner # Mine(t).owner
          BY <4>3, <5>1, Alone, OwnerOK DEF Granted, Mine
        <5> QED BY <2>1, <4>1, <5>2
      <4> QED BY <4>2, <4>3
    <3> QED BY <2>1, <2>3, <3>1, <3>2 DEF TypeOK
  <2>4. HeldIsLocked'
    BY <2>3 DEF HeldIsLocked, Granted, Owner
  <2> QED BY <2>2, <2>4
<1>2. ASSUME NEW t \in Threads, Close(t) PROVE RegionsAgree' /\ HeldIsLocked'
  <2>1. PICK l \in held[t] :
          /\ held' = [held EXCEPT ![t] = @ \ {l}]
          /\ region' = {r \in region : r.file # l.file \/ r.owner # Owner(t, l.fd)}
    BY <1>2 DEF Close
  <2>2. RegionsAgree'
    BY <2>1 DEF RegionsAgree
  <2>3. ASSUME NEW u \in Threads, NEW m \in held'[u] PROVE Granted(u, m) \in region'
    <3>1. m \in held[u] /\ (u = t => m # l)
      BY <2>1, <2>3 DEF TypeOK
    <3>2. Granted(u, m) \in region
      BY <3>1 DEF HeldIsLocked, Granted
    <3>3. CASE u = t
      BY <2>1, <3>1, <3>2, <3>3 DEF FilesApart, Granted
    <3>4. CASE u # t
      <4>1. Inside(t) /\ Inside(u)
        BY <3>1 DEF Inside
      <4>2. Granted(u, m).owner # Owner(t, l.fd)
        BY <3>4, <4>1, Alone, OwnerOK DEF Granted
      <4> QED BY <2>1, <3>2, <4>2
    <3> QED BY <3>3, <3>4
  <2>4. HeldIsLocked'
    BY <2>3 DEF HeldIsLocked, Granted, Owner
  <2> QED BY <2>2, <2>4
<1>3. ASSUME NEW t \in Threads, UnsetRegion(t) PROVE UNCHANGED <<held, region>>
  <2>1. fds[Process[t]][lock[t].fd] = 0
    BY <1>3 DEF UnsetRegion, StillClosed
  <2>2. \A r \in region : r.file # 0
    BY ConstantsOK DEF TypeOK
  <2> QED BY <1>3, <2>1, <2>2 DEF UnsetRegion
<1>4. CASE UNCHANGED <<held, region>>
  BY <1>4 DEF RegionsAgree, HeldIsLocked, Owner
<1>5. ASSUME NEW t \in Threads,
             FileLockBegin(t) \/ SetOmpLock(t) \/ Open(t) \/ UnsetOmpLock(t)
      PROVE  UNCHANGED <<held, region>>
  BY <1>5 DEF FileLockBegin, SetOmpLock, Open, UnsetOmpLock
<1> QED BY <1>1, <1>2, <1>3, <1>4, <1>5 DEF Next, vars

LEMMA InvStep == ~OFD /\ IInv /\ [Next]_vars => IInv'
BY TypeStep, InsideStep, ApartStep, ClosedStep, RegionStep DEF IInv

LEMMA Invariant == ~OFD /\ Spec => [](~OFD /\ IInv)
<1>1. ~OFD /\ Init => ~OFD /\ IInv
  BY InitInv
<1>2. (~OFD /\ IInv) /\ [Next]_vars => (~OFD /\ IInv)'
  BY InvStep
<1> QED BY <1>1, <1>2, PTL DEF Spec

(* The locks that two threads of different processes hold are granted to
   different owners; two of one process do not hold locks together. *)
LEMMA HoldersOfInv == ~OFD /\ IInv => HoldersAgree
<1> SUFFICES ASSUME ~OFD, IInv, NEW t \in Threads, NEW u \in Threads, t # u,
                    NEW l \in held[t], NEW m \in held[u], l.file = m.file
             PROVE  l.shared /\ m.shared
  BY DEF HoldersAgree
<1>1. Granted(t, l) \in region /\ Granted(u, m) \in region
  BY DEF IInv, HeldIsLocked, Granted
<1>2. Inside(t) /\ Inside(u)
  BY DEF Inside
<1>3. Granted(t, l).owner # Granted(u, m).owner
  BY <1>2, Alone, OwnerOK DEF IInv, Granted
<1> QED BY <1>1, <1>3 DEF IInv, RegionsAgree, Granted

(* Where there are no locks of open file descriptions the state of the file
   locks is always of its type: no thread counts fewer locks than none. *)
THEOREM TypeCorrect == ~OFD /\ Spec => []TypeOK
BY Invariant, PTL DEF IInv

(* There, two threads hold the lock of one file only if both may share it,
   whatever threads, processes and files there are. *)
THEOREM LocksExclude == ~OFD /\ Spec => []HoldersAgree
BY Invariant, HoldersOfInv, PTL

(* There, the kernel keeps every lock that File_Lock has returned until it is
   given back, though a process loses the locks of a file that it closes. *)
THEOREM LocksLast == ~OFD /\ Spec => []HeldIsLocked
BY Invariant, PTL DEF IInv

-----------------------------------------------------------------------------
(* Who shares the lock of file f and who has it alone, by the locks h that the
   threads have: the readers and the writer of ReadersWriter. *)
Shares(h, t, f) == \E l \in h[t] : l.file = f /\ l.shared

Owns(h, t, f) == \E l \in h[t] : l.file = f /\ ~l.shared

ReadersOf(h, f) == {t \in Threads : Shares(h, t, f)}

WriterOf(h, f) == IF \E t \in Threads : Owns(h, t, f)
                  THEN CHOOSE t \in Threads : Owns(h, t, f)
                  ELSE Nobody

LEMMA WriterOfIs ==
  ASSUME NEW h, NEW f, NEW w \in Threads, Owns(h, w, f),
         \A t \in Threads : Owns(h, t, f) => t = w
  PROVE  WriterOf(h, f) = w
BY DEF WriterOf

LEMMA NobodyOwns ==
  ASSUME NEW h, NEW f, \A t \in Threads : ~Owns(h, t, f)
  PROVE  WriterOf(h, f) = Nobody
BY DEF WriterOf

(* A file has one writer, and then no readers but the writer: which is not one
   either, as a thread takes a file's lock once. *)
Exclusive(h, f) ==
  \A t, u \in Threads :
    /\ Owns(h, t, f) /\ Owns(h, u, f) => t = u
    /\ ~(Owns(h, t, f) /\ Shares(h, u, f))

LEMMA AloneOfInv ==
  ASSUME ~OFD, IInv, NEW f \in Files
  PROVE  Exclusive(held, f)
<1>1. ASSUME NEW t \in Threads, NEW u \in Threads, NEW l \in held[t], NEW m \in held[u],
             l.file = f, m.file = f, ~l.shared, t # u
      PROVE  FALSE
  BY <1>1, HoldersOfInv DEF HoldersAgree
<1>2. ASSUME NEW t \in Threads, NEW l \in held[t], NEW m \in held[t],
             l.file = f, m.file = f, ~l.shared, m.shared
      PROVE  FALSE
  BY <1>2 DEF IInv, FilesApart
<1> QED BY <1>1, <1>2 DEF Exclusive, Owns, Shares

LEMMA ExclusiveNow == ~OFD /\ IInv => \A f \in Files : Exclusive(held, f)
BY AloneOfInv

LEMMA ExclusiveNext == ~OFD /\ IInv' => \A f \in Files : Exclusive(held', f)
<1>1. (~OFD /\ IInv)' => (\A f \in Files : Exclusive(held, f))'
  BY ExclusiveNow, PTL
<1> QED BY <1>1 DEF Exclusive, Owns, Shares

LEMMA SameOwner ==
  ASSUME NEW h, NEW g, NEW f, Exclusive(h, f), Exclusive(g, f),
         \A t \in Threads : Owns(g, t, f) <=> Owns(h, t, f)
  PROVE  WriterOf(g, f) = WriterOf(h, f)
<1>1. CASE \E t \in Threads : Owns(h, t, f)
  <2>1. PICK w \in Threads : Owns(h, w, f)
    BY <1>1
  <2>2. WriterOf(h, f) = w /\ WriterOf(g, f) = w
    BY <2>1, WriterOfIs DEF Exclusive
  <2> QED BY <2>2
<1>2. CASE \A t \in Threads : ~Owns(h, t, f)
  BY <1>2, NobodyOwns
<1> QED BY <1>1, <1>2

(* The steps of ReadersWriter, and none, as an outsider sees them on file f. *)
SeenEnter(f, t) ==
  /\ WriterOf(held, f) = Nobody
  /\ ReadersOf(held', f) = ReadersOf(held, f) \cup {t}
  /\ WriterOf(held', f) = WriterOf(held, f)

SeenLeave(f, t) ==
  /\ t \in ReadersOf(held, f)
  /\ ReadersOf(held', f) = ReadersOf(held, f) \ {t}
  /\ WriterOf(held', f) = WriterOf(held, f)

SeenSeize(f, t) ==
  /\ ReadersOf(held, f) = {} /\ WriterOf(held, f) = Nobody
  /\ WriterOf(held', f) = t
  /\ ReadersOf(held', f) = ReadersOf(held, f)

SeenYield(f, t) ==
  /\ WriterOf(held, f) = t
  /\ WriterOf(held', f) = Nobody
  /\ ReadersOf(held', f) = ReadersOf(held, f)

SeenNothing(f) ==
  /\ ReadersOf(held', f) = ReadersOf(held, f)
  /\ WriterOf(held', f) = WriterOf(held, f)

Seen(f) ==
  \/ SeenNothing(f)
  \/ \E t \in Threads : \/ SeenEnter(f, t) \/ SeenLeave(f, t)
                         \/ SeenSeize(f, t) \/ SeenYield(f, t)

(* A file is seen to change only by a lock of its own. *)
LEMMA SeenElsewhere ==
  ASSUME NEW f, Exclusive(held, f), Exclusive(held', f),
         \A u \in Threads : {l \in held'[u] : l.file = f} = {l \in held[u] : l.file = f}
  PROVE  SeenNothing(f)
<1>1. \A u \in Threads : /\ Owns(held', u, f) <=> Owns(held, u, f)
                         /\ Shares(held', u, f) <=> Shares(held, u, f)
  <2> TAKE u \in Threads
  <2>1. \A l : l \in held'[u] /\ l.file = f <=> l \in held[u] /\ l.file = f
    <3>1. {l \in held'[u] : l.file = f} = {l \in held[u] : l.file = f}
      OBVIOUS
    <3> QED BY <3>1
  <2> QED BY <2>1 DEF Owns, Shares
<1>2. ReadersOf(held', f) = ReadersOf(held, f)
  BY <1>1 DEF ReadersOf
<1>3. WriterOf(held', f) = WriterOf(held, f)
  BY <1>1, SameOwner
<1> QED BY <1>2, <1>3 DEF SeenNothing

(* The kernel grants the lock of a file when the file has no writer, and an
   exclusive one when it has no readers either. *)
LEMMA SeenSet ==
  ASSUME ~OFD, IInv, IInv', NEW t \in Threads, SetRegion(t), NEW f \in Files
  PROVE  Seen(f)
<1> USE DEF Goto
<1>1. /\ at[t] = "wait" /\ held' = [held EXCEPT ![t] = @ \cup {lock[t]}]
      /\ \A r \in region : r.file = lock[t].file /\ r.owner # Owner(t, lock[t].fd)
                          => lock[t].shared /\ r.shared
  BY DEF SetRegion
<1>2. held \in [Threads -> SUBSET Locks] /\ lock[t] \in Locks
  BY DEF IInv, TypeOK
<1>3. Exclusive(held, f) /\ Exclusive(held', f)
  BY ExclusiveNow, ExclusiveNext
<1>4. held'[t] = held[t] \cup {lock[t]} /\ \A u \in Threads : u # t => held'[u] = held[u]
  BY <1>1, <1>2
<1>5. CASE lock[t].file # f
  <2>1. \A u \in Threads : {l \in held'[u] : l.file = f} = {l \in held[u] : l.file = f}
    BY <1>4, <1>5
  <2> QED BY <1>3, <2>1, SeenElsewhere DEF Seen
<1>6. CASE lock[t].file = f
  <2>1. \A l \in held[t] : l.file # f
    <3>1. \A l \in held[t] : l.file < lock[t].file
      BY <1>1 DEF IInv, FilesApart
    <3>2. \A l \in Locks : l.file \in Nat
      BY ConstantsOK DEF Locks
    <3>3. \A l \in held[t] : l \in Locks
      BY <1>2
    <3> QED BY <1>6, <3>1, <3>2, <3>3
  <2>2. ASSUME NEW u \in Threads, NEW m \in held[u], m.file = f
        PROVE  lock[t].shared /\ m.shared
    <3>1. u # t
      BY <2>1, <2>2
    <3>2. Granted(u, m) \in region
      BY <2>2 DEF IInv, HeldIsLocked, Granted
    <3>3. Inside(t) /\ Inside(u)
      BY <1>1, <2>2 DEF Inside, Counted
    <3>4. Granted(u, m).owner # Owner(t, lock[t].fd)
      BY <3>1, <3>3, Alone, OwnerOK DEF IInv, Granted
    <3> QED BY <1>1, <1>6, <2>2, <3>2, <3>4 DEF Granted
  <2>3. \A u \in Threads : ~Owns(held, u, f)
    BY <2>2 DEF Owns
  <2>4. WriterOf(held, f) = Nobody
    BY <2>3, NobodyOwns
  <2>5. CASE lock[t].shared
    <3>1. \A u \in Threads : Owns(held', u, f) <=> Owns(held, u, f)
      BY <1>4, <2>5 DEF Owns
    <3>2. WriterOf(held', f) = WriterOf(held, f)
      BY <1>3, <3>1, SameOwner
    <3>3. \A u \in Threads : Shares(held', u, f) <=> Shares(held, u, f) \/ u = t
      BY <1>4, <1>6, <2>5 DEF Shares
    <3>4. ReadersOf(held', f) = ReadersOf(held, f) \cup {t}
      BY <3>3 DEF ReadersOf
    <3> QED BY <2>4, <3>2, <3>4 DEF SeenEnter, Seen
  <2>6. CASE ~lock[t].shared
    <3>1. \A u \in Threads : ~Shares(held, u, f)
      BY <2>2, <2>6 DEF Shares
    <3>2. ReadersOf(held, f) = {}
      BY <3>1 DEF ReadersOf
    <3>3. Owns(held', t, f)
      BY <1>4, <1>6, <2>6 DEF Owns
    <3>4. WriterOf(held', f) = t
      BY <1>3, <3>3, WriterOfIs DEF Exclusive
    <3>5. ReadersOf(held', f) = {}
      BY <1>3, <3>3 DEF Exclusive, ReadersOf
    <3> QED BY <2>4, <3>2, <3>4, <3>5 DEF SeenSeize, Seen
  <2> QED BY <2>5, <2>6
<1> QED BY <1>5, <1>6

(* To close a file is to leave it or to yield it. *)
LEMMA SeenClose ==
  ASSUME ~OFD, IInv, IInv', NEW t \in Threads, Close(t), NEW f \in Files
  PROVE  Seen(f)
<1>1. PICK k \in held[t] : held' = [held EXCEPT ![t] = @ \ {k}]
  BY DEF Close
<1>2. held \in [Threads -> SUBSET Locks]
  BY DEF IInv, TypeOK
<1>3. Exclusive(held, f) /\ Exclusive(held', f)
  BY ExclusiveNow, ExclusiveNext
<1>4. held'[t] = held[t] \ {k} /\ \A u \in Threads : u # t => held'[u] = held[u]
  BY <1>1, <1>2
<1>5. CASE k.file # f
  <2>1. \A u \in Threads : {l \in held'[u] : l.file = f} = {l \in held[u] : l.file = f}
    BY <1>4, <1>5
  <2> QED BY <1>3, <2>1, SeenElsewhere DEF Seen
<1>6. CASE k.file = f
  <2>1. \A l \in held'[t] : l.file # f
    BY <1>4, <1>6 DEF IInv, FilesApart
  <2>2. ~Shares(held', t, f) /\ ~Owns(held', t, f)
    BY <2>1 DEF Shares, Owns
  <2>3. \A u \in Threads : u # t => /\ Shares(held', u, f) <=> Shares(held, u, f)
                                    /\ Owns(held', u, f) <=> Owns(held, u, f)
    BY <1>4 DEF Shares, Owns
  <2>4. CASE k.shared
    <3>1. Shares(held, t, f)
      BY <1>6, <2>4 DEF Shares
    <3>2. ~Owns(held, t, f)
      BY <1>3, <3>1 DEF Exclusive
    <3>3. WriterOf(held', f) = WriterOf(held, f)
      BY <1>3, <2>2, <2>3, <3>2, SameOwner
    <3>4. ReadersOf(held', f) = ReadersOf(held, f) \ {t} /\ t \in ReadersOf(held, f)
      BY <2>2, <2>3, <3>1 DEF ReadersOf
    <3> QED BY <3>3, <3>4 DEF SeenLeave, Seen
  <2>5. CASE ~k.shared
    <3>1. Owns(held, t, f)
      BY <1>6, <2>5 DEF Owns
    <3>2. WriterOf(held, f) = t
      BY <1>3, <3>1, WriterOfIs DEF Exclusive
    <3>3. \A u \in Threads : ~Owns(held', u, f)
      BY <1>3, <2>2, <2>3, <3>1 DEF Exclusive
    <3>4. WriterOf(held', f) = Nobody
      BY <3>3, NobodyOwns
    <3>5. ReadersOf(held, f) = {} /\ ReadersOf(held', f) = {}
      BY <1>3, <2>2, <2>3, <3>1 DEF Exclusive, ReadersOf
    <3> QED BY <3>2, <3>4, <3>5 DEF SeenYield, Seen
  <2> QED BY <2>4, <2>5
<1> QED BY <1>5, <1>6

LEMMA StepSeen ==
  ASSUME ~OFD, IInv, IInv', [Next]_vars, NEW f \in Files
  PROVE  Seen(f)
<1>1. ASSUME NEW t \in Threads, SetRegion(t) PROVE Seen(f)
  BY <1>1, SeenSet
<1>2. ASSUME NEW t \in Threads, Close(t) PROVE Seen(f)
  BY <1>2, SeenClose
<1>3. CASE UNCHANGED held
  BY <1>3 DEF Seen, SeenNothing
<1>4. ASSUME NEW t \in Threads,
             \/ FileLockBegin(t) \/ SetOmpLock(t) \/ Open(t)
             \/ UnsetRegion(t) \/ UnsetOmpLock(t)
      PROVE  UNCHANGED held
  BY <1>4 DEF FileLockBegin, SetOmpLock, Open, UnsetRegion, UnsetOmpLock
<1> QED BY <1>1, <1>2, <1>3, <1>4 DEF Next, vars

(* There, the lock of each file is a read/write lock for all threads of all
   processes: each step of File_Lock and File_Unlock, seen through who shares
   the file and who has it alone, is a step of ReadersWriter or none. *)
THEOREM AreReadersWriters == ~OFD /\ Spec => ActsAsFileLocks
<1>1. (~OFD /\ IInv) /\ (~OFD /\ IInv)' /\ [Next]_vars
      => \A f \in Files : [FileLockOf(f)!Next]_(FileLockOf(f)!vars)
  <2> SUFFICES ASSUME ~OFD, IInv, IInv', [Next]_vars, NEW f \in Files
               PROVE  [FileLockOf(f)!Next]_(FileLockOf(f)!vars)
    OBVIOUS
  <2>1. Seen(f)
    BY StepSeen
  <2> QED BY <2>1
    DEF Seen, SeenEnter, SeenLeave, SeenSeize, SeenYield, SeenNothing,
        ReadersOf, WriterOf, Shares, Owns, FileLockOf!Next, FileLockOf!vars,
        FileLockOf!Enter, FileLockOf!Leave, FileLockOf!Seize, FileLockOf!Yield
<1>2. (~OFD /\ IInv) /\ (~OFD /\ IInv)' /\ [Next]_vars
      => [\A f \in Files : [FileLockOf(f)!Next]_(FileLockOf(f)!vars)]_vars
  BY <1>1
<1> QED BY <1>2, Invariant, PTL DEF Spec, ActsAsFileLocks
=============================================================================
