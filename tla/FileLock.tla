------------------------------- MODULE FileLock -------------------------------
(***************************************************************************)
(* The locks with which the threads of several Galacticus processes share  *)
(* the files they tabulate to (File_Lock and File_Unlock of                *)
(* source/utility.files.F90 over source/flock.c): the lock of a file is an *)
(* fcntl lock on a second file beside it.  Where the system has them these *)
(* are locks of the open file description; elsewhere they are locks of the *)
(* process, and an OpenMP lock lets one thread of a process at a time hold *)
(* locks, a count of its own letting that thread have several.             *)
(*                                                                         *)
(* The kernel's part is modelled as POSIX and Linux describe it: a file is *)
(* opened at the lowest number that is free; a process's locks on a file   *)
(* end when it closes any number for that file, a description's when its   *)
(* own number is closed.                                                   *)
(***************************************************************************)
EXTENDS Naturals, FiniteSets, Sequences

CONSTANTS
  Threads,     \* the threads of all processes
  Process,     \* the process of each thread
  NFiles,      \* files are numbered from 1
  OFD,         \* whether the build has open file description locks (OFDAVAIL)
  MaxHeld,     \* bound: how many locks a thread may hold
  Nobody       \* no thread

Processes == {Process[t] : t \in Threads}

Files == 1 .. NFiles

Numbers == 1 .. Cardinality(Threads) * MaxHeld

ASSUME FileLockAssumption ==
  /\ IsFiniteSet(Threads) /\ Threads # {} /\ Nobody \notin Threads
  /\ Process = [t \in Threads |-> Process[t]]
  /\ NFiles \in Nat \ {0} /\ MaxHeld \in Nat \ {0} /\ OFD \in BOOLEAN

Locks == [file : Files, shared : BOOLEAN, fd : Numbers]

VARIABLES
  at,       \* where each thread is in File_Lock and File_Unlock
  lock,     \* the lock that it is at there
  held,     \* the locks that File_Lock has returned to it
  fds,      \* the file open at each number of a process, 0 for none
  region,   \* the locks that the kernel knows: file, shared, and whose
  posixOpenMPFileLock,      \* the OpenMP lock of each process
  posixOpenMPFileLockCount  \* how many locks each thread counts

vars == <<at, lock, held, fds, region, posixOpenMPFileLock,
          posixOpenMPFileLockCount>>

(* Who owns a lock: the description at a number of a process, or the process. *)
Owner(t, n) == <<Process[t], IF OFD THEN n ELSE 0>>

Init ==
  /\ at = [t \in Threads |-> "out"]
  /\ lock = [t \in Threads |-> [file |-> 1, shared |-> FALSE, fd |-> 1]]
  /\ held = [t \in Threads |-> {}]
  /\ fds = [p \in Processes |-> [n \in Numbers |-> 0]]
  /\ region = {}
  /\ posixOpenMPFileLock = [p \in Processes |-> Nobody]
  /\ posixOpenMPFileLockCount = [t \in Threads |-> 0]

Goto(t, from, to) == at[t] = from /\ at' = [at EXCEPT ![t] = to]

(* A thread asks for a lock.  One that holds locks asks for those of later
   files only: callers that take two take them in the same order. *)
FileLockBeginUncounted(t) ==  \* mutant: a second lock is not counted
  /\ Goto(t, "out", IF OFD \/ posixOpenMPFileLockCount[t] > 0 THEN "open" ELSE "omp")
  /\ Cardinality(held[t]) < MaxHeld
  /\ \E file \in Files, shared \in BOOLEAN :
       /\ \A l \in held[t] : l.file < file
       /\ lock' = [lock EXCEPT ![t] = [file |-> file, shared |-> shared, fd |-> 1]]
  /\ UNCHANGED <<held, fds, region, posixOpenMPFileLock, posixOpenMPFileLockCount>>
FileLockBeginNoOmp(t) ==  \* mutant: no OpenMP lock
  /\ Goto(t, "out", "open")
  /\ Cardinality(held[t]) < MaxHeld
  /\ \E file \in Files, shared \in BOOLEAN :
       /\ \A l \in held[t] : l.file < file
       /\ lock' = [lock EXCEPT ![t] = [file |-> file, shared |-> shared, fd |-> 1]]
  /\ posixOpenMPFileLockCount' = [posixOpenMPFileLockCount EXCEPT ![t] = @ + 1]
  /\ UNCHANGED <<held, fds, region, posixOpenMPFileLock>>
FileLockBegin(t) ==
  /\ Goto(t, "out", IF OFD \/ posixOpenMPFileLockCount[t] > 0 THEN "open" ELSE "omp")
  /\ Cardinality(held[t]) < MaxHeld
  /\ \E file \in Files, shared \in BOOLEAN :
       /\ \A l \in held[t] : l.file < file
       /\ lock' = [lock EXCEPT ![t] = [file |-> file, shared |-> shared, fd |-> 1]]
  /\ posixOpenMPFileLockCount' =
       IF ~OFD /\ posixOpenMPFileLockCount[t] > 0
       THEN [posixOpenMPFileLockCount EXCEPT ![t] = @ + 1]
       ELSE posixOpenMPFileLockCount
  /\ UNCHANGED <<held, fds, region, posixOpenMPFileLock>>

(* "Obtain an OpenMP lock, if this thread has no other file locks active." *)
SetOmpLock(t) ==
  /\ Goto(t, "omp", "open")
  /\ posixOpenMPFileLock[Process[t]] = Nobody
  /\ posixOpenMPFileLock' = [posixOpenMPFileLock EXCEPT ![Process[t]] = t]
  /\ posixOpenMPFileLockCount' = [posixOpenMPFileLockCount EXCEPT ![t] = @ + 1]
  /\ UNCHANGED <<lock, held, fds, region>>

(* flock_C opens the file, *)
Open(t) ==
  LET files == fds[Process[t]]
  IN /\ Goto(t, "open", "wait")
     /\ \E n \in Numbers :
          /\ files[n] = 0
          /\ \A m \in 1 .. (n - 1) : files[m] # 0
          /\ fds' = [fds EXCEPT ![Process[t]][n] = lock[t].file]
          /\ lock' = [lock EXCEPT ![t].fd = n]
     /\ UNCHANGED <<held, region, posixOpenMPFileLock, posixOpenMPFileLockCount>>

(* and waits until no other owner's lock stands in the way. *)
SetRegionShared(t) ==  \* mutant: every lock is a read lock
  LET mine == [file |-> lock[t].file, shared |-> TRUE,
               owner |-> Owner(t, lock[t].fd)]
      others == {r \in region : r.file = mine.file /\ r.owner # mine.owner}
  IN /\ Goto(t, "wait", "out")
     /\ \A r \in others : mine.shared /\ r.shared
     /\ region' = {r \in region : r.file # mine.file} \cup others \cup {mine}
     /\ held' = [held EXCEPT ![t] = @ \cup {lock[t]}]
     /\ UNCHANGED <<lock, fds, posixOpenMPFileLock, posixOpenMPFileLockCount>>
SetRegion(t) ==
  LET mine == [file |-> lock[t].file, shared |-> lock[t].shared,
               owner |-> Owner(t, lock[t].fd)]
      others == {r \in region : r.file = mine.file /\ r.owner # mine.owner}
  IN /\ Goto(t, "wait", "out")
     /\ \A r \in others : mine.shared /\ r.shared
     /\ region' = {r \in region : r.file # mine.file} \cup others \cup {mine}
     /\ held' = [held EXCEPT ![t] = @ \cup {lock[t]}]
     /\ UNCHANGED <<lock, fds, posixOpenMPFileLock, posixOpenMPFileLockCount>>

(* funlock_C closes the file first, which is the end of the lock, *)
Close(t) ==
  /\ Goto(t, "out", "unset")
  /\ \E l \in held[t] :
       /\ lock' = [lock EXCEPT ![t] = l]
       /\ held' = [held EXCEPT ![t] = @ \ {l}]
       /\ fds' = [fds EXCEPT ![Process[t]][l.fd] = 0]
       /\ region' = {r \in region : r.file # l.file \/ r.owner # Owner(t, l.fd)}
  /\ UNCHANGED <<posixOpenMPFileLock, posixOpenMPFileLockCount>>

(* and then sets the region of what is at that number by now to unlocked. *)
UnsetRegion(t) ==
  LET file == fds[Process[t]][lock[t].fd]
  IN /\ Goto(t, "unset", IF OFD THEN "out" ELSE "unomp")
     /\ region' = {r \in region : r.file # file \/ r.owner # Owner(t, lock[t].fd)}
     /\ UNCHANGED <<lock, held, fds, posixOpenMPFileLock, posixOpenMPFileLockCount>>

(* "Release that lock now, if this thread has no more file locks." *)
UnsetOmpLockAlways(t) ==  \* mutant: whatever the count
  /\ Goto(t, "unomp", "out")
  /\ posixOpenMPFileLockCount' = [posixOpenMPFileLockCount EXCEPT ![t] = @ - 1]
  /\ posixOpenMPFileLock' = [posixOpenMPFileLock EXCEPT ![Process[t]] = Nobody]
  /\ UNCHANGED <<lock, held, fds, region>>
UnsetOmpLock(t) ==
  /\ Goto(t, "unomp", "out")
  /\ posixOpenMPFileLockCount' = [posixOpenMPFileLockCount EXCEPT ![t] = @ - 1]
  /\ posixOpenMPFileLock' =
       IF posixOpenMPFileLockCount[t] = 1
       THEN [posixOpenMPFileLock EXCEPT ![Process[t]] = Nobody]
       ELSE posixOpenMPFileLock
  /\ UNCHANGED <<lock, held, fds, region>>

Next ==
  \E t \in Threads :
    \/ FileLockBegin(t) \/ SetOmpLock(t) \/ Open(t) \/ SetRegion(t)
    \/ Close(t) \/ UnsetRegion(t) \/ UnsetOmpLock(t)

Spec == Init /\ [][Next]_vars

-----------------------------------------------------------------------------
Places == {"out", "omp", "open", "wait", "unset", "unomp"}

TypeOK ==
  /\ at \in [Threads -> Places]
  /\ lock \in [Threads -> Locks]
  /\ held \in [Threads -> SUBSET Locks]
  /\ fds \in [Processes -> [Numbers -> {0} \cup Files]]
  /\ region \subseteq [file : Files, shared : BOOLEAN,
                       owner : Processes \X ({0} \cup Numbers)]
  /\ posixOpenMPFileLock \in [Processes -> Threads \cup {Nobody}]
  /\ posixOpenMPFileLockCount \in [Threads -> Nat]

(* A thread that holds the lock of a file shares it with no other thread, of
   its process or of another, unless both asked for a shared lock. *)
HoldersAgree ==
  \A t, u \in Threads :
    t # u => \A l \in held[t], m \in held[u] :
               l.file = m.file => l.shared /\ m.shared

(* What a thread holds the kernel knows of: no close or unlock of another
   lock, by this thread or another, has taken it away. *)
HeldIsLocked ==
  \A t \in Threads : \A l \in held[t] :
    [file |-> l.file, shared |-> l.shared, owner |-> Owner(t, l.fd)] \in region

(* Each file's lock is a read/write lock. *)
FileLockOf(f) == INSTANCE ReadersWriter WITH
  Thread <- Threads,
  readers <- {t \in Threads : \E l \in held[t] : l.file = f /\ l.shared},
  writer <- IF \E t \in Threads : \E l \in held[t] : l.file = f /\ ~l.shared
            THEN CHOOSE t \in Threads : \E l \in held[t] : l.file = f /\ ~l.shared
            ELSE Nobody

ActsAsFileLocks ==
  [][\A f \in Files : [FileLockOf(f)!Next]_(FileLockOf(f)!vars)]_vars
=============================================================================
