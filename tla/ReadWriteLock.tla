---------------------------- MODULE ReadWriteLock ----------------------------
(***************************************************************************)
(* The read/write lock of source/utility.locks.F90 (ompReadWriteLock): an  *)
(* array of OpenMP locks, one slot for each thread.  A reader holds the    *)
(* slot of its own number, a writer every slot, taken in the order of      *)
(* their numbers.  A writer that was a reader gives its slot back before   *)
(* it starts on the array, so what it read before may be stale when it     *)
(* comes to write.                                                         *)
(*                                                                         *)
(* The locks that OpenMP provides are not recursive and not fair: setting  *)
(* one waits until nobody holds it, the caller included, and any of those  *)
(* who wait may be next.                                                   *)
(***************************************************************************)
EXTENDS Integers

CONSTANTS
  N,       \* the number of threads: the slots that the constructor allocates
  Nobody   \* the holder of a slot that is free

ASSUME LockAssumption == N \in Nat \ {0} /\ Nobody \notin 0 .. N-1

Threads == 0 .. N-1

VARIABLES
  locks,   \* [Threads -> Threads \cup {Nobody}]: who holds each slot
  at,      \* where each thread is in the routines of the lock
  slot,    \* the slot that the loop of setWrite or unsetWrite is at
  again    \* whether unsetWrite is to read again (haveReadLock)

lockVars == <<locks, at, slot, again>>

Places == {"free", "reading", "setting", "writing", "unsetting", "rereading"}

LockInit ==
  /\ locks = [i \in Threads |-> Nobody]
  /\ at = [t \in Threads |-> "free"]
  /\ slot = [t \in Threads |-> 0]
  /\ again = [t \in Threads |-> FALSE]

OmpSetLock(t, i) == locks[i] = Nobody /\ locks' = [locks EXCEPT ![i] = t]

OmpUnsetLock(i) == locks' = [locks EXCEPT ![i] = Nobody]

MoveTo(t, place) == at' = [at EXCEPT ![t] = place]

(* A thread that already reads or writes may call it too, and then waits for
   itself. *)
SetRead(t) ==
  /\ at[t] \in {"free", "reading", "writing"}
  /\ OmpSetLock(t, t)
  /\ MoveTo(t, "reading")
  /\ UNCHANGED <<slot, again>>

UnsetRead(t) ==
  /\ at[t] = "reading"
  /\ OmpUnsetLock(t)
  /\ MoveTo(t, "free")
  /\ UNCHANGED <<slot, again>>

SetWriteStartLate(t, haveReadLock) ==  \* mutant: from the second slot
  /\ at[t] = IF haveReadLock THEN "reading" ELSE "free"
  /\ IF haveReadLock THEN OmpUnsetLock(t) ELSE UNCHANGED locks
  /\ MoveTo(t, "setting")
  /\ slot' = [slot EXCEPT ![t] = 1]
  /\ UNCHANGED again
SetWriteStartKeeping(t, haveReadLock) ==  \* mutant: keeps the read lock
  /\ at[t] = IF haveReadLock THEN "reading" ELSE "free"
  /\ UNCHANGED locks
  /\ MoveTo(t, "setting")
  /\ slot' = [slot EXCEPT ![t] = 0]
  /\ UNCHANGED again
SetWriteStart(t, haveReadLock) ==
  /\ at[t] = IF haveReadLock THEN "reading" ELSE "free"
  /\ IF haveReadLock THEN OmpUnsetLock(t) ELSE UNCHANGED locks
  /\ MoveTo(t, "setting")
  /\ slot' = [slot EXCEPT ![t] = 0]
  /\ UNCHANGED again

SetWriteStepBeyond(t) ==  \* mutant: misses the end of the array
  /\ at[t] = "setting"
  /\ OmpSetLock(t, slot[t])
  /\ IF slot[t] = N THEN MoveTo(t, "writing") /\ UNCHANGED slot
                    ELSE /\ slot' = [slot EXCEPT ![t] = @ + 1]
                         /\ UNCHANGED at
  /\ UNCHANGED again
SetWriteStep(t) ==
  /\ at[t] = "setting"
  /\ OmpSetLock(t, slot[t])
  /\ IF slot[t] = N-1 THEN MoveTo(t, "writing") /\ UNCHANGED slot
                      ELSE /\ slot' = [slot EXCEPT ![t] = @ + 1]
                           /\ UNCHANGED at
  /\ UNCHANGED again

UnsetWriteStart(t, haveReadLock) ==
  /\ at[t] = "writing"
  /\ MoveTo(t, "unsetting")
  /\ slot' = [slot EXCEPT ![t] = 0]
  /\ again' = [again EXCEPT ![t] = haveReadLock]
  /\ UNCHANGED locks

UnsetWriteStepShort(t) ==  \* mutant: forgets the last slot
  /\ at[t] = "unsetting"
  /\ OmpUnsetLock(slot[t])
  /\ IF slot[t] >= N-2
     THEN /\ MoveTo(t, IF again[t] THEN "rereading" ELSE "free")
          /\ UNCHANGED slot
     ELSE slot' = [slot EXCEPT ![t] = @ + 1] /\ UNCHANGED at
  /\ UNCHANGED again
UnsetWriteStep(t) ==
  /\ at[t] = "unsetting"
  /\ OmpUnsetLock(slot[t])
  /\ IF slot[t] = N-1
     THEN /\ MoveTo(t, IF again[t] THEN "rereading" ELSE "free")
          /\ UNCHANGED slot
     ELSE slot' = [slot EXCEPT ![t] = @ + 1] /\ UNCHANGED at
  /\ UNCHANGED again

(* The end of unsetWrite: the thread has its read lock back. *)
Reread(t) ==
  /\ at[t] = "rereading"
  /\ OmpSetLock(t, t)
  /\ MoveTo(t, "reading")
  /\ UNCHANGED <<slot, again>>

(* What a thread that is inside a routine of the lock does next. *)
LockStep(t) == SetWriteStep(t) \/ UnsetWriteStep(t) \/ Reread(t)

LockNext ==
  \E t \in Threads :
    \/ SetRead(t) \/ UnsetRead(t) \/ LockStep(t)
    \/ \E have \in BOOLEAN : SetWriteStart(t, have) \/ UnsetWriteStart(t, have)

LockSpec == LockInit /\ [][LockNext]_lockVars

-----------------------------------------------------------------------------
(* Types, and the loops stay within the array. *)
LockTypeOK ==
  /\ locks \in [Threads -> Threads \cup {Nobody}]
  /\ at \in [Threads -> Places]
  /\ slot \in [Threads -> Threads]
  /\ again \in [Threads -> BOOLEAN]

(* Which slots the place of a thread says that it holds. *)
Holds(t) ==
  {i \in Threads :
     \/ at[t] = "reading" /\ i = t
     \/ at[t] = "setting" /\ i < slot[t]
     \/ at[t] = "writing"
     \/ at[t] = "unsetting" /\ slot[t] <= i}

(* A thread holds those slots and no other: nobody gives back a slot that
   another holds, and nobody leaves a routine with a slot it forgot. *)
HoldsItsSlots ==
  \A t \in Threads, i \in Threads : locks[i] = t <=> i \in Holds(t)

(* "We must obtain all locks in sequence to avoid the possibility of
   deadlocking": a thread on its way to the write lock waits only for a thread
   that is further along the array than it is, or that is not waiting. *)
WaitsInOrder ==
  \A t, u \in Threads :
    /\ at[t] = "setting"
    /\ locks[slot[t]] = u
    /\ at[u] = "setting"
    => slot[t] < slot[u]

(* The array of locks is a read/write lock. *)
Exclusion == INSTANCE ReadersWriter WITH
  Thread <- Threads,
  readers <- {t \in Threads : at[t] = "reading"},
  writer <- IF \E t \in Threads : at[t] = "writing"
            THEN CHOOSE t \in Threads : at[t] = "writing"
            ELSE Nobody

ActsAsReadersWriter == Exclusion!Spec
=============================================================================
