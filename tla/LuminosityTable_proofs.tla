------------------------ MODULE LuminosityTable_proofs ------------------------
(***************************************************************************)
(* What the table of luminosities owes to its lock, and what to its second *)
(* look, for any number of threads, populations, luminosities and calls.   *)
(***************************************************************************)
EXTENDS LuminosityTable, ReadWriteLock_proofs

(* Every step of a thread is a step of the lock, or leaves the lock alone. *)
LEMMA StepsOfLock == [Next]_vars => [LockNext]_lockVars
<1> SUFFICES ASSUME [Next]_vars PROVE [LockNext]_lockVars
  OBVIOUS
<1>1. ASSUME NEW t \in Threads, Step(t) PROVE [LockNext]_lockVars
  BY <1>1 DEF Step, Tabulate, TooSmall, LargeEnough, Resize, Missing, Complete,
     Fill, Tabulated, Reopen, Locate, Interpolate, InLock, LockNext
<1>2. ASSUME NEW t \in Threads, NEW r, Lookup(t, r)
      PROVE  [LockNext]_lockVars
  BY <1>2 DEF Lookup, OpenTracks, LockNext
<1>3. CASE UNCHANGED vars
  BY <1>3 DEF vars
<1> QED BY <1>1, <1>2, <1>3 DEF Next, Finished

LEMMA LockKept == Spec => []LockInv
<1>1. Init => LockInv
  BY LockInitInv DEF Init
<1>2. LockInv /\ [Next]_vars => LockInv'
  BY StepsOfLock, LockNextInv
<1> QED BY <1>1, <1>2, PTL DEF Spec

(* The entries change only in the hands of a thread that holds the write lock,
   so not while any thread reads them. *)
LEMMA StillStep ==
  ASSUME LockInv, [Next]_vars, NEW u \in Threads, at[u] = "reading"
  PROVE  UNCHANGED entryVars
<1>1. WriterAlone
  BY WriterIsAlone
<1>2. ASSUME NEW t \in Threads, Resize(t) \/ Fill(t) PROVE FALSE
  <2>1. at[t] = "writing"
    BY <1>2 DEF Resize, Fill, UnsetWriteStart
  <2> QED BY <1>1, <2>1 DEF WriterAlone
<1>3. ASSUME NEW t \in Threads, Step(t) PROVE UNCHANGED entryVars
  BY <1>2, <1>3 DEF Step, Tabulate, TooSmall, LargeEnough, Missing, Complete,
     Tabulated, Reopen, Locate, Interpolate, InLock, tableVars, entryVars
<1>4. ASSUME NEW t \in Threads, NEW r, Lookup(t, r)
      PROVE  UNCHANGED entryVars
  BY <1>4 DEF Lookup, OpenTracks, tableVars, entryVars
<1>5. CASE UNCHANGED vars
  BY <1>5 DEF vars, tableVars, entryVars
<1> QED BY <1>3, <1>4, <1>5 DEF Next, Finished

(* The read lock protects the entries of the tables: no room is made and no
   entry is filled in while a thread reads.  It does not protect the
   accelerators of the tables, which the readers write themselves. *)
THEOREM TablesStill == Spec => StillWhileRead
<1>1. LockInv /\ [Next]_vars
      => [(\E t \in Threads : at[t] = "reading") => UNCHANGED entryVars]_vars
  BY StillStep
<1> QED BY <1>1, LockKept, PTL DEF Spec, StillWhileRead

-----------------------------------------------------------------------------
(* How far a thread has come tells what is in the tables for it. *)
HasRoom ==
  \A t \in Threads :
    pc[t] \in {"entries", "fill", "filled", "lookup", "interpolate", "located"} =>
      call[t].population <= tables

HasEntries ==
  \A t \in Threads :
    pc[t] \in {"filled", "lookup", "interpolate", "located"} =>
      call[t].luminosities \subseteq isTabulated[call[t].population]

TableInv ==
  /\ TypeOK
  /\ computed \in [Populations -> [Luminosities -> Nat]]
  /\ HasRoom
  /\ HasEntries
  /\ ComputedOnce
  /\ MaximumIsFilled

LEMMA TableInitInv == Init => TableInv
<1> SUFFICES ASSUME Init PROVE TableInv
  OBVIOUS
<1>1. LockTypeOK
  BY LockInitInv DEF Init, LockInv
<1>2. (CHOOSE r \in Lookups : TRUE) \in Requests
  BY TableAssumption
<1>3. TypeOK
  BY <1>1, <1>2, TableAssumption DEF Init, TypeOK, Populations, Luminosities
<1> QED BY <1>3, TableAssumption DEF Init, TableInv, HasRoom, HasEntries,
           ComputedOnce, MaximumIsFilled, Luminosities

(* A step that moves one thread and leaves the tables alone. *)
LEMMA MovesOn ==
  ASSUME TableInv, LockTypeOK', NEW t \in Threads, NEW to, UNCHANGED entryVars,
         accelerator' \in [Populations -> Threads \cup {Nobody}],
         UNCHANGED call, left' \in [Threads -> 0 .. Calls],
         pc' = [pc EXCEPT ![t] = to],
         to \in {"idle", "size", "resize", "entries", "fill", "filled",
                 "lookup", "interpolate", "located"},
         to \in {"entries", "fill", "filled", "lookup", "interpolate", "located"} =>
           call[t].population <= tables,
         to \in {"filled", "lookup", "interpolate", "located"} =>
           call[t].luminosities \subseteq isTabulated[call[t].population]
  PROVE  TableInv'
<1>1. TypeOK'
  BY DEF TableInv, TypeOK, entryVars
<1>2. HasRoom'
  BY DEF TableInv, TypeOK, HasRoom, entryVars
<1>3. HasEntries'
  BY DEF TableInv, TypeOK, HasEntries, entryVars
<1> QED BY <1>1, <1>2, <1>3 DEF TableInv, ComputedOnce, MaximumIsFilled, entryVars

LEMMA NothingMoves ==
  ASSUME TableInv, LockTypeOK', UNCHANGED <<pc, call, left, tableVars>>
  PROVE  TableInv'
BY DEF TableInv, TypeOK, HasRoom, HasEntries, ComputedOnce, MaximumIsFilled,
   tableVars, entryVars

(* If the maximum is not below any entry asked for, all of them are there. *)
LEMMA NoNeed ==
  ASSUME TableInv, NEW t \in Threads, ~ NeedsEntries(t)
  PROVE  call[t].luminosities \subseteq isTabulated[call[t].population]
<1> SUFFICES ASSUME NEW i \in call[t].luminosities
             PROVE  i \in isTabulated[call[t].population]
  OBVIOUS
<1>1. /\ call[t].population \in Populations
      /\ i \in Luminosities
  BY DEF TableInv, TypeOK, Requests
<1>2. i \in Int /\ 1 <= i /\ isTabulatedMaximum[call[t].population] \in Int
  BY <1>1, TableAssumption DEF Luminosities, TableInv, TypeOK
<1>3. ~ (isTabulatedMaximum[call[t].population] < i)
  BY DEF NeedsEntries
<1>4. i \in 1 .. isTabulatedMaximum[call[t].population]
  BY <1>2, <1>3
<1> QED BY <1>1, <1>4 DEF TableInv, MaximumIsFilled

LEMMA AsksInv ==
  ASSUME TableInv, LockTypeOK', NEW t \in Threads, NEW r \in Requests,
         Lookup(t, r)
  PROVE  TableInv'
<1>1. /\ pc' = [pc EXCEPT ![t] = "tabulate"] /\ call' = [call EXCEPT ![t] = r]
      /\ left' = [left EXCEPT ![t] = left[t] - 1] /\ left[t] > 0
      /\ UNCHANGED tableVars
  BY DEF Lookup, OpenTracks, Goto
<1>2. TypeOK'
  BY <1>1, TableAssumption DEF TableInv, TypeOK, tableVars, entryVars
<1>3. HasRoom'
  BY <1>1 DEF TableInv, TypeOK, HasRoom, tableVars, entryVars
<1>4. HasEntries'
  BY <1>1 DEF TableInv, TypeOK, HasEntries, tableVars, entryVars
<1> QED BY <1>1, <1>2, <1>3, <1>4 DEF TableInv, ComputedOnce, MaximumIsFilled, tableVars, entryVars

LEMMA ResizeInv ==
  ASSUME TableInv, LockTypeOK', NEW t \in Threads, Resize(t)
  PROVE  TableInv'
<1>1. /\ call[t].population \in Populations
      /\ call[t].population \in Int /\ tables \in Int
      /\ call[t].population <= NPopulations
  BY TableAssumption DEF TableInv, TypeOK, Requests, Populations
<1>2. /\ tables' \in 0 .. NPopulations
      /\ tables <= tables' /\ call[t].population <= tables'
      /\ pc' = [pc EXCEPT ![t] = "entries"]
      /\ UNCHANGED <<call, left, isTabulated, isTabulatedMaximum, accelerator, computed>>
  <2>1. CASE NeedsRoom(t)
    BY <1>1, <2>1, TableAssumption DEF Resize, NeedsRoom, Goto, TableInv, TypeOK, Populations
  <2>2. CASE ~ NeedsRoom(t)
    BY <1>1, <2>2, TableAssumption DEF Resize, NeedsRoom, Goto, TableInv, TypeOK
  <2> QED BY <2>1, <2>2
<1>3. TypeOK'
  BY <1>2 DEF TableInv, TypeOK
<1>4. tables' \in Int /\ \A p \in Populations : p \in Int
  BY <1>2, TableAssumption DEF Populations
<1>5. HasRoom'
  <2> SUFFICES ASSUME NEW u \in Threads,
                      pc'[u] \in {"entries", "fill", "filled", "lookup", "interpolate", "located"}
               PROVE  call[u].population <= tables'
    BY <1>2 DEF HasRoom
  <2>1. call[u].population \in Int
    BY <1>4 DEF TableInv, TypeOK, Requests
  <2>2. CASE u = t
    BY <1>2, <2>2
  <2>3. CASE u # t
    <3>1. call[u].population <= tables
      BY <1>2, <2>3 DEF TableInv, TypeOK, HasRoom
    <3> QED BY <1>1, <1>2, <1>4, <2>1, <3>1
  <2> QED BY <2>2, <2>3
<1>6. HasEntries'
  BY <1>2 DEF TableInv, TypeOK, HasEntries
<1>7. MaximumIsFilled'
  <2>1. ASSUME NEW p \in Populations, isTabulated[p] # {} PROVE p <= tables'
    <3>1. p <= tables
      BY <2>1 DEF TableInv, MaximumIsFilled
    <3> QED BY <1>1, <1>2, <1>4, <3>1
  <2> QED BY <1>2, <2>1 DEF TableInv, MaximumIsFilled
<1> QED BY <1>2, <1>3, <1>5, <1>6, <1>7 DEF TableInv, ComputedOnce

LEMMA FillInv ==
  ASSUME TableInv, LockTypeOK', NEW t \in Threads, Fill(t)
  PROVE  TableInv'
<1> DEFINE p == call[t].population
           new == IF NeedsEntries(t) THEN call[t].luminosities \ isTabulated[p]
                                     ELSE {}
<1>1. /\ p \in Populations /\ p \in Int /\ call[t].luminosities \subseteq Luminosities
      /\ isTabulated[p] \subseteq Luminosities /\ pc[t] = "fill"
      /\ new \subseteq Luminosities /\ new \cap isTabulated[p] = {}
  BY TableAssumption DEF TableInv, TypeOK, Requests, Populations, Fill, Goto
<1>2. PICK m \in 0 .. NLuminosities :
        /\ LastInRow(m, isTabulated[p] \cup new)
        /\ isTabulatedMaximum' = [isTabulatedMaximum EXCEPT ![p] = m]
  BY DEF Fill
<1>3. /\ pc' = [pc EXCEPT ![t] = "filled"]
      /\ isTabulated' = [isTabulated EXCEPT ![p] = isTabulated[p] \cup new]
      /\ UNCHANGED <<call, left, tables, accelerator>>
  BY DEF Fill, Goto
<1>4. computed' = [computed EXCEPT ![p] = [i \in Luminosities |->
                     computed[p][i] + (IF i \in new THEN 1 ELSE 0)]]
  BY DEF Fill
<1>5. call[t].luminosities \subseteq isTabulated[p] \cup new
  <2>1. CASE NeedsEntries(t)
    BY <2>1
  <2>2. CASE ~ NeedsEntries(t)
    BY <2>2, NoNeed
  <2> QED BY <2>1, <2>2
<1> HIDE DEF p, new
<1>6. TypeOK'
  BY <1>1, <1>2, <1>3 DEF TableInv, TypeOK
<1>7. computed' \in [Populations -> [Luminosities -> Nat]]
  BY <1>1, <1>4 DEF TableInv
<1>8. p <= tables
  BY <1>1 DEF TableInv, HasRoom, p
<1>9. HasRoom'
  <2> SUFFICES ASSUME NEW u \in Threads,
                      pc'[u] \in {"entries", "fill", "filled", "lookup", "interpolate", "located"}
               PROVE  call[u].population <= tables
    BY <1>3 DEF HasRoom
  <2>1. CASE u = t
    BY <1>8, <2>1 DEF p
  <2>2. CASE u # t
    BY <1>3, <2>2 DEF TableInv, TypeOK, HasRoom
  <2> QED BY <2>1, <2>2
<1>10. \A q \in Populations : isTabulated[q] \subseteq isTabulated'[q]
  BY <1>1, <1>3 DEF TableInv, TypeOK
<1>11. HasEntries'
  <2> SUFFICES ASSUME NEW u \in Threads,
                      pc'[u] \in {"filled", "lookup", "interpolate", "located"}
               PROVE  call[u].luminosities \subseteq isTabulated'[call[u].population]
    BY <1>3 DEF HasEntries
  <2>1. CASE u = t
    BY <1>1, <1>3, <1>5, <2>1 DEF p, TableInv, TypeOK
  <2>2. CASE u # t
    <3>1. call[u].luminosities \subseteq isTabulated[call[u].population]
      BY <1>3, <2>2 DEF TableInv, TypeOK, HasEntries
    <3>2. call[u].population \in Populations
      BY DEF TableInv, TypeOK, Requests
    <3> QED BY <3>1, <3>2, <1>10
  <2> QED BY <2>1, <2>2
<1>12. ComputedOnce'
  <2> SUFFICES ASSUME NEW q \in Populations, NEW i \in Luminosities
               PROVE  computed'[q][i] = IF i \in isTabulated'[q] THEN 1 ELSE 0
    BY DEF ComputedOnce
  <2>1. computed[q][i] = IF i \in isTabulated[q] THEN 1 ELSE 0
    BY DEF TableInv, ComputedOnce
  <2>2. CASE q = p
    <3>1. computed'[q][i] = computed[p][i] + (IF i \in new THEN 1 ELSE 0)
      BY <1>1, <1>4, <2>2 DEF TableInv
    <3>2. isTabulated'[q] = isTabulated[p] \cup new
      BY <1>1, <1>3, <2>2 DEF TableInv, TypeOK
    <3> QED BY <1>1, <2>1, <2>2, <3>1, <3>2
  <2>3. CASE q # p
    BY <1>1, <1>3, <1>4, <2>1, <2>3 DEF TableInv, TypeOK
  <2> QED BY <2>2, <2>3
<1>13. MaximumIsFilled'
  <2> SUFFICES ASSUME NEW q \in Populations
               PROVE  /\ 1 .. isTabulatedMaximum'[q] \subseteq isTabulated'[q]
                      /\ isTabulated'[q] # {} => q <= tables
    BY <1>3 DEF MaximumIsFilled
  <2>1. CASE q = p
    BY <1>1, <1>2, <1>3, <1>8, <2>1 DEF TableInv, TypeOK, LastInRow
  <2>2. CASE q # p
    BY <1>2, <1>3, <2>2 DEF TableInv, TypeOK, MaximumIsFilled
  <2> QED BY <2>1, <2>2
<1> QED BY <1>6, <1>7, <1>9, <1>11, <1>12, <1>13 DEF TableInv

LEMMA TableNextInv == TableInv /\ LockInv /\ [Next]_vars => TableInv'
<1> SUFFICES ASSUME TableInv, LockInv, [Next]_vars PROVE TableInv'
  OBVIOUS
<1>0. LockTypeOK'
  BY StepsOfLock, LockNextInv DEF LockInv
<1>1. ASSUME NEW t \in Threads, NEW r \in Lookups,
             Lookup(t, r)
      PROVE  TableInv'
  BY <1>0, <1>1, AsksInv, TableAssumption
<1>2. ASSUME NEW t \in Threads, Tabulate(t) \/ TooSmall(t) PROVE TableInv'
  <2>1. PICK to \in {"size", "resize"} : pc' = [pc EXCEPT ![t] = to]
    BY <1>2 DEF Tabulate, TooSmall, Goto
  <2>2. /\ UNCHANGED entryVars /\ UNCHANGED call /\ left' \in [Threads -> 0 .. Calls]
        /\ accelerator' \in [Populations -> Threads \cup {Nobody}]
    BY <1>2 DEF Tabulate, TooSmall, TableInv, TypeOK, tableVars, entryVars
  <2> QED BY <1>0, <2>1, <2>2, MovesOn
<1>3. ASSUME NEW t \in Threads, LargeEnough(t) PROVE TableInv'
  <2>1. pc' = [pc EXCEPT ![t] = "entries"] /\ ~ NeedsRoom(t)
    BY <1>3 DEF LargeEnough, Goto
  <2>2. /\ UNCHANGED entryVars /\ UNCHANGED call /\ left' \in [Threads -> 0 .. Calls]
        /\ accelerator' \in [Populations -> Threads \cup {Nobody}]
    BY <1>3 DEF LargeEnough, TableInv, TypeOK, tableVars, entryVars
  <2>3. call[t].population <= tables
    BY <2>1, TableAssumption DEF NeedsRoom, TableInv, TypeOK, Requests, Populations
  <2> QED BY <1>0, <2>1, <2>2, <2>3, MovesOn
<1>4. ASSUME NEW t \in Threads, Missing(t) PROVE TableInv'
  <2>1. pc[t] = "entries" /\ pc' = [pc EXCEPT ![t] = "fill"]
    BY <1>4 DEF Missing, Goto
  <2>2. /\ UNCHANGED entryVars /\ UNCHANGED call /\ left' \in [Threads -> 0 .. Calls]
        /\ accelerator' \in [Populations -> Threads \cup {Nobody}]
    BY <1>4 DEF Missing, TableInv, TypeOK, tableVars, entryVars
  <2>3. call[t].population <= tables
    BY <2>1 DEF TableInv, HasRoom
  <2> QED BY <1>0, <2>1, <2>2, <2>3, MovesOn
<1>5. ASSUME NEW t \in Threads, Complete(t) PROVE TableInv'
  <2>1. pc[t] = "entries" /\ pc' = [pc EXCEPT ![t] = "filled"] /\ ~ NeedsEntries(t)
    BY <1>5 DEF Complete, Goto
  <2>2. /\ UNCHANGED entryVars /\ UNCHANGED call /\ left' \in [Threads -> 0 .. Calls]
        /\ accelerator' \in [Populations -> Threads \cup {Nobody}]
    BY <1>5 DEF Complete, TableInv, TypeOK, tableVars, entryVars
  <2>3. call[t].population <= tables
    BY <2>1 DEF TableInv, HasRoom
  <2>4. call[t].luminosities \subseteq isTabulated[call[t].population]
    BY <2>1, NoNeed
  <2> QED BY <1>0, <2>1, <2>2, <2>3, <2>4, MovesOn
<1>6. ASSUME NEW t \in Threads,
             Tabulated(t) \/ Reopen(t) \/ Locate(t) \/ Interpolate(t)
      PROVE  TableInv'
  <2>1. PICK to \in {"lookup", "interpolate", "located", "idle"} :
          pc' = [pc EXCEPT ![t] = to]
    BY <1>6 DEF Tabulated, Reopen, Locate, Interpolate, Goto
  <2>2. /\ UNCHANGED entryVars /\ UNCHANGED call /\ left' \in [Threads -> 0 .. Calls]
        /\ accelerator' \in [Populations -> Threads \cup {Nobody}]
    BY <1>6 DEF Tabulated, Reopen, Locate, Interpolate, TableInv, TypeOK, tableVars, entryVars
  <2>3. pc[t] \in {"filled", "lookup", "interpolate", "located"}
    BY <1>6 DEF Tabulated, Reopen, Locate, Interpolate, Goto
  <2>4. call[t].population <= tables
    BY <2>3 DEF TableInv, HasRoom
  <2>5. call[t].luminosities \subseteq isTabulated[call[t].population]
    BY <2>3 DEF TableInv, HasEntries
  <2> QED BY <1>0, <2>1, <2>2, <2>4, <2>5, MovesOn
<1>7. ASSUME NEW t \in Threads, InLock(t) PROVE TableInv'
  BY <1>0, <1>7, NothingMoves DEF InLock
<1>8. CASE UNCHANGED vars
  BY <1>0, <1>8, NothingMoves DEF vars
<1>9. ASSUME NEW t \in Threads, Resize(t) PROVE TableInv'
  BY <1>0, <1>9, ResizeInv
<1>10. ASSUME NEW t \in Threads, Fill(t) PROVE TableInv'
  BY <1>0, <1>10, FillInv
<1> QED BY <1>1, <1>2, <1>3, <1>4, <1>5, <1>6, <1>7, <1>8, <1>9, <1>10
      DEF Next, Step, Finished

LEMMA TableKept == Spec => []TableInv
BY TableInitInv, TableNextInv, LockKept, PTL DEF Spec

THEOREM TableTypeCorrect == Spec => []TypeOK
<1>1. TableInv => TypeOK
  BY DEF TableInv
<1> QED BY <1>1, TableKept, PTL

(* standardLuminosities interpolates only in entries that are there, although
   it gives up the lock after standardTabulate and takes it again. *)
THEOREM EntriesThere == Spec => []InterpolatesInEntries
<1>1. TableInv => InterpolatesInEntries
  BY DEF TableInv, HasRoom, HasEntries, InterpolatesInEntries
<1> QED BY <1>1, TableKept, PTL

(* The second look, under the write lock, keeps any entry from being computed
   by each of the threads that found it missing. *)
THEOREM NeverTwice == Spec => []ComputedOnce
<1>1. TableInv => ComputedOnce
  BY DEF TableInv
<1> QED BY <1>1, TableKept, PTL

(* The maximum that answers most calls covers only entries that are there. *)
THEOREM ShortcutSound == Spec => []MaximumIsFilled
<1>1. TableInv => MaximumIsFilled
  BY DEF TableInv
<1> QED BY <1>1, TableKept, PTL
=============================================================================
