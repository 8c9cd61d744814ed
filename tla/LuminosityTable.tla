--------------------------- MODULE LuminosityTable ---------------------------
(***************************************************************************)
(* The table of broad band luminosities that the threads of a run share    *)
(* (source/stellar_populations.broad_band_luminosities.standard.F90), kept *)
(* with the lock of ReadWriteLock.  A thread that needs an entry looks     *)
(* under the read lock whether it is there; if not it turns the read lock  *)
(* into the write lock, between which any other thread may come first,     *)
(* looks again, fills the entry in and turns the lock back.                *)
(*                                                                         *)
(* Each table also holds the accelerators of its interpolations, which     *)
(* remember where the last search ended.  They are written by whoever      *)
(* searches, under the read lock only.                                     *)
(***************************************************************************)
EXTENDS ReadWriteLock

CONSTANTS
  NPopulations, \* stellar populations are numbered from 1
  NLuminosities, \* and so are luminosities
  Lookups,      \* what may be asked for, see Requests
  Calls         \* how many calls each thread makes

Populations == 1 .. NPopulations

Luminosities == 1 .. NLuminosities

(* For some luminosities of a population, or their tracks over age. *)
Requests == [population : Populations, luminosities : SUBSET Luminosities \ {{}},
             tracks : BOOLEAN]

ASSUME TableAssumption ==
  /\ NPopulations \in Nat /\ NLuminosities \in Nat /\ Calls \in Nat
  /\ Lookups \subseteq Requests /\ Lookups # {}

VARIABLES
  pc,         \* where each thread is
  call,       \* what it has been asked for
  left,       \* how many calls it still makes
  tables,     \* how many populations the array of tables has room for
  isTabulated, \* [Populations -> SUBSET Luminosities]: the entries filled in
  isTabulatedMaximum, \* all entries up to this one are filled in
  accelerator, \* [Populations -> Threads \cup {Nobody}]: whose search was last
  computed    \* history: how often each entry was computed

entryVars == <<tables, isTabulated, isTabulatedMaximum, computed>>

tableVars == <<entryVars, accelerator>>

vars == <<lockVars, pc, call, left, tableVars>>

Init ==
  /\ LockInit
  /\ pc = [t \in Threads |-> "idle"]
  /\ call = [t \in Threads |-> CHOOSE r \in Lookups : TRUE] \* nothing yet
  /\ left = [t \in Threads |-> Calls]
  /\ tables = 0
  /\ isTabulated = [p \in Populations |-> {}]
  /\ isTabulatedMaximum = [p \in Populations |-> 0]
  /\ accelerator = [p \in Populations |-> Nobody]
  /\ computed = [p \in Populations |-> [i \in Luminosities |-> 0]]

Goto(t, from, to) ==
  /\ pc[t] = from
  /\ pc' = [pc EXCEPT ![t] = to]

(* standardLuminosityTracks takes the read lock before all else, and comes no
   further than standardTabulate, which asks for it again. *)
OpenTracks(t, request) ==
  IF request.tracks THEN SetRead(t) ELSE UNCHANGED lockVars

(* A call of standardLuminosities or standardLuminosityTracks. *)
Lookup(t, request) ==
  /\ left[t] > 0
  /\ Goto(t, "idle", "tabulate")
  /\ OpenTracks(t, request)
  /\ call' = [call EXCEPT ![t] = request]
  /\ left' = [left EXCEPT ![t] = @ - 1]
  /\ UNCHANGED tableVars

(* standardTabulate takes the read lock, whether or not the caller has. *)
Tabulate(t) ==
  /\ Goto(t, "tabulate", "size")
  /\ SetRead(t)
  /\ UNCHANGED <<call, left, tableVars>>

NeedsRoom(t) == tables < call[t].population

TooSmall(t) ==
  /\ at[t] = "reading"
  /\ NeedsRoom(t)
  /\ Goto(t, "size", "resize")
  /\ SetWriteStart(t, TRUE)
  /\ UNCHANGED <<call, left, tableVars>>

LargeEnough(t) ==
  /\ at[t] = "reading"
  /\ ~ NeedsRoom(t)
  /\ Goto(t, "size", "entries")
  /\ UNCHANGED <<lockVars, call, left, tableVars>>

ResizeAgain(t) ==  \* mutant: starts the test afresh
  /\ Goto(t, "resize", "size")
  /\ UnsetWriteStart(t, TRUE)
  /\ UNCHANGED <<call, left, tableVars>>
Resize(t) ==
  /\ Goto(t, "resize", "entries")
  /\ UnsetWriteStart(t, TRUE)
  /\ tables' = IF NeedsRoom(t) THEN call[t].population ELSE tables
  /\ UNCHANGED <<call, left, isTabulated, isTabulatedMaximum, accelerator, computed>>

NeedsEntriesBefore(t) ==  \* mutant: one entry out
  \E i \in call[t].luminosities : isTabulatedMaximum[call[t].population] < i - 1
NeedsEntries(t) ==
  \E i \in call[t].luminosities : isTabulatedMaximum[call[t].population] < i

Missing(t) ==
  /\ at[t] = "reading"
  /\ NeedsEntries(t)
  /\ Goto(t, "entries", "fill")
  /\ SetWriteStart(t, TRUE)
  /\ UNCHANGED <<call, left, tableVars>>

Complete(t) ==
  /\ at[t] = "reading"
  /\ ~ NeedsEntries(t)
  /\ Goto(t, "entries", "filled")
  /\ UNCHANGED <<lockVars, call, left, tableVars>>

(* m is the last of the entries that are all filled in, from the first on. *)
LastOfAll(m, filled) ==  \* mutant: the last there is, with gaps
  m \in filled \cup {0} /\ \A i \in filled : i <= m
LastInRow(m, filled) == 1 .. m \subseteq filled /\ m + 1 \notin filled

(* Each entry asked for is computed (or read from file) unless it is there. *)
FillAnyway(t) ==  \* mutant: does not look again
  LET p == call[t].population
  IN  /\ Goto(t, "fill", "filled")
      /\ UnsetWriteStart(t, TRUE)
      /\ isTabulated' = [isTabulated EXCEPT ![p] = @ \cup call[t].luminosities]
      /\ \E m \in 0 .. NLuminosities :
           /\ LastInRow(m, isTabulated[p] \cup call[t].luminosities)
           /\ isTabulatedMaximum' = [isTabulatedMaximum EXCEPT ![p] = m]
      /\ computed' = [computed EXCEPT ![p] = [i \in Luminosities |->
                        @[i] + (IF i \in call[t].luminosities THEN 1 ELSE 0)]]
      /\ UNCHANGED <<call, left, tables, accelerator>>
Fill(t) ==
  LET p == call[t].population
      new == IF NeedsEntries(t) THEN call[t].luminosities \ isTabulated[p]
                                ELSE {}
  IN  /\ Goto(t, "fill", "filled")
      /\ UnsetWriteStart(t, TRUE)
      /\ isTabulated' = [isTabulated EXCEPT ![p] = @ \cup new]
      /\ \E m \in 0 .. NLuminosities :
           /\ LastInRow(m, isTabulated[p] \cup new)
           /\ isTabulatedMaximum' = [isTabulatedMaximum EXCEPT ![p] = m]
      /\ computed' = [computed EXCEPT ![p] =
                        [i \in Luminosities |-> @[i] + (IF i \in new THEN 1 ELSE 0)]]
      /\ UNCHANGED <<call, left, tables, accelerator>>

(* The end of standardTabulate. *)
Tabulated(t) ==
  /\ Goto(t, "filled", "lookup")
  /\ UnsetRead(t)
  /\ UNCHANGED <<call, left, tableVars>>

Reopen(t) ==
  /\ Goto(t, "lookup", "interpolate")
  /\ SetRead(t)
  /\ UNCHANGED <<call, left, tableVars>>

(* Interpolate_Locate searches for the interval that a metallicity or an age
   is in: the accelerator of the table is allocated if it is to be reset, is
   left at the interval found, and is what the interval is then read from. *)
Locate(t) ==
  /\ Goto(t, "interpolate", "located")
  /\ accelerator' = [accelerator EXCEPT ![call[t].population] = t]
  /\ UNCHANGED <<lockVars, call, left, entryVars>>

(* Beyond the range of the table, and before a population has formed, nothing
   is searched for. *)
Interpolate(t) ==
  /\ \E from \in {"interpolate", "located"} : Goto(t, from, "idle")
  /\ UnsetRead(t)
  /\ UNCHANGED <<call, left, tableVars>>

(* The routines of the lock go on. *)
InLock(t) == LockStep(t) /\ UNCHANGED <<pc, call, left, tableVars>>

Step(t) ==
  \/ Tabulate(t) \/ TooSmall(t) \/ LargeEnough(t) \/ Resize(t) \/ Missing(t)
  \/ Complete(t) \/ Fill(t) \/ Tabulated(t) \/ Reopen(t) \/ Locate(t)
  \/ Interpolate(t) \/ InLock(t)

Finished ==
  /\ \A t \in Threads : pc[t] = "idle" /\ left[t] = 0
  /\ UNCHANGED vars

Next ==
  \/ \E t \in Threads :
       \/ Step(t)
       \/ \E r \in Lookups : Lookup(t, r)
  \/ Finished

(* A thread that is in a call goes on whenever it can. *)
Spec == Init /\ [][Next]_vars /\ \A t \in Threads : WF_vars(Step(t))

-----------------------------------------------------------------------------
TypeOK ==
  /\ LockTypeOK
  /\ pc \in [Threads -> {"idle", "tabulate", "size", "resize", "entries",
                         "fill", "filled", "lookup", "interpolate", "located"}]
  /\ call \in [Threads -> Requests]
  /\ left \in [Threads -> 0 .. Calls]
  /\ tables \in 0 .. NPopulations
  /\ isTabulated \in [Populations -> SUBSET Luminosities]
  /\ isTabulatedMaximum \in [Populations -> 0 .. NLuminosities]
  /\ accelerator \in [Populations -> Threads \cup {Nobody}]

(* What a thread interpolates in is there: the population has a table, and
   every luminosity asked for is filled in, although the lock was given up
   between tabulation and interpolation (standardLuminosities). *)
InterpolatesInEntries ==
  \A t \in Threads :
    pc[t] \in {"interpolate", "located"} =>
      /\ call[t].population <= tables
      /\ call[t].luminosities \subseteq isTabulated[call[t].population]

(* No luminosity is computed twice, however many threads found it missing at
   once ("retest if tabulation is required"). *)
ComputedOnce ==
  \A p \in Populations, i \in Luminosities :
    computed[p][i] = IF i \in isTabulated[p] THEN 1 ELSE 0

(* The shortcut by which most calls are answered never claims an entry that is
   not there, and no entry lies beyond the array of tables. *)
MaximumIsFilled ==
  \A p \in Populations :
    /\ 1 .. isTabulatedMaximum[p] \subseteq isTabulated[p]
    /\ isTabulated[p] # {} => p <= tables

(* While a thread reads the tables no entry of theirs changes and the array of
   tables does not move.  Their accelerators are not among the entries: those
   the readers change under each other's hands, see OwnInterval. *)
StillWhileRead ==
  [][(\E t \in Threads : at[t] = "reading") => UNCHANGED entryVars]_vars

(* Every call comes back, although each waits twice for the read lock, and for
   the write lock in between, which others hold and ask for. *)
CallsEnd == \A t \in Threads : pc[t] # "idle" ~> pc[t] = "idle"

(* What a call returns is "of given abundances and age": the interval that it
   interpolates in is the one that it searched for.  This does not hold: the
   accelerator may meanwhile have been taken to the interval of another call. *)
OwnInterval ==
  \A t \in Threads : pc[t] = "located" => accelerator[call[t].population] = t
=============================================================================
