--------------------------- MODULE LoopStoreProofs --------------------------
(***************************************************************************)
(* Theorems about LoopStore for any number of hook processes, kills and    *)
(* failed writes, checked by TLAPS.                                        *)
(*                                                                         *)
(* Mutual exclusion alone is not inductive: it rests on Holding, by which  *)
(* a process past the guard holds the flock.  The refinement needs in      *)
(* addition that a process about to write has read the present file        *)
(* (ReadIsCurrent), which fails when the file was absent at first and is   *)
(* therefore proved for a turn whose ledger exists.                        *)
(***************************************************************************)
EXTENDS LoopStore, FiniteSetTheorems, TLAPS

Holders == {"marker", "stat", "remove_stale"} \cup Critical

Holding == \A p \in Procs : pc[p] \in Holders => guard = p

CommittedLate == \A p \in committed : pc[p] \in {"unlink", "unlock"} \cup Stopped

StoreInv == StoreTypeOK /\ Holding /\ MarkerStands /\ CommittedLate

ReadIsCurrent ==
    /\ file \in SUBSET Procs
    /\ \A p \in Procs : ~initialize[p]
    /\ \A p \in Procs : pc[p] = "write" => loaded[p] = file

\* What a hook makes of a ledger is a ledger.
LEMMA TransitionType ==
    ASSUME NEW p \in Procs, NEW led \in SUBSET Procs
    PROVE  Transition(p, led) \in SUBSET Procs
BY DEF Transition

\* The initial state satisfies the invariant.
LEMMA StoreInitInv == Init => StoreInv
BY StoreAssumption
   DEF Init, StoreInv, StoreTypeOK, Holding, MarkerStands, CommittedLate, Locations, Holders,
       Critical, Stopped

\* Every operation of a process, every kill and the passing of time preserve it.
LEMMA StoreStepInv == StoreInv /\ [Next]_vars => StoreInv'
<1> SUFFICES ASSUME StoreInv, [Next]_vars PROVE StoreInv'
  OBVIOUS
<1> USE StoreAssumption DEF StoreInv, StoreTypeOK, Holding, MarkerStands, CommittedLate,
        Locations, Holders, Critical, Stopped, Go, locals, answers, counters
<1>1. ASSUME NEW p \in Procs, Look(p) PROVE StoreInv'
  <2>1. initialize' \in [Procs -> BOOLEAN]
    BY <1>1, Zenon DEF Look
  <2>2. PICK l \in {"done", "guard"} : pc[p] = "start" /\ pc' = [pc EXCEPT ![p] = l]
    BY <1>1 DEF Look
  <2>3. UNCHANGED << file, guard, marker, loaded, late, committed, granted, crashes, errors >>
    BY <1>1 DEF Look
  <2>4. QED
    BY <2>1, <2>2, <2>3
<1>2. ASSUME NEW p \in Procs, TakeGuard(p) PROVE StoreInv'
  BY <1>2 DEF TakeGuard
<1>3. ASSUME NEW p \in Procs, GuardTimeout(p) PROVE StoreInv'
  BY <1>3 DEF GuardTimeout
<1>4. ASSUME NEW p \in Procs, CreateMarker(p) PROVE StoreInv'
  BY <1>4 DEF CreateMarker
<1>5. ASSUME NEW p \in Procs, StatMarker(p) PROVE StoreInv'
  BY <1>5 DEF StatMarker
<1>6. ASSUME NEW p \in Procs, RemoveStale(p) PROVE StoreInv'
  BY <1>6 DEF RemoveStale
<1>7. ASSUME NEW p \in Procs, Load(p) PROVE StoreInv'
  BY <1>7 DEF Load
<1>8. ASSUME NEW p \in Procs, Write(p) PROVE StoreInv'
  BY <1>8, TransitionType DEF Write
<1>9. ASSUME NEW p \in Procs, WriteError(p) PROVE StoreInv'
  BY <1>9 DEF WriteError
<1>10. ASSUME NEW p \in Procs, UnlinkMarker(p) PROVE StoreInv'
  BY <1>10 DEF UnlinkMarker
<1>11. ASSUME NEW p \in Procs, Unlock(p) PROVE StoreInv'
  BY <1>11 DEF Unlock
<1>12. ASSUME NEW p \in Procs, Kill(p) PROVE StoreInv'
  BY <1>12 DEF Kill
<1>13. ASSUME NEW p \in Procs, Expire(p) PROVE StoreInv'
  BY <1>13 DEF Expire
<1>14. CASE Age
  BY <1>14 DEF Age
<1>15. CASE UNCHANGED vars
  BY <1>15 DEF vars
<1>16. QED
  BY <1>1, <1>2, <1>3, <1>4, <1>5, <1>6, <1>7, <1>8, <1>9, <1>10, <1>11, <1>12, <1>13, <1>14,
     <1>15 DEF Next, Step, AllStopped

\* The strengthened invariant holds in every reachable state.
THEOREM StoreInvariant == Spec => []StoreInv
<1>1. QED
  BY StoreInitInv, StoreStepInv, PTL DEF Spec

\* The variables of the store keep their types: a marker, a lock holder and a ledger are
\* never anything else, for any set of processes.
THEOREM StoreTypeCorrect == Spec => []StoreTypeOK
BY StoreInvariant, PTL DEF StoreInv

\* No two hooks are in the critical section of mutate_loop_ledger at once, although the
\* marker alone can be taken from a live holder that is slow.
THEOREM StoreMutualExclusion == Spec => []MutualExclusion
<1>1. StoreInv => MutualExclusion
  BY DEF StoreInv, Holding, Holders, MutualExclusion
<1>2. QED
  BY <1>1, StoreInvariant, PTL

\* The marker of a process that reads or writes the ledger is never removed by another.
THEOREM StoreMarkerStands == Spec => []MarkerStands
BY StoreInvariant, PTL DEF StoreInv

-----------------------------------------------------------------------------
(***************************************************************************)
(* The refinement.  A step of a process maps to a step of AtomicLedger     *)
(* when it replaces the file (Apply) or stops without having done so       *)
(* (GiveUp); every other operation is a stutter.                           *)
(***************************************************************************)
ExistingLedger == InitialFile = {}

\* Initially no process has read anything.
LEMMA ReadInit == ExistingLedger /\ Init => ReadIsCurrent
BY DEF ExistingLedger, Init, ReadIsCurrent

\* Mutual exclusion keeps what a process read current until it writes.
LEMMA ReadStep == StoreInv /\ ReadIsCurrent /\ [Next]_vars => ReadIsCurrent'
<1> SUFFICES ASSUME StoreInv, ReadIsCurrent, [Next]_vars PROVE ReadIsCurrent'
  OBVIOUS
<1> USE StoreAssumption DEF StoreInv, StoreTypeOK, ReadIsCurrent, Locations, Critical, Stopped,
        Go, locals, answers, counters
<1>1. ASSUME NEW p \in Procs, Look(p) PROVE ReadIsCurrent'
  BY <1>1 DEF Look
<1>2. ASSUME NEW p \in Procs, Load(p) PROVE ReadIsCurrent'
  BY <1>2 DEF Load
<1>3. ASSUME NEW p \in Procs, Write(p) PROVE ReadIsCurrent'
  BY <1>3, TransitionType DEF Write, Holding, Holders
<1>4. ASSUME NEW p \in Procs,
             \/ TakeGuard(p) \/ GuardTimeout(p) \/ CreateMarker(p) \/ StatMarker(p)
             \/ RemoveStale(p) \/ WriteError(p) \/ UnlinkMarker(p) \/ Unlock(p)
             \/ Kill(p) \/ Expire(p)
      PROVE  ReadIsCurrent'
  BY <1>4 DEF TakeGuard, GuardTimeout, CreateMarker, StatMarker, RemoveStale, WriteError,
              UnlinkMarker, Unlock, Kill, Expire
<1>5. CASE Age
  BY <1>5 DEF Age
<1>6. CASE UNCHANGED vars
  BY <1>6 DEF vars
<1>7. QED
  BY <1>1, <1>2, <1>3, <1>4, <1>5, <1>6 DEF Next, Step, AllStopped

\* The initial states are those of the atomic ledger.
LEMMA AtomicInit == ExistingLedger /\ Init => Atomic!AInit
BY StoreAssumption DEF ExistingLedger, Init, Atomic!AInit, Ledger, Status, Stopped

\* A step that changes neither the file, nor who committed, nor who stopped, stutters.
LEMMA Stutter ==
    ASSUME UNCHANGED << file, answers >>,
           \A p \in Procs : pc'[p] \in Stopped <=> pc[p] \in Stopped
    PROVE  UNCHANGED Atomic!avars
BY DEF Atomic!avars, Ledger, Status, answers

\* A process that stops without a commit gives up, and after a commit it stutters.
LEMMA Stops ==
    ASSUME StoreTypeOK, NEW p \in Procs, NEW l \in Stopped,
           pc[p] \notin Stopped, pc' = [pc EXCEPT ![p] = l],
           UNCHANGED << file, answers >>
    PROVE  Atomic!GiveUp(p) \/ UNCHANGED Atomic!avars
<1>1. CASE p \in committed
  BY <1>1 DEF Atomic!avars, Ledger, Status, StoreTypeOK, answers
<1>2. CASE p \notin committed
  BY <1>2 DEF Atomic!GiveUp, Ledger, Status, StoreTypeOK, answers
<1>3. QED
  BY <1>1, <1>2

\* Every step applies one transition whole, gives up, or does not show.
LEMMA AtomicStep == StoreInv /\ ReadIsCurrent /\ [Next]_vars => [Atomic!ANext]_(Atomic!avars)
<1> SUFFICES ASSUME StoreInv, ReadIsCurrent, [Next]_vars
             PROVE  Atomic!ANext \/ UNCHANGED Atomic!avars
  OBVIOUS
<1> USE StoreAssumption DEF StoreInv, StoreTypeOK, Go, locals, answers, counters
<1>1. ASSUME NEW p \in Procs, Write(p) PROVE Atomic!Apply(p)
  <2>1. p \notin committed /\ pc[p] = "write"
    BY <1>1 DEF Write, CommittedLate, Stopped
  <2>2. Ledger = loaded[p] /\ Ledger' = Transition(p, loaded[p])
    <3>1. file \in SUBSET Procs /\ loaded[p] = file
      BY <1>1 DEF Write, ReadIsCurrent
    <3>2. Transition(p, loaded[p]) \in SUBSET Procs
      BY <3>1, TransitionType
    <3>3. QED
      BY <1>1, <3>1, <3>2 DEF Write, Ledger
  <2>3. Status(p) = "pending"
    BY <2>1 DEF Status, Stopped
  <2>4. [q \in Procs |-> Status(q)]' = [[q \in Procs |-> Status(q)] EXCEPT ![p] = "applied"]
    BY <1>1, <2>1 DEF Write, Status, Stopped
  <2>5. Atomic!Transition(p, Ledger) = Transition(p, Ledger)
    BY DEF Atomic!Transition, Transition, Atomic!Cardinality, Cardinality
  <2>6. QED
    BY <2>2, <2>3, <2>4, <2>5 DEF Atomic!Apply
<1>2. ASSUME NEW p \in Procs,
             \/ TakeGuard(p) \/ CreateMarker(p) \/ RemoveStale(p) \/ Load(p)
             \/ WriteError(p) \/ UnlinkMarker(p) \/ Expire(p)
      PROVE  UNCHANGED Atomic!avars
  BY <1>2, Stutter DEF TakeGuard, CreateMarker, RemoveStale, Load, WriteError, UnlinkMarker,
                       Expire, Stopped
<1>3. ASSUME NEW p \in Procs, Look(p) \/ StatMarker(p)
      PROVE  Atomic!GiveUp(p) \/ UNCHANGED Atomic!avars
  <2>1. CASE pc'[p] \in Stopped
    BY <1>3, <2>1, Stops DEF Look, StatMarker, Stopped
  <2>2. CASE pc'[p] \notin Stopped
    BY <1>3, <2>2, Stutter DEF Look, StatMarker, Stopped
  <2>3. QED
    BY <2>1, <2>2
<1>4. ASSUME NEW p \in Procs, GuardTimeout(p) \/ Unlock(p) \/ Kill(p)
      PROVE  Atomic!GiveUp(p) \/ UNCHANGED Atomic!avars
  BY <1>4, Stops DEF GuardTimeout, Unlock, Kill, Stopped
<1>5. CASE Age
  BY <1>5, Stutter DEF Age
<1>6. CASE UNCHANGED vars
  BY <1>6, Stutter DEF vars
<1>7. QED
  BY <1>1, <1>2, <1>3, <1>4, <1>5, <1>6 DEF Next, Step, AllStopped, Atomic!ANext

\* Hooks of a turn whose ledger file exists implement the atomic ledger.
THEOREM StoreRefinesAtomicLedger == ExistingLedger /\ Spec => ImplementsAtomicLedger
<1>1. ExistingLedger /\ Init => StoreInv /\ ReadIsCurrent /\ Atomic!AInit
  BY StoreInitInv, ReadInit, AtomicInit
<1>2. StoreInv /\ ReadIsCurrent /\ [Next]_vars => (StoreInv /\ ReadIsCurrent)'
  BY StoreStepInv, ReadStep
<1>3. StoreInv /\ ReadIsCurrent /\ [Next]_vars => [Atomic!ANext]_(Atomic!avars)
  BY AtomicStep
<1>4. QED
  BY <1>1, <1>2, <1>3, PTL DEF Spec, ImplementsAtomicLedger, Atomic!ASpec

-----------------------------------------------------------------------------
(***************************************************************************)
(* The spawn budget.  What the hooks granted is what the ledger counts, so *)
(* the check of BeforeSpawn against the ledger bounds the grants.          *)
(***************************************************************************)
GrantsCounted == granted = file \cap Spawners /\ SpawnBudget

\* One more element adds at most one to a cardinality.
LEMMA OneMore ==
    ASSUME NEW S, IsFiniteSet(S), NEW x
    PROVE  /\ Cardinality(S \cup {x}) \in Nat
           /\ Cardinality(S \cup {x}) <= Cardinality(S) + 1
<1>1. Cardinality(S) \in Nat
  BY FS_CardinalityType
<1>2. Cardinality(S \cup {x}) = IF x \in S THEN Cardinality(S) ELSE Cardinality(S) + 1
  BY FS_AddElement, Zenon
<1>3. QED
  BY <1>1, <1>2

\* Initially nothing is granted and nothing counted.
LEMMA GrantsInit == ExistingLedger /\ Init => GrantsCounted
BY FS_EmptySet, BudgetAssumption DEF ExistingLedger, Init, GrantsCounted, SpawnBudget

\* A hook that lets a spawn through records it in the file it replaces.
LEMMA GrantsStep ==
    StoreInv /\ ReadIsCurrent /\ GrantsCounted /\ [Next]_vars => GrantsCounted'
<1> SUFFICES ASSUME StoreInv, ReadIsCurrent, GrantsCounted, [Next]_vars
             PROVE  GrantsCounted'
  OBVIOUS
<1>1. ASSUME NEW p \in Procs, Write(p) PROVE GrantsCounted'
  <2> DEFINE room == Cardinality(file \cap Spawners) < Budget
  <2>1. /\ file \in SUBSET Procs
        /\ granted = file \cap Spawners
        /\ file' = Transition(p, file)
        /\ granted' = IF p \in Resetters THEN {}
                      ELSE granted \cup (file' \cap Spawners \cap {p})
    BY <1>1 DEF Write, Go, ReadIsCurrent, GrantsCounted
  <2>2. /\ IsFiniteSet(file \cap Spawners)
        /\ Cardinality(file \cap Spawners) \in Nat
        /\ Cardinality(file \cap Spawners) <= Budget
    BY <2>1, ProcsAssumption, FS_Subset, FS_CardinalityType DEF GrantsCounted, SpawnBudget
  <2>3. CASE p \in Resetters
    BY <2>1, <2>3, FS_EmptySet, BudgetAssumption DEF Transition, GrantsCounted, SpawnBudget
  <2>4. CASE p \in Spawners /\ room
    <3>1. file' = file \cup {p}
      BY <2>1, <2>2, <2>4, ProcsAssumption, BudgetAssumption DEF Transition
    <3>2. granted' = file' \cap Spawners /\ granted' = granted \cup {p}
      BY <2>1, <2>4, <3>1, ProcsAssumption
    <3>3. /\ Cardinality(granted \cup {p}) \in Nat
          /\ Cardinality(granted \cup {p}) <= Cardinality(granted) + 1
      BY <2>1, <2>2, OneMore
    <3>4. Cardinality(granted) + 1 <= Budget
      BY <2>1, <2>2, <2>4, BudgetAssumption
    <3>5. Cardinality(granted \cup {p}) <= Budget
      BY <2>1, <2>2, <3>3, <3>4, BudgetAssumption
    <3>6. Cardinality(granted') <= Budget
      BY <3>2, <3>5, Zenon
    <3>7. QED
      BY <3>2, <3>6, Zenon DEF GrantsCounted, SpawnBudget
  <2>5. CASE p \in Spawners /\ ~room
    <3>1. file' = file
      BY <2>1, <2>2, <2>5, ProcsAssumption, BudgetAssumption DEF Transition
    <3>2. granted' = granted
      BY <2>1, <2>5, <3>1, ProcsAssumption
    <3>3. QED
      BY <3>1, <3>2 DEF GrantsCounted, SpawnBudget
  <2>6. CASE p \notin Spawners /\ p \notin Resetters
    <3>1. granted' = granted /\ file' \cap Spawners = file \cap Spawners
      BY <2>1, <2>6 DEF Transition
    <3>2. QED
      BY <2>1, <3>1 DEF GrantsCounted, SpawnBudget
  <2>7. QED
    BY <2>3, <2>4, <2>5, <2>6
<1>2. CASE UNCHANGED << file, granted >>
  BY <1>2 DEF GrantsCounted, SpawnBudget
<1>3. QED
  BY <1>1, <1>2
     DEF Next, Step, AllStopped, vars, answers, Look, TakeGuard, GuardTimeout, CreateMarker,
         StatMarker, RemoveStale, Load, WriteError, UnlinkMarker, Unlock, Kill, Expire, Age

\* In a turn whose ledger file exists the hooks never let more spawns through than the
\* budget, for any number of concurrent hooks, kills and failed writes.
THEOREM StoreSpawnBudget == ExistingLedger /\ Spec => []SpawnBudget
<1>1. ExistingLedger /\ Init => StoreInv /\ ReadIsCurrent /\ GrantsCounted
  BY StoreInitInv, ReadInit, GrantsInit
<1>2. StoreInv /\ ReadIsCurrent /\ GrantsCounted /\ [Next]_vars
        => (StoreInv /\ ReadIsCurrent /\ GrantsCounted)'
  BY StoreStepInv, ReadStep, GrantsStep
<1>3. GrantsCounted => SpawnBudget
  BY DEF GrantsCounted
<1>4. QED
  BY <1>1, <1>2, <1>3, PTL DEF Spec

-----------------------------------------------------------------------------
(***************************************************************************)
(* No lost update.  Until a prompt resets it the file only grows, because  *)
(* a process writes what it read plus its own event, and what it read is   *)
(* still the file (ReadIsCurrent).                                         *)
(***************************************************************************)
EventsKept == committed \cap Resetters = {} => committed \ Spawners \subseteq file

\* No commit takes the event of an earlier one out of the file.
LEMMA EventsStep == StoreInv /\ ReadIsCurrent /\ EventsKept /\ [Next]_vars => EventsKept'
<1> SUFFICES ASSUME StoreInv, ReadIsCurrent, EventsKept, [Next]_vars
             PROVE  EventsKept'
  OBVIOUS
<1>1. ASSUME NEW p \in Procs, Write(p) PROVE EventsKept'
  <2>1. file' = Transition(p, file) /\ committed' = committed \cup {p}
    BY <1>1 DEF Write, Go, ReadIsCurrent
  <2>2. CASE p \in Resetters
    BY <2>1, <2>2 DEF EventsKept
  <2>3. CASE p \notin Resetters
    <3>1. file \subseteq file' /\ (p \in Spawners \/ p \in file')
      BY <2>1, <2>3 DEF Transition
    <3>2. QED
      BY <2>1, <3>1 DEF EventsKept
  <2>4. QED
    BY <2>2, <2>3
<1>2. CASE UNCHANGED << file, committed >>
  BY <1>2 DEF EventsKept
<1>3. QED
  BY <1>1, <1>2
     DEF Next, Step, AllStopped, vars, answers, Look, TakeGuard, GuardTimeout, CreateMarker,
         StatMarker, RemoveStale, Load, WriteError, UnlinkMarker, Unlock, Kill, Expire, Age

\* In a turn whose ledger file exists no committed event and no granted spawn is lost to
\* the write of another hook.
THEOREM StoreNoLostUpdate == ExistingLedger /\ Spec => []NoLostUpdate
<1>1. ExistingLedger /\ Init => StoreInv /\ ReadIsCurrent /\ GrantsCounted /\ EventsKept
  BY StoreInitInv, ReadInit, GrantsInit DEF Init, EventsKept
<1>2. StoreInv /\ ReadIsCurrent /\ GrantsCounted /\ EventsKept /\ [Next]_vars
        => (StoreInv /\ ReadIsCurrent /\ GrantsCounted /\ EventsKept)'
  BY StoreStepInv, ReadStep, GrantsStep, EventsStep
<1>3. GrantsCounted /\ EventsKept => NoLostUpdate
  BY DEF GrantsCounted, EventsKept, NoLostUpdate
<1>4. QED
  BY <1>1, <1>2, <1>3, PTL DEF Spec
=============================================================================
