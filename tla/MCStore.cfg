SPECIFICATION FairSpec
CONSTANTS
    p1 = p1
    p2 = p2
    p3 = p3
    p4 = p4
    Procs <- ThreeHooks
    Spawners <- TwoSpawns
    Resetters <- OnePrompt
    Budget = 1
    Absent = Absent
    InitialFile <- EmptyLedger
    Nobody = Nobody
    MaxCrashes = 2
    MaxErrors = 1
INVARIANTS MutualExclusion MarkerStands NoLostUpdate SpawnBudget
PROPERTIES ImplementsAtomicLedger EveryHookEnds StaleMarkerRecovered
