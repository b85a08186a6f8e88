SPECIFICATION Spec
CONSTANTS
    a1 = a1
    a2 = a2
    a3 = a3
    a4 = a4
    a5 = a5
    Agents <- FiveAgents
    Fingerprints <- MCFingerprints
    EditTools <- MCEditTools
    Calls <- Spawns
    Slots = {s1, s2}
    Environment = {"lost_start", "lost_stop", "lost_result"}
    OverflowMark = OverflowMark
    Absent = Absent
    NoCall = NoCall
    NoAgent = NoAgent
    MaxActions = 3
    MaxVerifierResults = 2
    MaxReplayStreak = 3
    MaxConcurrentAgents = 2
    MaxTotalAgents = 3
    ElapsedWarning = 1
    MaxEdits = 2
    MaxUnheard = 1
    MaxClock = 1
SYMMETRY Symmetry
INVARIANTS TotalAgentBudget ConcurrentAgentBudget
