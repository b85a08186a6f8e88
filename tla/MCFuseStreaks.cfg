SPECIFICATION Spec
CONSTANTS
    a1 = a1
    a2 = a2
    a3 = a3
    a4 = a4
    a5 = a5
    Agents <- NoAgents
    Fingerprints <- MCFingerprints
    EditTools <- MCEditTools
    Calls <- ReadsAndEdit
    Slots = {s1, s2}
    Environment = {"secret", "lost_result"}
    OverflowMark = OverflowMark
    Absent = Absent
    NoCall = NoCall
    NoAgent = NoAgent
    MaxActions = 2
    MaxVerifierResults = 2
    MaxReplayStreak = 3
    MaxConcurrentAgents = 2
    MaxTotalAgents = 3
    ElapsedWarning = 1
    MaxEdits = 1
    MaxUnheard = 1
    MaxClock = 2
INVARIANTS StreakBound ThirdReplayWarned BlocksOnlyRepeatedAction
