SPECIFICATION FairSpec
CONSTANTS
    s1 = s1
    s2 = s2
    Slots <- TwoSlots
    Tools = {"code", "docs", "verify", "read"}
    Modes = {"normal", "deep"}
    Arms = {"on", "off"}
    RetryLimit = 2
    MaxTurns = 1
    Nobody = Nobody
INVARIANTS AcceptedCodeTested ExhaustedAfterRetries
PROPERTIES RefusedOnlyUntested ImplementsContract RunEnds
