SPECIFICATION Spec
CONSTANTS
    u1 = u1
    u2 = u2
    u3 = u3
    Uses <- ThreeUses
    Sessions <- MCSessions
    AuditSlots = 2
    Absent = Absent
    MaxPrompts = 2
SYMMETRY Symmetry
CHECK_DEADLOCK FALSE
INVARIANTS OneContextPerChannel IncidentsAudited OnlyApprovedToolsRun ShortCutHarmless
PROPERTIES DebtEarned
