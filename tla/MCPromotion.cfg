SPECIFICATION Spec
CONSTANTS
    Tasks <- TwoTasks
    Outcomes <- MCOutcomes
    MaxExtra = 1
    MaxReports = 2
    Nothing = Nothing
    Torn = Torn
PROPERTIES PromotionSound PromotionUnregressed
CHECK_DEADLOCK FALSE
