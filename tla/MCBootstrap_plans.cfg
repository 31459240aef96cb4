\* Every family on machines at and around the thresholds.
SPECIFICATION FairBootstrapSpec
CONSTANTS
    Answer <- MCAnswer
    Host <- MCHost
    NoAnswer = NoAnswer
INVARIANTS BootstrapTypeOK PlanFits PlanGrows ReportsAllPulls
PROPERTY EndsWithItsPulls
CHECK_DEADLOCK FALSE
