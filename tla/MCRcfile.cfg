CONSTANTS
    Worlds <- MCWorlds
    BadWords <- MCBadWords
    Compiles <- MCCompiles
    SizeScores <- MCSizeScores
SPECIFICATION Spec
INVARIANTS
    TypeOK
    RulesAsWritten
    SettingsAsWritten
    WholeBlocksKept
    TrueReport
    CheckedWhenReady
PROPERTIES
    DecisionInSight
    Decided
CHECK_DEADLOCK FALSE
