CONSTANTS
    Worlds <- RuleRuns
    BadWords <- MCBadWords
    Compiles <- MCCompiles
    SizeScores <- MCSizeScores
SPECIFICATION Spec
INVARIANT KeywordOrderFree
CHECK_DEADLOCK FALSE
