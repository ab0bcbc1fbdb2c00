CONSTANTS
    Configs <- MCConfigs
    Answers <- MCAnswers
SPECIFICATION Spec
INVARIANTS
    TypeOK
    TidyHeaders
    EveryLineKept
    MembersAreLast
PROPERTIES
    EndsInSight
    Parsed
CHECK_DEADLOCK FALSE
