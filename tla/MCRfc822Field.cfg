CONSTANTS
    Configs <- MCConfigs
    Answers <- FewAnswers
SPECIFICATION Spec
INVARIANT SubjectReachesRules
CHECK_DEADLOCK FALSE
