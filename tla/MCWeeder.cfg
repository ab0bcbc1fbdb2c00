CONSTANTS
    NoText = NoText
    Body <- MCBody
    Expr <- MCExpr
    Regexec <- MCRegexec
    RegexecNormal <- MCRegexecNormal
    Length <- MCLength
    PrefsSet <- MCPrefsSet
    Headers <- MCHeaders
    MaxExamined = 3
SPECIFICATION Spec
INVARIANTS
    TypeOK
    OneCopyKept
    LossIsJustified
    FriendsSurvive
CHECK_DEADLOCK FALSE
