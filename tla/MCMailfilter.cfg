CONSTANTS
    NoText = NoText
    Body <- MCBody
    Expr <- MCExpr
    Regexec <- MCRegexec
    RegexecNormal <- MCRegexecNormal
    Length <- MCLength
    Configs <- MCAccountConfigs
    Maildrops <- MCAccountMail
    MaildropOctets = 9
    Phrases <- MCPhrases
    DottedLines <- MCDottedLines
    BadIdLines <- MCBadIdLines
    FatalLines <- MCFatalLines
    Accounts <- MCAccounts
SPECIFICATION MainSpec
INVARIANTS
    MainTypeOK
    CopySurvives
    OneCopyLeft
    ZeroIsSuccess
PROPERTY RunPurges
