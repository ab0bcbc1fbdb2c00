CONSTANTS
    NoText = NoText
    Body <- MCBody
    Expr <- MCExpr
    Regexec <- MCRegexec
    RegexecNormal <- MCRegexecNormal
    Length <- MCLength
    Configs <- OneCountedConfigs
    Maildrops <- MCAccountMail
    MaildropOctets = 9
    Phrases <- MCPhrases
    DottedLines <- MCDottedLines
    BadIdLines <- MCBadIdLines
    FatalLines <- MCFatalLines
    Accounts <- OneCounted
SPECIFICATION MainSpec
INVARIANT ReturnValueCounts
