CONSTANTS
    NoText = NoText
    Body <- MCBody
    Expr <- MCExpr
    Regexec <- MCRegexec
    RegexecNormal <- MCRegexecNormal
    Length <- MCLength
    Configs <- ServedSituations
    Maildrops <- OddMailboxes
    MaildropOctets = 9
    Phrases <- MCPhrases
    DottedLines <- MCDottedLines
    BadIdLines <- MCBadIdLines
    FatalLines <- MCFatalLines
SPECIFICATION FairSpec
PROPERTY EventuallyPurged
