CONSTANTS
    NoText = NoText
    Body <- MCBody
    Expr <- MCExpr
    Regexec <- MCRegexec
    RegexecNormal <- MCRegexecNormal
    Length <- MCLength
    Configs <- SmallSpam
    Maildrops <- BigSecond
    MaildropOctets = 9
    Phrases <- MCPhrases
    DottedLines <- MCDottedLines
    BadIdLines <- MCBadIdLines
    FatalLines <- MCFatalLines
SPECIFICATION Spec
INVARIANT MaxsizeDenyHonoured
