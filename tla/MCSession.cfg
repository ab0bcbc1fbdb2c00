CONSTANTS
    NoText = NoText
    Body <- MCBody
    Expr <- MCExpr
    Regexec <- MCRegexec
    RegexecNormal <- MCRegexecNormal
    Length <- MCLength
    Configs <- Situations
    Maildrops <- OddMailboxes
    MaildropOctets = 9
    Phrases <- MCPhrases
    DottedLines <- MCDottedLines
    BadIdLines <- MCBadIdLines
    FatalLines <- MCFatalLines
SPECIFICATION Spec
INVARIANTS
    TypeOK
    
    OnlyCondemnedLost
    NothingLostBeforeQuit
    
    AllOrNothing
    ScanIsComplete
    
PROPERTY PurgeSpec
