------------------------------ MODULE MCSession ------------------------------
(***************************************************************************)
(* Small instances of Session: mailboxes of up to three messages with up to   *)
(* three header lines, a spammer, a friend and two copies of one message.     *)
(***************************************************************************)
EXTENDS Session

Line(t, b) == [tag |-> t, body |-> b]
MCBody  == {"spam", "friend", "hello", "dot", "bad", "from", "id1"}
MCExpr  == {"spam", "friend"}
MCEntry == [tag : {"Message-Id", "Subject", "SUBJECT", "other"}, body : MCBody]
MCRegexec == {<<e, l>> \in MCExpr \X MCEntry : e = l.body}
MCRegexecNormal == {}
MCLength == [l \in MCEntry |-> 4]

Hello    == Line("other", "hello")
Spam     == Line("other", "spam")
Friend   == Line("other", "friend")
Id       == Line("Message-Id", "id1")
DotLine  == Line("Subject", "dot")
BadLine  == Line("Message-Id", "bad")
FromLine == Line("other", "from")

MCDottedLines == {DotLine}
MCBadIdLines == {BadLine}
MCFatalLines == {FromLine}

\* "+OK 2 messages in maildrop 8".
MCPhrases == {[second |-> 2, last |-> 8]}

----------------------------------------------------------------------------
\* Preferences: deny spam; the same with ALLOW, DEL_DUPLICATES or a size limit.
Is(e)  == [expr |-> e, negative |-> FALSE]
Not(e) == [expr |-> e, negative |-> TRUE]

DenySpam ==
    [allows |-> <<>>, denies |-> <<Is("spam")>>, scores |-> <<>>,
     high_score |-> 100, max_size_friends |-> 0, max_size |-> 0,
     size_score |-> [score |-> 0, size |-> 0], max_line_length |-> 0,
     norm |-> FALSE, del_duplicates |-> FALSE]
Duplicates == [DenySpam EXCEPT !.del_duplicates = TRUE, !.allows = <<Is("friend")>>]
SmallOnly  == [DenySpam EXCEPT !.max_size = 5]

User(p) ==
    [prefs |-> p, test_mode |-> FALSE, return_status |-> FALSE,
     apop |-> FALSE, ssl |-> FALSE, stamp |-> FALSE, faults |-> {}]
Apop(p) == [User(p) EXCEPT !.apop = TRUE, !.stamp = TRUE]

AllUsers ==
    {User(DenySpam), [User(DenySpam) EXCEPT !.return_status = TRUE],
     [User(DenySpam) EXCEPT !.test_mode = TRUE], [Apop(DenySpam) EXCEPT !.ssl = TRUE],
     [Apop(DenySpam) EXCEPT !.stamp = FALSE],
     [User(Duplicates) EXCEPT !.ssl = TRUE], User(SmallOnly)}
NoSizeUsers ==
    {User(DenySpam), [User(Duplicates) EXCEPT !.ssl = TRUE], [Apop(DenySpam) EXCEPT !.return_status = TRUE],
     [User(DenySpam) EXCEPT !.test_mode = TRUE]}

\* What may go wrong: everything; a network that fails while the server is honest;
\* everything but text that looks like the end of a header.  Numbers in free texts are left
\* out where no rule looks at a size.
With(users, faults) == {[u EXCEPT !.faults = faults] : u \in users}
Network == {"connect", "close", "abort", "timeout", "dots", "numbers", "reset"}

Wordy == Fault \ {"numbers"}
Situations == With(AllUsers, Wordy) \union With({User(SmallOnly)}, Fault)
                  \union With(AllUsers, Network)
                  \union With(NoSizeUsers, Wordy \ {"dots"})
ServedSituations == With(AllUsers, {"connect", "timeout", "split", "dots", "sslempty", "sigint"})
                        \union With({User(SmallOnly)}, {"numbers", "timeout", "dots", "sigint"})

SmallSpam  == {User(SmallOnly)}
Broken     == With({User(DenySpam)}, {"abort"})

----------------------------------------------------------------------------
Message(es, n) == [entries |-> es, size |-> n]

Spammy == Message(<<Hello, Spam>>, 3)
Copy   == Message(<<Id, Hello>>, 4)
Pal    == Message(<<Id, Friend>>, 7)
Late   == Message(<<DotLine, Friend>>, 2)
Bad    == Message(<<Hello, BadLine>>, 1)
From   == Message(<<FromLine>>, 1)

PlainMailboxes == {<<>>, <<Spammy, Copy>>, <<Copy, Pal, Spammy>>}
OddMailboxes == PlainMailboxes \union {<<Late, Spammy>>, <<Spammy, Bad>>, <<Spammy, From>>}
BigSecond == {<<Spammy, Pal>>}
=============================================================================
