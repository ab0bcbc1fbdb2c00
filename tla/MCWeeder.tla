------------------------------ MODULE MCWeeder ------------------------------
(***************************************************************************)
(* A small instance of Weeder: two spellings of a subject, two message IDs,  *)
(* a friend, a spammer and an overlong line; preferences that turn every     *)
(* rule on, alone and together.                                              *)
(***************************************************************************)
EXTENDS Weeder

MCBody == {"spam", "friend", "v-i-a-g-r-a", "long", "id1", "id2"}
MCExpr == {"spam", "friend", "viagra"}

Line(t, b) == [tag |-> t, body |-> b]

MCEntry == [tag : {"Message-Id", "Subject", "SUBJECT", "other"}, body : MCBody]
MCRegexec == {<<e, l>> \in MCExpr \X MCEntry : e = l.body}
MCRegexecNormal == {<<"viagra", "v-i-a-g-r-a">>, <<"spam", "spam">>}
MCLength == [l \in MCEntry |-> IF l.body = "long" THEN 9 ELSE 4]

Is(e)  == [expr |-> e, negative |-> FALSE]
Not(e) == [expr |-> e, negative |-> TRUE]
Points(f, n) == [expr |-> f.expr, negative |-> f.negative, score |-> n]

Plain ==
    [allows |-> <<>>, denies |-> <<>>, scores |-> <<>>, high_score |-> 100,
     max_size_friends |-> 0, max_size |-> 0,
     size_score |-> [score |-> 0, size |-> 0], max_line_length |-> 0,
     norm |-> FALSE, del_duplicates |-> FALSE]

Rules ==
    [Plain EXCEPT !.allows = <<Is("friend")>>, !.denies = <<Is("spam"), Is("viagra")>>,
                  !.max_size_friends = 5, !.max_size = 3, !.max_line_length = 8]

Scores ==
    [Plain EXCEPT !.scores = <<Points(Is("spam"), 60), Points(Not("friend"), 50)>>,
                  !.size_score = [score |-> -10, size |-> 3], !.norm = TRUE]

MCPrefsSet ==
    LET Base == {Rules, [Rules EXCEPT !.norm = TRUE], Scores,
                 [Plain EXCEPT !.denies = <<Not("viagra")>>, !.norm = TRUE],
                 [Plain EXCEPT !.allows = <<Not("spam")>>, !.max_size_friends = 3,
                               !.max_size = 3]}
    IN  UNION {{p, [p EXCEPT !.del_duplicates = TRUE]} : p \in Base}

Mail(es, n) == [entries |-> es, size |-> n]

MCHeaders ==
    {Mail(<<>>, 1),
     Mail(<<Line("other", "spam")>>, 1),
     Mail(<<Line("Message-Id", "id1"), Line("other", "friend"), Line("other", "spam")>>, 4),
     Mail(<<Line("Message-Id", "id1"), Line("other", "spam")>>, 4),
     Mail(<<Line("Message-Id", "id1"), Line("Subject", "v-i-a-g-r-a")>>, 1),
     Mail(<<Line("Message-Id", "id2"), Line("SUBJECT", "v-i-a-g-r-a")>>, 1),
     Mail(<<Line("Message-Id", "id2"), Line("other", "friend"), Line("other", "long")>>, 6),
     Mail(<<Line("other", "friend"), Line("other", "long")>>, 1)}
=============================================================================
