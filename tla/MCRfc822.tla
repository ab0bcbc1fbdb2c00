------------------------------ MODULE MCRfc822 ------------------------------
(***************************************************************************)
(* Short headers of every order of lines, and subjects of every short text.   *)
(***************************************************************************)
EXTENDS Rfc822

L(kind, tag, text) == [kind |-> kind, tag |-> tag, text |-> text]
Dot == L("dot", "other", <<".">>)
Blank == L("blank", "other", <<>>)
Id == <<"<", "a", "@", "a", ">">>

Subject == L("field", "Subject", <<"a", "t", " ", "a">>)
GoodId == L("field", "Message-Id", Id)
BadId == L("field", "Message-Id", <<"<", "a", "@", "a", ">", "a">>)
NoSubject == L("empty", "Subject", <<>>)
NoId == L("empty", "Message-Id", <<>>)
More == L("cont", "other", <<"a", "t", "a">>)
MoreId == L("cont", "other", Id)
Junk == L("junk", "other", <<"a", ".">>)
From == L("from", "other", <<"a">>)
To == L("field", "To", <<"a">>)
NoTo == L("empty", "To", <<>>)

Kinds == {Subject, GoodId, BadId, NoSubject, NoId, More, MoreId, Junk, From, Blank}
Some == {Subject, NoSubject, GoodId, More, To, Blank}

Orders == UNION {BoundedSeq(Kinds, 3), {u \o v : u \in BoundedSeq(Some, 2), v \in BoundedSeq(Some, 2)}}
Subjects == BoundedSeq({"a", "@", " ", "t", "."}, 4)
OneSubject ==
    UNION {{<<L("field", "Subject", <<"a">> \o s \o <<c>>)>> : s \in Subjects, c \in {"a", " "}},
           {<<L("field", "Subject", <<".">> \o s)>> : s \in Subjects}}

Ends == {<<Blank, Dot>>, <<Dot>>}
Ended(S) == {h \o e : h \in S, e \in Ends}

MCConfigs == {[normal |-> TRUE, ignore_time_stamp |-> FALSE],
              [normal |-> FALSE, ignore_time_stamp |-> TRUE]}
MCAnswers == UNION {Ended(Orders), Ended(OneSubject)}
FewAnswers == Ended(BoundedSeq({NoTo, Subject, GoodId, More, To, Blank}, 2))
=============================================================================
