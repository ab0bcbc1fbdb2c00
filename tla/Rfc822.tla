-------------------------------- MODULE Rfc822 --------------------------------
(***************************************************************************)
(* The scanner rfc822.ll and the parser rfc822.yy, run by                      *)
(* POP3::invoke_msg_parser on the answer to TOP without its first line.        *)
(*                                                                         *)
(* The answer is a sequence of lines, the last of them the final dot:          *)
(*   "field"  Tag: text          "empty"  Tag: and nothing behind it           *)
(*   "cont"   white space, text  "blank"  nothing                             *)
(*   "from"   From, a space, text, as mbox files begin a message               *)
(*   "junk"   anything else      "dot"    the end of the answer                *)
(* Every line ends in "\r\n" and c_read (true) ends with the dot.             *)
(***************************************************************************)
EXTENDS Header, Measures

CONSTANT Answers      \* the lines [kind, tag, text] that a server may return

Kind == {"field", "empty", "cont", "blank", "from", "junk", "dot"}

ASSUME AnswersAssumption ==
    \A h \in Answers :
        /\ h \in Seq([kind : Kind, tag : Tag, text : Seq(Char)]) /\ h # <<>>
        /\ \A p \in DOMAIN h :
              /\ h[p].kind = "dot" <=> p = Len(h)
              /\ h[p].kind \in {"field", "cont"} => h[p].text # <<>> /\ h[p].text[1] \notin {" ", "t"}

VARIABLES
    header,      \* what is being scanned
    pos,         \* the next line
    start,       \* start condition: "INITIAL" or "BODY_READY"
    newline,     \* the "\r\n" before the next line has not been matched yet
    field        \* TAG bodies: what the parser has on its stack

scanVars == <<header, pos, start, newline, field>>
vars == <<headerVars, scanVars>>

NoField == [tag |-> "none", body |-> <<>>, lines |-> <<>>]

Init ==
    /\ HeaderInit
    /\ header \in Answers
    /\ pos = 1 /\ start = "INITIAL" /\ newline = FALSE /\ field = NoField
----------------------------------------------------------------------------
Scanning == result = "none" /\ ~normalising
Ahead == pos <= Len(header)
Line == header[pos]
At(kinds) == Scanning /\ start = "INITIAL" /\ Ahead /\ Line.kind \in kinds

\* "\r\n.\r\n", the end of the header for the scanner, begins here.
AtHeaderEnd ==
    /\ At({"blank", "dot"})
    /\ Line.kind = "blank" => header[pos + 1].kind = "dot"
    /\ Line.kind = "dot" => newline

\* A line that begins with white space, the blank line included.
AtContinuation == At({"cont", "blank"}) /\ ~AtHeaderEnd

Advance(n, nl) == pos' = pos + n /\ newline' = nl /\ UNCHANGED header
Parser(f) == field' = f /\ UNCHANGED headerVars

\* exit (-1) in rfcerror.
rfcerror ==
    /\ result' = "exit"
    /\ UNCHANGED <<cfg, entries, members, normal_subject, ssubject, i, normalising, scanVars>>

\* The parser adds a field when the next token is no BODY.
Reduce ==
    /\ Scanning /\ start = "INITIAL" /\ field # NoField
    /\ ~Ahead \/ At({"field", "empty", "from"}) \/ AtHeaderEnd
    /\ add_entry(field.tag, field.body, field.lines)
    /\ field' = NoField
    /\ UNCHANGED <<header, pos, start, newline>>

\* TAG and its BODY, without the "\r\n".
TagAndBody ==
    /\ At({"field"}) /\ field = NoField
    /\ Parser([tag |-> Line.tag, body |-> Line.text, lines |-> <<pos>>])
    /\ Advance(1, FALSE)
    /\ UNCHANGED start

\* TAG[[:space:]]* goes on over the end of the line.
TagAlone ==
    /\ At({"empty"}) /\ field = NoField
    /\ Parser([tag |-> Line.tag, body |-> <<>>, lines |-> <<pos>>])
    /\ start' = "BODY_READY"
    /\ Advance(1, FALSE)

\* Blank lines and leading white space belong to the tag, whatever comes then is the
\* body: a continuation, the next field, even the final dot.
Raw ==
    CASE Line.kind = "field" -> <<"a", ".">> \o Line.text
      [] Line.kind = "empty" -> <<"a", ".">>
      [] Line.kind = "from" -> <<"a", " ">> \o Line.text
      [] Line.kind = "dot" -> <<".">>
      [] OTHER -> Line.text

TagGoesOn ==
    /\ Scanning /\ start = "BODY_READY" /\ Line.kind = "blank"
    /\ Advance(1, FALSE)
    /\ UNCHANGED <<headerVars, start, field>>

BodyFromNextLine ==
    /\ Scanning /\ start = "BODY_READY" /\ Line.kind # "blank"
    /\ Parser([field EXCEPT !.body = Raw, !.lines = Append(@, pos)])
    /\ start' = "INITIAL"
    /\ Advance(1, FALSE)

\* In a continued line white space is turned into blanks, its "\r" too.
Blanks(text) == [k \in DOMAIN text |-> IF text[k] = "t" THEN " " ELSE text[k]]

\* Mutant of Folded: nothing stands between the text of a line and that of the next.
FoldedFlush == Blanks(Line.text)

Folded == IF Line.kind = "blank" THEN <<" ">> ELSE <<" ">> \o Blanks(Line.text) \o <<" ">>

\* Mutant: the BODY replaces the ones before it.
ContinueAnew ==
    /\ AtContinuation /\ field # NoField
    /\ Parser([field EXCEPT !.body = Folded, !.lines = <<pos>>])
    /\ Advance(1, FALSE)
    /\ UNCHANGED start

Continue ==
    /\ AtContinuation /\ field # NoField
    /\ Parser([field EXCEPT !.body = @ \o Folded, !.lines = Append(@, pos)])
    /\ Advance(1, FALSE)
    /\ UNCHANGED start

\* A BODY without a TAG, or a TOPLINE, which the grammar does not know.
SyntaxError ==
    /\ field = NoField
    /\ AtContinuation \/ At({"from"})
    /\ rfcerror

\* Characters no pattern matches are echoed and skipped; what precedes them stays
\* open for a continuation.
SkipJunk ==
    /\ At({"junk", "dot"}) /\ ~AtHeaderEnd
    /\ Advance(1, TRUE)
    /\ UNCHANGED <<headerVars, start, field>>

HeaderEnd ==
    /\ AtHeaderEnd /\ field = NoField
    /\ Advance(IF Line.kind = "blank" THEN 2 ELSE 1, FALSE)
    /\ UNCHANGED <<headerVars, start, field>>

\* The end of the input: rfcparse returns 0.
EndOfInput ==
    /\ Scanning /\ ~Ahead /\ field = NoField
    /\ result' = "ok"
    /\ UNCHANGED <<cfg, entries, members, normal_subject, ssubject, i, normalising, scanVars>>

Scan ==
    \/ Reduce \/ TagAndBody \/ TagAlone \/ TagGoesOn \/ BodyFromNextLine \/ Continue
    \/ SyntaxError \/ SkipJunk \/ HeaderEnd \/ EndOfInput

Next == Scan \/ (Normalise /\ UNCHANGED scanVars)

Spec == Init /\ [][Next]_vars /\ WF_vars(Next)
----------------------------------------------------------------------------
TypeOK ==
    /\ HeaderTypeOK
    /\ Last(header).kind = "dot"
    /\ pos \in 1..Len(header) + 1
    /\ start \in {"INITIAL", "BODY_READY"} /\ newline \in BOOLEAN
    /\ start = "BODY_READY" => Ahead /\ field # NoField
    /\ field \in {NoField} \union [tag : Tag, body : Seq(Char), lines : Seq(Nat)]

\* A header as RFC 822 wants it, that begins with a field, and whose last line before
\* the dot is the blank one.
Tidy ==
    /\ Len(header) > 2
    /\ \A p \in 1..Len(header) - 2 :
          /\ header[p].kind \in {"field", "empty", "cont"}
          /\ p = 1 => header[p].kind # "cont"
          /\ header[p].kind = "empty" => header[p + 1].kind = "cont"
    /\ header[Len(header) - 1].kind = "blank"

\* RFC 822 (3.1.1) unfolds a field by taking the end of a line for the white space that
\* follows it.  So the body b holds the texts of the lines from p to q of h, in their
\* order and apart from each other, at[r] being the place before that of line r; one
\* white character is as good as another, and nothing else is in the body.
BodyText(h, r) == IF h[r].kind = "empty" THEN <<>> ELSE h[r].text
Alike(c, d) == c = d \/ (Space(c) /\ Space(d))
Apart(h, r, m, n) == IF BodyText(h, r) = <<>> THEN m <= n ELSE m + Len(BodyText(h, r)) < n

Holds(h, p, q, b, at) ==
    /\ \A r \in p..q :
          /\ at[r] + Len(BodyText(h, r)) <= Len(b)
          /\ \A k \in DOMAIN BodyText(h, r) : Alike(b[at[r] + k], BodyText(h, r)[k])
          /\ r < q => Apart(h, r, at[r], at[r + 1])
    /\ \A j \in DOMAIN b :
          Space(b[j]) \/ \E r \in p..q : j \in at[r] + 1..at[r] + Len(BodyText(h, r))
Unfolds(h, p, q, b) == \E at \in [p..q -> 0..Len(b)] : Holds(h, p, q, b, at)

\* The fields of h, and the lines of each of them, from p to q.
FieldLines(h) == {p \in DOMAIN h : h[p].kind \in {"field", "empty"}}
Spans(h, p, q) ==
    p <= q /\ (\A r \in p + 1..q : h[r].kind = "cont") /\ h[q + 1].kind # "cont"
IsUnfolded(h, es) ==
    /\ Len(es) = Cardinality(FieldLines(h))
    /\ \A p \in FieldLines(h) : \E q \in 1..Len(h) - 1 :
          LET e == es[Cardinality({l \in FieldLines(h) : l <= p})]
          IN  Spans(h, p, q) /\ e.tag = h[p].tag /\ Unfolds(h, p, q, e.body)

\* A tidy header never makes the program exit, the rules see its fields unfolded and
\* in order, and the scan fails only at a Message-ID that is refused.
TidyHeaders ==
    Tidy =>
        /\ result # "exit"
        /\ result = "failed" => Refused(Last(entries).tag, Last(entries).body)
        /\ result = "ok" => IsUnfolded(header, entries)

\* Every step of the scan and of the loop brings the end nearer, whatever the header: lines
\* are left behind, then the field on the parser's stack, then characters of the subject.
Remaining ==
    <<IF result = "none" THEN 1 ELSE 0, Len(header) + 1 - pos, IF field = NoField THEN 0 ELSE 1,
      IF normalising THEN 1 ELSE 0, 2 * Len(ssubject) - i>>
EndsInSight == [][Nearer(Remaining', Remaining)]_vars

\* Of any header that is parsed, tidy or not, no line is used twice or out of order,
\* and none with a field, a continuation or a From line is lost to the rules.
Ordered(es) ==
    \A k, l \in DOMAIN es : \A m \in DOMAIN es[k].lines, n \in DOMAIN es[l].lines :
        k < l \/ (k = l /\ m < n) => es[k].lines[m] < es[l].lines[n]
Covers(es, places) ==
    \A p \in places :
        header[p].kind \in {"field", "empty", "cont", "from"} =>
            \E k \in DOMAIN es : p \in ToSet(es[k].lines)
EveryLineKept == result = "ok" => Ordered(entries) /\ Covers(entries, DOMAIN header)

\* msg_ID, msg_subject and the others are those of the last such field, which is what
\* the weeder takes for the message's (WeedRules!LastBody); and the loop that erases
\* characters from the subject while it walks over it leaves the normal form of that one.
MembersAreLast ==
    result = "ok" =>
        /\ \A t \in Member : members[t] = LastOf(t)
        /\ cfg.normal => IsNormalForm(normal_subject, LastOf("Subject"))

\* Every header is parsed in the end, one way or the other.
Parsed == <>(result # "none")

\* doc/FAQ: with DENY = "^Subject:.*Viagra" every e-mail with this in its subject is
\* deleted.  But behind a field with nothing in it, say "To:", the line of the subject
\* is the body of that field, and no rule sees a Subject.
SubjectReachesRules ==
    result = "ok" =>
        \A p \in DOMAIN header :
            header[p].kind = "field" /\ header[p].tag = "Subject" =>
                \E k \in DOMAIN entries :
                    entries[k].tag = "Subject" /\ p \in ToSet(entries[k].lines)
=============================================================================
