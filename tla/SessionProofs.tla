--------------------------- MODULE SessionProofs ----------------------------
(***************************************************************************)
(* The invariant of SessionInvariant is inductive, and four theorems about    *)
(* Session that follow from it.  In order: what the server's answers look     *)
(* like, what reading, sending and cutting do to a stream of them, and what   *)
(* POP3::scan finds when it has read a header; the actions of the client;     *)
(* those of the server and of the network.                                    *)
(***************************************************************************)
EXTENDS SessionInvariant, WeedRulesProofs, FiniteSetTheorems

\* What the client has read: a prefix of what was sent.
LEMMA PrefixFacts ==
    ASSUME NEW S, NEW s \in Seq(S), NEW k \in 0..Len(s)
    PROVE  /\ SubSeq(s, 1, k) \in Seq(S)
           /\ Len(SubSeq(s, 1, k)) = k
           /\ \A i \in 1..k : SubSeq(s, 1, k)[i] = s[i]
<1>1. \A i \in 1..k : s[i] \in S
  BY ElementOfSeq
<1>2. Len(s) \in Nat /\ k \in Int /\ 1 \in Int
  OBVIOUS
<1> QED BY <1>1, <1>2, SubSeqProperties

\* What it leaves: the rest.
LEMMA SuffixFacts ==
    ASSUME NEW S, NEW s \in Seq(S), NEW k \in 0..Len(s)
    PROVE  /\ SubSeq(s, k + 1, Len(s)) \in Seq(S)
           /\ Len(SubSeq(s, k + 1, Len(s))) = Len(s) - k
           /\ \A i \in 1..(Len(s) - k) : SubSeq(s, k + 1, Len(s))[i] = s[k + i]
<1>1. \A i \in (k + 1)..Len(s) : s[i] \in S
  BY ElementOfSeq
<1>2. Len(s) \in Nat /\ k \in Int /\ k + 1 \in Int
  OBVIOUS
<1>3. /\ SubSeq(s, k + 1, Len(s)) \in Seq(S)
      /\ Len(SubSeq(s, k + 1, Len(s))) = IF k + 1 <= Len(s) THEN Len(s) - (k + 1) + 1 ELSE 0
      /\ \A i \in 1..(Len(s) - (k + 1) + 1) : SubSeq(s, k + 1, Len(s))[i] = s[(k + 1) + i - 1]
  BY <1>1, <1>2, SubSeqProperties
<1> QED BY <1>2, <1>3

\* A status line, whole or in pieces, is made of segments.
LEMMA StatusType ==
    ASSUME NEW ok \in BOOLEAN, NEW n \in Nat, NEW m \in Nat, NEW d \in BOOLEAN
    PROVE  /\ Status(ok, n, m, d) \in Segment
           /\ FrontOf(Status(ok, n, m, d)) \in Segment
           /\ BackOf(Status(ok, n, m, d)) \in Segment
BY DEF Status, FrontOf, BackOf, Segment

\* What a status line looks like on its way: s is whole or in two pieces, of which
\* only the first can start with '+' and only the last can end in ".".
IsReply(s, ok, n, d) ==
    /\ s \in Seq(Segment)
    /\ Len(s) \in {1, 2}
    /\ s[1].ok = ok
    /\ \A k \in 1..Len(s) : /\ s[k].kind # "line"
                            /\ s[k].second \in Nat /\ s[k].second <= n
                            /\ k > 1 => ~Starts(s[k])
                            /\ k = Len(s) => s[k].kind # "front"
                            /\ s[k].dot => d /\ k = Len(s)

\* Texts of the server and what is in them.
LEMMA TextsFacts ==
    ASSUME NEW t \in Texts
    PROVE  t.second \in Nat /\ t.last \in Nat
BY SessionAssumption DEF Texts

\* Every way a status line may travel is a reply in the sense of IsReply.
LEMMA CutsFacts ==
    ASSUME NEW ok \in BOOLEAN, NEW n \in Nat, NEW m \in Nat, NEW d \in BOOLEAN,
           NEW s \in Cuts(Status(ok, n, m, d))
    PROVE  IsReply(s, ok, n, d)
<1> DEFINE t == Status(ok, n, m, d)
<1>1. s = <<t>> \/ s = <<FrontOf(t), BackOf(t)>>
  BY DEF Cuts
<1>2. t.kind = "status" /\ t.ok = ok /\ t.second = n /\ t.dot = d
  BY DEF Status
<1>3. /\ FrontOf(t).kind = "front" /\ FrontOf(t).ok = ok
      /\ FrontOf(t).second = 0 /\ FrontOf(t).dot = FALSE
  BY DEF FrontOf, Status
<1>4. BackOf(t).kind = "back" /\ BackOf(t).ok = FALSE /\ BackOf(t).second = n /\ BackOf(t).dot = d
  BY DEF BackOf, Status
<1>5. t \in Segment /\ FrontOf(t) \in Segment /\ BackOf(t) \in Segment
  BY StatusType
<1> HIDE DEF t
<1>6. CASE s = <<t>>
  BY <1>2, <1>5, <1>6 DEF IsReply
<1>7. CASE s = <<FrontOf(t), BackOf(t)>>
  <2>1. s \in Seq(Segment) /\ Len(s) = 2 /\ s[1] = FrontOf(t) /\ s[2] = BackOf(t)
    BY <1>5, <1>7
  <2>2. \A k \in 1..2 : k = 1 \/ k = 2
    OBVIOUS
  <2> QED BY <1>3, <1>4, <2>1, <2>2 DEF IsReply, Starts
<1> QED BY <1>1, <1>6, <1>7

----------------------------------------------------------------------------
\* The numbers of the messages a server has are at most Len(drop).
LEMMA LeftFacts ==
    ASSUME TypeOK
    PROVE  /\ Left \subseteq All /\ All = 1..Len(drop) /\ Len(drop) \in Nat
           /\ Cardinality(Left) \in Nat /\ Cardinality(Left) <= Len(drop)
<1>1. drop \in Seq(Header) BY SessionAssumption DEF TypeOK
<1>2. Left \subseteq All /\ All = 1..Len(drop) /\ Len(drop) \in Nat
  BY <1>1 DEF Left, All, TypeOK
<1>3. IsFiniteSet(1..Len(drop)) /\ Cardinality(1..Len(drop)) = Len(drop)
  <2>1. 1 \in Int /\ Len(drop) \in Int BY <1>2
  <2>2. Cardinality(1..Len(drop)) = IF 1 > Len(drop) THEN 0 ELSE Len(drop) - 1 + 1
    BY <2>1, FS_Interval
  <2>3. IsFiniteSet(1..Len(drop)) BY <2>1, FS_Interval
  <2>4. Cardinality(1..Len(drop)) = Len(drop)
    <3>1. CASE Len(drop) = 0 BY <2>2, <3>1
    <3>2. CASE Len(drop) # 0 BY <1>2, <2>2, <3>2
    <3> QED BY <3>1, <3>2
  <2> QED BY <2>3, <2>4
<1>4. IsFiniteSet(Left) /\ Cardinality(Left) <= Len(drop)
  BY <1>2, <1>3, FS_Subset
<1>5. Cardinality(Left) \in Nat BY <1>4, FS_CardinalityType
<1> QED BY <1>2, <1>4, <1>5

\* A status line with a text of the server's.
LEMMA FreeFacts ==
    ASSUME NEW ok \in BOOLEAN, NEW D \in SUBSET BOOLEAN, NEW s \in Free(ok, D)
    PROVE  \E n \in Nat, d \in D : IsReply(s, ok, n, d)
<1>1. PICK t \in Texts, d \in D : s \in Cuts(Status(ok, t.second, t.last, d))
  BY DEF Free
<1>2. t.second \in Nat /\ t.last \in Nat /\ d \in BOOLEAN BY TextsFacts
<1>3. IsReply(s, ok, t.second, d) BY <1>1, <1>2, CutsFacts
<1> QED BY <1>2, <1>3

\* A refusal is a reply that is not positive.
LEMMA RefusalFacts ==
    ASSUME TypeOK, NEW s \in Refusals
    PROVE  \E n \in Nat, d \in BOOLEAN : IsReply(s, FALSE, n, d)
<1>1. s \in Free(FALSE, BOOLEAN) /\ FALSE \in BOOLEAN /\ BOOLEAN \in SUBSET BOOLEAN BY DEF Refusals
<1> QED BY <1>1, FreeFacts

\* The lines of a header in the mailbox are segments.
LEMMA HeaderLineType ==
    ASSUME TypeOK, NEW m \in All, NEW k \in DOMAIN drop[m].entries
    PROVE  HeaderLine(m, k) \in Segment
<1>1. drop \in Seq(Header) /\ All = 1..Len(drop)
  BY LeftFacts, SessionAssumption DEF TypeOK
<1>2. drop[m] \in Header BY <1>1
<1>3. k \in Nat BY <1>2 DEF Header
<1>4. m \in Nat BY <1>1
<1> QED BY <1>3, <1>4 DEF HeaderLine, Segment

\* The answer to a command other than TOP; the one to STAT counts no more messages than
\* there are.
LEMMA ReplyFacts ==
    ASSUME TypeOK, NEW c \in Command, Granted(c), c.verb # "TOP", NEW s \in Answers(c)
    PROVE  \E n \in Nat, d \in BOOLEAN : /\ IsReply(s, TRUE, n, d)
                                       /\ (c.verb = "STAT" => n <= Len(drop))
                                       /\ (c.verb \in {"STAT", "LIST"} => ~d)
<1>2. CASE c.verb = "STAT"
  <2>1. s \in Cuts(Status(TRUE, Cardinality(Left), MaildropOctets, FALSE))
    BY <1>2 DEF Answers
  <2>2. IsReply(s, TRUE, Cardinality(Left), FALSE)
    BY <2>1, LeftFacts, CutsFacts, SessionAssumption
  <2> QED BY <1>2, <2>2, LeftFacts
<1>3. CASE c.verb = "LIST"
  <2>1. s \in Cuts(Status(TRUE, c.no, drop[c.no].size, FALSE))
    BY <1>3 DEF Answers
  <2>2. c.no \in Left BY <1>3 DEF Granted
  <2>3. drop \in Seq(Header) BY SessionAssumption DEF TypeOK
  <2>4. c.no \in Nat /\ drop[c.no].size \in Nat
    <3>1. c.no \in 1..Len(drop) BY <2>2, LeftFacts
    <3>2. drop[c.no] \in Header BY <2>3, <3>1, ElementOfSeq, Zenon
    <3> QED BY <3>1, <3>2 DEF Header
  <2>5. IsReply(s, TRUE, c.no, FALSE)
    BY <2>1, <2>4, CutsFacts
  <2> QED BY <1>3, <2>4, <2>5
<1>4. CASE c.verb \notin {"STAT", "LIST", "TOP"}
  <2>1. s \in Free(TRUE, Dot) BY <1>4 DEF Answers
  <2>2. Dot \in SUBSET BOOLEAN BY DEF Dot
  <2>3. \E n \in Nat, d \in Dot : IsReply(s, TRUE, n, d) BY <2>1, <2>2, FreeFacts
  <2> QED BY <1>4, <2>2, <2>3
<1> QED BY <1>2, <1>3, <1>4

\* The answer to TOP: the status line, the lines of the header, the final dot.
IsHeader(s, m) ==
    \E o \in {1, 2} :
        /\ s \in Seq(Segment)
        /\ Len(s) = o + Len(drop[m].entries) + 1
        /\ s # <<>> /\ s[1].ok
        /\ \A k \in 1..Len(s) : /\ s[k].kind = "line" <=> o < k /\ k < Len(s)
                                /\ k > 1 => ~s[k].ok
                                /\ k = Len(s) => s[k].kind # "front"
        /\ \A k \in 1..Len(drop[m].entries) : s[o + k] = HeaderLine(m, k)

\* What the server sends for TOP is the header of the message asked for.
LEMMA HeaderFacts ==
    ASSUME TypeOK, NEW c \in Command, Granted(c), c.verb = "TOP", NEW s \in Answers(c)
    PROVE  IsHeader(s, c.no)
<1>0. s \in {t \o HeaderLines(c.no) \o <<End>> : t \in Free(TRUE, Dot)}
  BY DEF Answers
<1>1. PICK r \in Free(TRUE, Dot) : s = r \o HeaderLines(c.no) \o <<End>>
  BY <1>0
<1>2. \E q \in Nat, d \in BOOLEAN : IsReply(r, TRUE, q, d)
  <2>1. Dot \in SUBSET BOOLEAN BY DEF Dot
  <2> QED BY <2>1, FreeFacts
<1>3. drop \in Seq(Header) /\ c.no \in All /\ All = 1..Len(drop) /\ Len(drop) \in Nat
  BY LeftFacts, SessionAssumption DEF TypeOK, Granted
<1> DEFINE n == Len(drop[c.no].entries)
           h == HeaderLines(c.no)
<1>4. n \in Nat /\ DOMAIN drop[c.no].entries = 1..n
  BY <1>3 DEF Header
<1>5. h \in Seq(Segment) /\ Len(h) = n /\ \A k \in 1..n : h[k] = HeaderLine(c.no, k)
  <2>1. \A k \in 1..n : HeaderLine(c.no, k) \in Segment
    BY <1>3, <1>4, HeaderLineType
  <2>2. h = [k \in 1..n |-> HeaderLine(c.no, k)] BY <1>4 DEF HeaderLines
  <2> QED BY <1>4, <2>1, <2>2
<1>6. End \in Segment /\ <<End>> \in Seq(Segment) /\ Len(<<End>>) = 1 /\ <<End>>[1] = End
      /\ End.kind = "end" /\ End.ok = FALSE
  BY DEF End, Segment
<1>7. \A k \in 1..n : HeaderLine(c.no, k).kind = "line" /\ HeaderLine(c.no, k).ok = FALSE
  BY DEF HeaderLine
<1> HIDE DEF n, h
<1>8. PICK o \in {1, 2} : Len(r) = o BY <1>2 DEF IsReply
<1>9. r \o h \in Seq(Segment) /\ Len(r \o h) = o + n
      /\ \A i \in 1..(o + n) : (r \o h)[i] = IF i <= o THEN r[i] ELSE h[i - o]
  BY <1>2, <1>5, <1>8, ConcatProperties DEF IsReply
<1>10. s \in Seq(Segment) /\ Len(s) = o + n + 1
       /\ \A i \in 1..(o + n + 1) : s[i] = IF i <= o + n THEN (r \o h)[i] ELSE End
  <2>1. s = (r \o h) \o <<End>> BY <1>1 DEF h
  <2>2. \A i \in 1..(o + n + 1) : i > o + n => i - (o + n) = 1
    BY <1>4
  <2> QED BY <1>4, <1>6, <1>9, <2>1, <2>2, ConcatProperties
<1>11. \A i \in 1..(o + n + 1) : s[i] = IF i <= o THEN r[i] ELSE IF i <= o + n THEN h[i - o] ELSE End
  <2> SUFFICES ASSUME NEW i \in 1..(o + n + 1)
               PROVE  s[i] = IF i <= o THEN r[i] ELSE IF i <= o + n THEN h[i - o] ELSE End
    OBVIOUS
  <2>1. CASE i <= o + n
    <3>1. i \in 1..(o + n) BY <1>4, <2>1
    <3>2. s[i] = (r \o h)[i] BY <1>10, <2>1
    <3> QED BY <1>9, <2>1, <3>1, <3>2
  <2>2. CASE i > o + n
    <3>1. ~(i <= o) /\ ~(i <= o + n) BY <1>4, <2>2
    <3> QED BY <1>10, <3>1
  <2> QED BY <1>4, <2>1, <2>2
<1>12. \A i \in 1..o : r[i].kind # "line" /\ (i > 1 => ~r[i].ok)
  BY <1>2, <1>8 DEF IsReply, Starts
<1>13. r[1].ok BY <1>2 DEF IsReply
<1>15. \A i \in 1..n : h[i].kind = "line" /\ h[i].ok = FALSE
  BY <1>5, <1>7
<1>16. \A k \in 1..Len(s) : s[k].kind = "line" <=> o < k /\ k < Len(s)
  BY <1>4, <1>6, <1>10, <1>11, <1>12, <1>15
<1>17. \A k \in 1..Len(s) : (k > 1 => ~s[k].ok) /\ (k = Len(s) => s[k].kind # "front")
  <2> SUFFICES ASSUME NEW k \in 1..(o + n + 1)
               PROVE  (k > 1 => ~s[k].ok) /\ (k = o + n + 1 => s[k].kind # "front")
    BY <1>10
  <2>1. CASE k <= o
    BY <1>4, <1>11, <1>12, <2>1
  <2>2. CASE o < k /\ k <= o + n
    <3>1. k - o \in 1..n BY <1>4, <2>2
    <3>2. s[k] = h[k - o] BY <1>4, <1>11, <2>2
    <3> QED BY <1>15, <2>2, <3>1, <3>2
  <2>3. CASE k > o + n
    <3>1. ~(k <= o + n) BY <1>4, <2>3
    <3>2. s[k] = End BY <1>10, <3>1
    <3> QED BY <1>6, <3>2
  <2> QED BY <1>4, <2>1, <2>2, <2>3
<1>18. \A k \in 1..n : s[o + k] = HeaderLine(c.no, k)
  BY <1>4, <1>5, <1>11
<1>19. s # <<>> /\ s[1].ok
  <2>1. Len(s) # 0 /\ 1 \in 1..(o + n + 1) /\ 1 <= o BY <1>4, <1>10
  <2> QED BY <1>11, <1>13, <2>1
<1> QED BY <1>10, <1>16, <1>17, <1>18, <1>19 DEF IsHeader, n

----------------------------------------------------------------------------
\* What remains when the client has read k segments.
LEMMA SingleSuffix ==
    ASSUME NEW s \in Seq(Segment), Single(s), NEW k \in 1..Len(s)
    PROVE  LET r == SubSeq(s, k + 1, Len(s))
           IN  r = <<>> \/ Stuck(r)
<1>1. PICK r : r = SubSeq(s, k + 1, Len(s)) OBVIOUS
<1>2. r \in Seq(Segment) /\ Len(r) = Len(s) - k /\ \A i \in 1..(Len(s) - k) : r[i] = s[k + i]
  BY <1>1, SuffixFacts
<1>3. CASE Len(r) = 0 BY <1>1, <1>2, <1>3
<1>4. CASE Len(r) # 0
  <2>1. 1 \in 1..(Len(s) - k) /\ k + 1 \in 1..Len(s) /\ k + 1 > 1 BY <1>2, <1>4
  <2>2. r[1] = s[k + 1] BY <1>2, <2>1
  <2>3. ~r[1].ok BY <2>1, <2>2 DEF Single, Starts
  <2>4. r # <<>> BY <1>4
  <2> QED BY <1>1, <2>3, <2>4 DEF Stuck
<1> QED BY <1>3, <1>4

\* The same when two positive replies may have been under way.
LEMMA TwoSuffix ==
    ASSUME NEW s \in Seq(Segment), AtMostTwo(s), NEW k \in 1..Len(s)
    PROVE  LET r == SubSeq(s, k + 1, Len(s))
           IN  Stuck(r) \/ (Single(r) /\ (LaterQuiet(s) => Quiet(r)))
<1>1. PICK r : r = SubSeq(s, k + 1, Len(s)) OBVIOUS
<1>2. r \in Seq(Segment) /\ Len(r) = Len(s) - k /\ \A i \in 1..(Len(s) - k) : r[i] = s[k + i]
  BY <1>1, SuffixFacts
<1>3. \A i \in DOMAIN r : k + i \in DOMAIN s /\ k + i > 1 /\ r[i] = s[k + i]
  BY <1>2
<1>4. \A i \in DOMAIN r : i > 1 => ~(Starts(r[1]) /\ Starts(r[i]))
  <2> TAKE i \in DOMAIN r
  <2> HAVE i > 1
  <2>1. 1 \in DOMAIN r /\ i \in Nat BY <1>2
  <2>2. k + 1 \in DOMAIN s /\ k + i \in DOMAIN s /\ 1 < k + 1 /\ k + 1 < k + i
    BY <1>3, <2>1
  <2>3. ~(Starts(s[k + 1]) /\ Starts(s[k + i])) BY <2>2 DEF AtMostTwo
  <2> QED BY <1>3, <2>1, <2>3
<1>5. NoLine(r) BY <1>3 DEF AtMostTwo, NoLine
<1>6. CASE r = <<>> BY <1>1, <1>6 DEF Single, NoLine, Quiet
<1>7. CASE r # <<>> /\ r[1].ok
  <2>1. \A i \in DOMAIN r : 1 < k + 1 /\ k + 1 <= k + i /\ k + 1 \in DOMAIN s /\ s[k + 1].ok
    BY <1>2, <1>3, <1>7
  <2>2. LaterQuiet(s) => Quiet(r)
    BY <1>3, <2>1 DEF LaterQuiet, Quiet
  <2>3. Single(r)
    <3>1. Starts(r[1]) BY <1>7 DEF Starts
    <3> QED BY <1>4, <1>5, <3>1 DEF Single
  <2> QED BY <1>1, <2>2, <2>3
<1>8. CASE r # <<>> /\ ~r[1].ok BY <1>1, <1>8 DEF Stuck
<1> QED BY <1>6, <1>7, <1>8

----------------------------------------------------------------------------
\* What a reply adds to a stream.
LEMMA ConcatFacts ==
    ASSUME NEW S, NEW s \in Seq(S), NEW r \in Seq(S)
    PROVE  /\ s \o r \in Seq(S)
           /\ Len(s \o r) = Len(s) + Len(r) /\ Len(s) \in Nat /\ Len(r) \in Nat
           /\ DOMAIN (s \o r) = 1..(Len(s) + Len(r))
           /\ DOMAIN s = 1..Len(s) /\ DOMAIN r = 1..Len(r)
           /\ \A i \in 1..Len(s) : (s \o r)[i] = s[i]
           /\ \A i \in 1..Len(r) : (s \o r)[Len(s) + i] = r[i]
           /\ \A i \in 1..(Len(s) + Len(r)) :
                 i \in 1..Len(s) \/ (i > Len(s) /\ i - Len(s) \in 1..Len(r) /\ (s \o r)[i] = r[i - Len(s)])
<1>1. /\ s \o r \in Seq(S) /\ Len(s \o r) = Len(s) + Len(r)
      /\ \A i \in 1..(Len(s) + Len(r)) : (s \o r)[i] = IF i <= Len(s) THEN s[i] ELSE r[i - Len(s)]
  BY ConcatProperties
<1>2. Len(s) \in Nat /\ Len(r) \in Nat /\ DOMAIN s = 1..Len(s) /\ DOMAIN r = 1..Len(r)
  OBVIOUS
<1>3. \A i \in 1..Len(s) : (s \o r)[i] = s[i]
  BY <1>1, <1>2
<1>4. \A i \in 1..Len(r) : (s \o r)[Len(s) + i] = r[i]
  <2> TAKE i \in 1..Len(r)
  <2>1. Len(s) + i \in 1..(Len(s) + Len(r)) /\ ~(Len(s) + i <= Len(s)) /\ (Len(s) + i) - Len(s) = i
    BY <1>2
  <2> QED BY <1>1, <2>1
<1>5. \A i \in 1..(Len(s) + Len(r)) :
         i \in 1..Len(s) \/ (i > Len(s) /\ i - Len(s) \in 1..Len(r) /\ (s \o r)[i] = r[i - Len(s)])
  <2> TAKE i \in 1..(Len(s) + Len(r))
  <2>1. CASE i <= Len(s) BY <1>2, <2>1
  <2>2. CASE ~(i <= Len(s))
    <3>1. i > Len(s) /\ i - Len(s) \in 1..Len(r) BY <1>2, <2>2
    <3> QED BY <1>1, <2>2, <3>1
  <2> QED BY <2>1, <2>2
<1>6. DOMAIN (s \o r) = 1..(Len(s) + Len(r)) BY <1>1
<1> QED BY <1>1, <1>2, <1>3, <1>4, <1>5, <1>6

\* A stream that starts with no positive reply stays one whatever is sent.
LEMMA StuckStays ==
    ASSUME NEW s \in Seq(Segment), NEW r \in Seq(Segment), Stuck(s)
    PROVE  Stuck(s \o r)
<1>1. 1 \in 1..Len(s) BY DEF Stuck
<1> QED BY <1>1, ConcatFacts DEF Stuck

\* A reply that travels alone.
LEMMA ReplyAlone ==
    ASSUME NEW r, NEW ok \in BOOLEAN, NEW n, NEW d \in BOOLEAN, IsReply(r, ok, n, d)
    PROVE  Single(r) /\ (~d => Quiet(r)) /\ (~ok => Stuck(r))
BY DEF IsReply, Single, NoLine, Quiet, Stuck

\* A reply behind at most one positive reply that is still unread.
LEMMA ReplyBehind ==
    ASSUME NEW s \in Seq(Segment), Single(s),
           NEW r, NEW ok \in BOOLEAN, NEW n, NEW d \in BOOLEAN, IsReply(r, ok, n, d)
    PROVE  AtMostTwo(s \o r) /\ ((ok => ~d) => LaterQuiet(s \o r))
<1> DEFINE t == s \o r
<1>1. r \in Seq(Segment) BY DEF IsReply
<1>2. \A i \in 1..Len(s) : t[i].kind # "line" /\ (i > 1 => ~Starts(t[i]))
  BY ConcatFacts, <1>1 DEF Single, NoLine
<1>3. \A i \in 1..Len(r) : /\ r[i].kind # "line" /\ (i > 1 => ~Starts(r[i]))
                            /\ (r[i].dot => d) /\ (i = 1 => r[i].ok = ok)
  BY DEF IsReply
<1>4. \A i \in DOMAIN t :
         /\ t[i].kind # "line"
         /\ i > 1 /\ Starts(t[i]) => i = Len(s) + 1 /\ t[i].ok = ok
         /\ i > Len(s) /\ t[i].dot => d
  <2> TAKE i \in DOMAIN t
  <2>1. CASE i \in 1..Len(s) BY <1>1, <1>2, <2>1, ConcatFacts
  <2>2. CASE i > Len(s) /\ i - Len(s) \in 1..Len(r) /\ t[i] = r[i - Len(s)]
    <3>1. i - Len(s) > 1 \/ i - Len(s) = 1 BY <2>2
    <3>2. i - Len(s) = 1 => i = Len(s) + 1 BY <1>1, ConcatFacts
    <3> QED BY <1>3, <2>2, <3>1, <3>2
  <2> QED BY <1>1, <2>1, <2>2, ConcatFacts
<1>5. DOMAIN t \subseteq Nat /\ Len(s) \in Nat BY <1>1, ConcatFacts
<1> HIDE DEF t
<1>6. AtMostTwo(t)
  <2>1. \A j, k \in DOMAIN t : 1 < j /\ j < k => ~(Starts(t[j]) /\ Starts(t[k]))
    BY <1>4, <1>5
  <2> QED BY <1>4, <2>1 DEF AtMostTwo, NoLine
<1>7. ASSUME ok => ~d PROVE LaterQuiet(t)
  <2> SUFFICES ASSUME NEW j \in DOMAIN t, NEW k \in DOMAIN t, 1 < j, j <= k, t[j].ok
               PROVE  ~t[k].dot
    BY DEF LaterQuiet
  <2>1. Starts(t[j]) BY DEF Starts
  <2>2. ok /\ j = Len(s) + 1 /\ k > Len(s) BY <1>4, <1>5, <2>1
  <2> QED BY <1>4, <1>7, <2>2
<1> QED BY <1>6, <1>7 DEF t

----------------------------------------------------------------------------
\* The header in a stream that has not been read, or not completely.
LEMMA NoHeaderYet ==
    ASSUME NEW t \in Seq(Segment), NoLine(t),
           \A k \in 1..(Len(t) - 1) : t[k].dot => ~t[k + 1].ok
    PROVE  \E o, n \in 0..Len(t) : HeaderAt(t, o, n)
<1>1. Len(t) \in Nat /\ DOMAIN t = 1..Len(t) OBVIOUS
<1>2. HeaderAt(t, 0, 0)
  <2>1. \A k \in DOMAIN t : ~(0 + 1 <= k /\ k <= 0 + 0) BY <1>1
  <2> QED BY <1>1, <2>1 DEF HeaderAt, NoLine
<1> QED BY <1>1, <1>2

\* A reply in place of the header ...
LEMMA RefusalBehind ==
    ASSUME NEW t \in Seq(Segment), Single(t), Quiet(t),
           NEW r, NEW ok \in BOOLEAN, NEW n, NEW d \in BOOLEAN, IsReply(r, ok, n, d)
    PROVE  \E o, m \in 0..Len(t \o r) : HeaderAt(t \o r, o, m)
<1>1. r \in Seq(Segment) /\ \A i \in 1..Len(r) : r[i].kind # "line" /\ (r[i].dot => i = Len(r))
  BY DEF IsReply
<1>2. PICK u : u = t \o r OBVIOUS
<1>3. /\ u \in Seq(Segment) /\ DOMAIN u = 1..Len(u) /\ Len(u) = Len(t) + Len(r)
      /\ \A i \in 1..Len(t) : u[i] = t[i]
      /\ \A i \in 1..Len(u) : i \in 1..Len(t) \/ (i > Len(t) /\ i - Len(t) \in 1..Len(r) /\ u[i] = r[i - Len(t)])
      /\ Len(t) \in Nat /\ Len(r) \in Nat
  BY <1>1, <1>2, ConcatFacts
<1>4. \A i \in 1..Len(u) : u[i].kind # "line" /\ (u[i].dot => i = Len(u))
  <2> TAKE i \in 1..Len(u)
  <2>1. CASE i \in 1..Len(t) BY <1>3, <2>1 DEF Single, NoLine, Quiet
  <2>2. CASE i > Len(t) /\ i - Len(t) \in 1..Len(r) /\ u[i] = r[i - Len(t)]
    <3>1. i - Len(t) = Len(r) => i = Len(u) BY <1>3
    <3> QED BY <1>1, <2>2, <3>1
  <2> QED BY <1>3, <2>1, <2>2
<1>5. NoLine(u) BY <1>3, <1>4 DEF NoLine
<1>6. \A k \in 1..(Len(u) - 1) : ~u[k].dot
  BY <1>3, <1>4
<1> QED BY <1>2, <1>3, <1>5, <1>6, NoHeaderYet

\* ... and the header behind unread replies that do not end in ".".
LEMMA HeaderBehind ==
    ASSUME TypeOK, msg \in All,
           NEW t \in Seq(Segment), Single(t), Quiet(t), NEW r, IsHeader(r, msg)
    PROVE  \E o, n \in 0..Len(t \o r) : HeaderAt(t \o r, o, n)
<1>1. drop \in Seq(Header) /\ All = 1..Len(drop)
  BY LeftFacts, SessionAssumption DEF TypeOK
<1>2. PICK n \in Nat : n = Len(drop[msg].entries)
  <2>1. drop[msg] \in Header BY <1>1, ElementOfSeq, Zenon
  <2>2. drop[msg].entries \in Seq(Entry) BY <2>1 DEF Header
  <2> QED BY <2>2
<1>3. PICK o \in {1, 2} :
        /\ r \in Seq(Segment) /\ Len(r) = o + n + 1
        /\ \A k \in 1..Len(r) : (r[k].kind = "line" <=> o < k /\ k < Len(r)) /\ (k > 1 => ~r[k].ok)
        /\ \A k \in 1..n : r[o + k] = HeaderLine(msg, k)
  BY <1>2 DEF IsHeader
<1>4. PICK u : u = t \o r OBVIOUS
<1>5. PICK p \in Nat : p = Len(t) OBVIOUS
<1>6. /\ u \in Seq(Segment) /\ DOMAIN u = 1..Len(u) /\ Len(u) = p + o + n + 1
      /\ \A i \in 1..p : u[i] = t[i]
      /\ \A i \in 1..Len(r) : u[p + i] = r[i]
      /\ \A i \in 1..Len(u) : i \in 1..p \/ (i > p /\ i - p \in 1..Len(r) /\ u[i] = r[i - p])
  <2>1. /\ u \in Seq(Segment) /\ DOMAIN u = 1..Len(u) /\ Len(u) = p + Len(r)
        /\ \A i \in 1..p : u[i] = t[i]
        /\ \A i \in 1..Len(r) : u[p + i] = r[i]
        /\ \A i \in 1..(p + Len(r)) :
              i \in 1..p \/ (i > p /\ i - p \in 1..Len(r) /\ u[i] = r[i - p])
    <3>1. /\ t \o r \in Seq(Segment) /\ DOMAIN (t \o r) = 1..Len(t \o r)
          /\ Len(t \o r) = Len(t) + Len(r)
          /\ \A i \in 1..Len(t) : (t \o r)[i] = t[i]
          /\ \A i \in 1..Len(r) : (t \o r)[Len(t) + i] = r[i]
          /\ \A i \in 1..(Len(t) + Len(r)) :
                i \in 1..Len(t) \/ (i > Len(t) /\ i - Len(t) \in 1..Len(r) /\ (t \o r)[i] = r[i - Len(t)])
      <4>1. r \in Seq(Segment) BY <1>3
      <4> QED BY <4>1, ConcatFacts
    <3> QED BY <1>4, <1>5, <3>1
  <2> QED BY <1>3, <2>1
<1>7. \A i \in 1..p : u[i].kind # "line" /\ ~u[i].dot
  BY <1>5, <1>6 DEF Single, NoLine, Quiet
<1>8. \A i \in 1..Len(u) : u[i].kind = "line" <=> p + o + 1 <= i /\ i <= p + o + n
  <2> TAKE i \in 1..Len(u)
  <2>1. CASE i \in 1..p BY <1>7, <2>1
  <2>2. CASE i > p /\ i - p \in 1..Len(r) /\ u[i] = r[i - p]
    <3>1. o < i - p /\ i - p < Len(r) <=> p + o + 1 <= i /\ i <= p + o + n
      BY <1>3, <1>6
    <3> QED BY <1>3, <2>2, <3>1
  <2> QED BY <1>6, <2>1, <2>2
<1>9. \A k \in 1..n : u[(p + o) + k] = HeaderLine(msg, k)
  <2> TAKE k \in 1..n
  <2>1. o + k \in 1..Len(r) /\ (p + o) + k = p + (o + k)
    <3>1. o \in Nat /\ Len(r) = o + n + 1 BY <1>3
    <3>2. PICK q : q = Len(r) OBVIOUS
    <3>3. q = o + n + 1 BY <3>1, <3>2
    <3>4. o + k \in 1..q /\ (p + o) + k = p + (o + k) BY <3>1, <3>3
    <3> QED BY <3>2, <3>4
  <2> QED BY <1>3, <1>6, <2>1
<1>10. \A k \in 1..(Len(u) - 1) : u[k].dot => ~u[k + 1].ok
  <2> TAKE k \in 1..(Len(u) - 1)
  <2>1. CASE k <= p BY <1>6, <1>7, <2>1
  <2>2. CASE k > p
    <3>1. (k + 1) - p \in 1..Len(r) /\ (k + 1) - p > 1 /\ p + ((k + 1) - p) = k + 1
      BY <1>3, <1>6, <2>2
    <3> QED BY <1>3, <1>6, <3>1
  <2> QED BY <2>1, <2>2
<1>11. p + o \in 0..Len(u) /\ n \in 0..Len(u) /\ p + o + n <= Len(u) BY <1>6
<1>12. HeaderAt(u, p + o, n)
  BY <1>2, <1>6, <1>8, <1>9, <1>10, <1>11 DEF HeaderAt
<1> QED BY <1>4, <1>11, <1>12

\* A reset cuts the stream somewhere.
Begins(u, t) == Len(u) <= Len(t) /\ \A i \in 1..Len(u) : u[i] = t[i]

\* What a reset leaves of a stream with a header is one with a shorter header.
LEMMA HeaderBegins ==
    ASSUME NEW t \in Seq(Segment), NEW u \in Seq(Segment), Begins(u, t),
           NEW o \in 0..Len(t), NEW n \in 0..Len(t), HeaderAt(t, o, n)
    PROVE  \E p, m \in 0..Len(u) : HeaderAt(u, p, m)
<1>0. o \in Nat /\ n \in Nat OBVIOUS
<1>1. PICK l \in Nat : l = Len(u) OBVIOUS
<1>2. PICK p \in Nat : (o <= l /\ p = o) \/ (o > l /\ p = l) BY <1>0, <1>1
<1>3. PICK m \in Nat : (o + n <= l /\ m = n) \/ (o + n > l /\ m = l - p)
  <2>1. CASE o + n <= l BY <1>0, <2>1
  <2>2. CASE o + n > l
    <3>1. l - p \in Nat BY <1>1, <1>2
    <3> QED BY <2>2, <3>1
  <2> QED BY <1>0, <1>1, <2>1, <2>2
<1>4. p \in 0..l /\ m \in 0..l /\ p + m <= l /\ m <= n BY <1>0, <1>1, <1>2, <1>3
<1>5. \A k \in 1..l : p + 1 <= k /\ k <= p + m <=> o + 1 <= k /\ k <= o + n
  BY <1>0, <1>1, <1>2, <1>3
<1>6. \A k \in 1..m : p + k = o + k /\ o + k \in 1..l /\ k \in 1..n
  BY <1>0, <1>1, <1>2, <1>3
<1>7. \A k \in 1..l : k \in DOMAIN t /\ u[k] = t[k]
  BY <1>1 DEF Begins
<1>8. \A k \in 1..(l - 1) : k \in 1..l /\ k + 1 \in 1..l /\ k \in 1..(Len(t) - 1)
  BY <1>1 DEF Begins
<1>9. \A k \in 1..l : u[k].kind = "line" <=> p + 1 <= k /\ k <= p + m
  BY <1>5, <1>7 DEF HeaderAt
<1>10. \A k \in 1..m : u[p + k] = HeaderLine(msg, k)
  BY <1>6, <1>7 DEF HeaderAt
<1>11. \A k \in 1..(l - 1) : u[k].dot => ~u[k + 1].ok
  BY <1>7, <1>8 DEF HeaderAt
<1>12. m > 0 => msg \in All /\ m <= Len(drop[msg].entries)
  <2> SUFFICES ASSUME m > 0 PROVE msg \in All /\ m <= Len(drop[msg].entries)
    OBVIOUS
  <2>1. n > 0 /\ n \in Nat BY <1>4
  <2>2. msg \in All /\ n <= Len(drop[msg].entries) BY <2>1 DEF HeaderAt
  <2>3. drop[msg].entries[m] = drop[msg].entries[m] OBVIOUS
  <2> QED BY <1>4, <2>1, <2>2
<1>13. HeaderAt(u, p, m)
  BY <1>1, <1>4, <1>9, <1>10, <1>11, <1>12 DEF HeaderAt
<1> QED BY <1>1, <1>4, <1>13

----------------------------------------------------------------------------
\* In the scan, msg is the number of a message.
LEMMA MsgFacts ==
    ASSUME TypeOK, Bounds, pc \in {"LIST", "TOP", "DELE"}
    PROVE  msg \in All /\ drop[msg] \in Header
<1>1. All = 1..Len(drop) /\ drop \in Seq(Header) /\ Len(drop) \in Nat
  BY LeftFacts, SessionAssumption DEF TypeOK
<1>2. msg \in 1..Len(drop) BY <1>1 DEF TypeOK, Bounds
<1> QED BY <1>1, <1>2, ElementOfSeq, Zenon

\* A sequence that is not empty has a first and a last element.
LEMMA LastElement ==
    ASSUME NEW S, NEW s \in Seq(S), s # <<>>
    PROVE  Len(s) \in Nat \ {0} /\ DOMAIN s = 1..Len(s) /\ 1 \in DOMAIN s /\ Len(s) \in DOMAIN s
<1>1. Len(s) \in Nat /\ DOMAIN s = 1..Len(s) OBVIOUS
<1>2. Len(s) # 0 BY EmptySeq
<1> QED BY <1>1, <1>2

\* An input with a complete header is the header of message msg, cut or whole, after
\* replies nobody has read; what comes behind it starts with no positive answer.
LEMMA EndHeaderFacts ==
    ASSUME Core, EndHeader, Positive(input)
    PROVE  /\ c2s = <<>>
           /\ s2c = <<>> \/ Stuck(s2c)
           /\ \E o, n \in 0..Len(input \o s2c) : HeaderAt(input \o s2c, o, n)
<1>1. pc = "TOP" /\ waiting /\ input # <<>> /\ input[1].ok /\ input[Len(input)].dot
  BY DEF EndHeader, Ended, Positive
<1>2. input \in Seq(Segment) /\ s2c \in Seq(Segment) BY DEF Core, TypeOK
<1>3. PICK t : t = input \o s2c OBVIOUS
<1>4. PICK l \in Nat \ {0} : l = Len(input) BY <1>1, <1>2, LastElement
<1>5. /\ t \in Seq(Segment) /\ DOMAIN t = 1..Len(t) /\ Len(t) = l + Len(s2c)
      /\ \A i \in 1..l : t[i] = input[i]
      /\ \A i \in 1..Len(s2c) : t[l + i] = s2c[i]
  BY <1>2, <1>3, <1>4, ConcatFacts
<1>6. l \in DOMAIN t /\ t[l].dot /\ t[1].ok
  BY <1>1, <1>4, <1>5
<1>7. TopOwed(t) BY <1>1, <1>3 DEF Core, Stream
<1>8. ~Stuck(t) /\ ~Quiet(t) /\ t # <<>>
  BY <1>5, <1>6 DEF Stuck, Quiet
<1>9. c2s = <<>> /\ \E o, n \in 0..Len(t) : HeaderAt(t, o, n)
  BY <1>7, <1>8 DEF TopOwed
<1>10. ASSUME s2c # <<>> PROVE Stuck(s2c)
  <2>1. 1 \in 1..Len(s2c) BY <1>2, <1>10, LastElement
  <2>2. l \in 1..(Len(t) - 1) BY <1>2, <1>4, <1>5, <2>1
  <2>3. ~t[l + 1].ok BY <1>6, <1>9, <2>2 DEF HeaderAt
  <2>4. ~s2c[1].ok BY <1>5, <2>1, <2>3
  <2> QED BY <1>10, <2>4 DEF Stuck
<1> QED BY <1>3, <1>9, <1>10

\* What invoke_msg_parser hands to is_weed is the beginning of message msg's header.
LEMMA ParsedFacts ==
    ASSUME Core, EndHeader, Positive(input)
    PROVE  /\ Parsed \in Seq(Entry)
           /\ Parsed = SubSeq(drop[msg].entries, 1, Len(Parsed))
<1>1. PICK t : t = input \o s2c OBVIOUS
<1>2. input \in Seq(Segment) /\ s2c \in Seq(Segment) BY DEF Core, TypeOK
<1>3. PICK o \in 0..Len(t) : \E n \in 0..Len(t) : HeaderAt(t, o, n)
  BY <1>1, EndHeaderFacts
<1>4. PICK n \in 0..Len(t) : HeaderAt(t, o, n)
  BY <1>3
<1>5. PICK l \in Nat : l = Len(input) BY <1>2
<1>6. /\ t \in Seq(Segment) /\ Len(t) \in Nat /\ l <= Len(t)
      /\ DOMAIN input = 1..l /\ DOMAIN t = 1..Len(t)
      /\ \A i \in 1..l : t[i] = input[i]
  BY <1>1, <1>2, <1>5, ConcatFacts
<1>7. msg \in All /\ drop[msg] \in Header
  BY MsgFacts DEF Core, EndHeader
<1>8. PICK e \in Seq(Entry) : e = drop[msg].entries
  BY <1>7 DEF Header
<1>9. LinesRead = {k \in 1..l : o + 1 <= k /\ k <= o + n}
  <2>1. \A k \in 1..l : k \in 1..Len(t) /\ input[k] = t[k] BY <1>6
  <2> QED BY <1>4, <1>6, <2>1 DEF LinesRead, HeaderAt
<1>10. CASE LinesRead = {}
  <2>1. Parsed = <<>> BY <1>10 DEF Parsed
  <2>2. SubSeq(e, 1, 0) = <<>> /\ Len(<<>>) = 0 OBVIOUS
  <2> QED BY <1>8, <2>1, <2>2
<1>11. CASE LinesRead # {}
  <2>1. n > 0 /\ o + 1 <= l
    BY <1>9, <1>11
  <2>2. PICK j \in 1..n : (o + n <= l /\ j = n) \/ (l < o + n /\ j = l - o)
    <3>1. o \in Nat /\ n \in Nat BY <1>6
    <3>2. CASE o + n <= l BY <2>1, <3>1, <3>2
    <3>3. CASE l < o + n
      <4>1. l - o \in 1..n BY <1>5, <2>1, <3>1, <3>3
      <4> QED BY <3>3, <4>1
    <3> QED BY <1>5, <3>1, <3>2, <3>3
  <2>3. n <= Len(e) /\ \A k \in 1..n : t[o + k] = HeaderLine(msg, k)
    BY <1>4, <1>8, <2>1 DEF HeaderAt
  <2>4. LinesRead = (o + 1)..(o + j)
    BY <1>5, <1>9, <2>1, <2>2
  <2>5. Max(LinesRead) = o + j
    <3>1. o + j \in LinesRead /\ \A y \in LinesRead : o + j >= y
      BY <2>2, <2>4
    <3>2. \A x \in LinesRead : (\A y \in LinesRead : x >= y) => x = o + j
      BY <3>1, <2>4, <2>2
    <3> QED BY <3>1, <3>2 DEF Max
  <2>6. Min(LinesRead) = o + 1
    <3>1. o + 1 \in LinesRead /\ \A y \in LinesRead : o + 1 <= y
      BY <2>2, <2>4
    <3>2. \A x \in LinesRead : (\A y \in LinesRead : x <= y) => x = o + 1
      BY <3>1, <2>4, <2>2
    <3> QED BY <3>1, <3>2 DEF Min
  <2>7. Parsed = [k \in 1..j |-> LET s == input[o + k] IN drop[s.no].entries[s.at]]
    <3>1. (o + j) - (o + 1) + 1 = j BY <2>2
    <3>2. \A k \in 1..j : (o + 1) + k - 1 = o + k BY <2>2
    <3> QED BY <1>11, <2>5, <2>6, <3>1, <3>2 DEF Parsed
  <2>8. \A k \in 1..j : /\ input[o + k].no = msg /\ input[o + k].at = k
                        /\ k \in 1..Len(e)
    <3> TAKE k \in 1..j
    <3>1. o + k \in 1..l /\ k \in 1..n /\ k \in 1..Len(e) BY <1>5, <1>8, <2>2, <2>3
    <3>2. input[o + k] = HeaderLine(msg, k) BY <1>6, <2>3, <3>1
    <3> QED BY <3>1, <3>2 DEF HeaderLine
  <2>9. Parsed = [k \in 1..j |-> e[k]]
    BY <1>8, <2>7, <2>8
  <2>10. \A k \in 1..j : e[k] \in Entry
    BY <1>8, <2>8, ElementOfSeq
  <2>11. Parsed \in Seq(Entry) /\ Len(Parsed) = j /\ \A k \in 1..j : Parsed[k] = e[k]
    BY <2>2, <2>9, <2>10
  <2>12. j \in 0..Len(e) BY <1>8, <2>2, <2>3
  <2>13. SubSeq(e, 1, j) \in Seq(Entry) /\ Len(SubSeq(e, 1, j)) = j
         /\ \A k \in 1..j : SubSeq(e, 1, j)[k] = e[k]
    BY <2>12, PrefixFacts
  <2>14. Parsed = SubSeq(e, 1, j)
    BY <2>11, <2>13, SeqEqual
  <2> QED BY <1>8, <2>11, <2>14
<1> QED BY <1>10, <1>11

-----------------------------------------------------------------------------
\* Every action of the client preserves the invariant.

\* What does not change as long as no header is examined.
LEMMA SameJudged ==
    ASSUME OwnHeader, UNCHANGED configuration, UNCHANGED judged
    PROVE  OwnHeader' /\ Doomed' = Doomed /\ All' = All
BY DEF OwnHeader, Doomed, Condemned, All, configuration

\* What the client reads and leaves.
LEMMA ReadFacts ==
    ASSUME TypeOK, NEW k \in 1..Len(s2c), Receive(k)
    PROVE  /\ waiting /\ s2c # <<>> /\ Received(k)[1] = s2c[1]
           /\ Received(k) \in Seq(Segment)
           /\ s2c' \in Seq(Segment)
           /\ SecondWord(Received(k)) \in Nat /\ LastWord(Received(k)) \in Nat
           /\ CountAt(s2c, 1) => SecondWord(Received(k)) <= Len(drop)
<1>0. s2c \in Seq(Segment) BY DEF TypeOK
<1>1. k \in 0..Len(s2c) /\ 1 \in 1..k /\ k \in Nat BY <1>0
<1>2. PICK r : r = Received(k) OBVIOUS
<1>3. r \in Seq(Segment) /\ Len(r) = k /\ \A i \in 1..k : r[i] = s2c[i]
  BY <1>0, <1>1, <1>2, PrefixFacts DEF Received
<1>4. s2c' \in Seq(Segment)
  BY <1>0, <1>1, SuffixFacts DEF Receive
<1>5. waiting /\ s2c # <<>> BY <1>0 DEF Receive
<1>7. \A i \in 1..k : r[i] \in Segment BY <1>3, ElementOfSeq
<1>8. \A i \in 1..k : r[i].second \in Nat /\ r[i].last \in Nat
  BY <1>7 DEF Segment
<1>9. SecondWord(r) \in Nat
  BY <1>1, <1>3, <1>8 DEF SecondWord
<1>10. LastWord(r) \in Nat
  BY <1>1, <1>3, <1>8 DEF LastWord
<1>11. ASSUME CountAt(s2c, 1) PROVE SecondWord(r) <= Len(drop)
  <2>1. s2c[1].second <= Len(drop) /\ (s2c[1].kind = "front" /\ 1 < Len(s2c) => s2c[2].second <= Len(drop))
    BY <1>11 DEF CountAt
  <2>2. k > 1 => 1 < Len(s2c) /\ 2 \in 1..k BY <1>0
  <2> QED BY <1>1, <1>3, <2>1, <2>2 DEF SecondWord
<1> QED BY <1>1, <1>2, <1>3, <1>4, <1>5, <1>9, <1>10, <1>11

----------------------------------------------------------------------------
\* Socket::c_open.
LEMMA OpenStep ==
    ASSUME Core, Open PROVE Core'
<1> USE DEF Core
<1>0. /\ pc = "open" /\ pc' = "greeting" /\ waiting' /\ server' = "auth"
      /\ c2s = <<>> /\ server = "listen" /\ peer = "up"
      /\ UNCHANGED <<configuration, msg, num_messages, size, input, msg_ids, messages,
                     mailbox_status, result, judged, c2s, peer, marked, mailbox>>
  BY DEF Open, Goto, Stream, Deletion
<1>1. PICK ok \in BOOLEAN : s2c' \in Free(ok, Dot)
  BY DEF Open
<1>2. PICK r : r = s2c' OBVIOUS
<1>3. \E n \in Nat, d \in BOOLEAN : IsReply(r, ok, n, d)
  <2>1. Dot \in SUBSET BOOLEAN BY DEF Dot
  <2> QED BY <1>1, <1>2, <2>1, FreeFacts
<1>4. TypeOK'
  BY <1>0, <1>2, <1>3 DEF TypeOK, All, configuration, IsReply
<1>5. Bounds' BY <1>0 DEF Bounds, configuration
<1>6. Progress' BY <1>0 DEF Progress
<1>7. Deletion'
  BY <1>0, SameJudged DEF Deletion, configuration
<1>8. OwnHeader' BY <1>0, SameJudged
<1>9. Stream'
  <2>1. Single(r) BY <1>3, ReplyAlone
  <2> QED BY <1>0, <1>2, <2>1 DEF Stream
<1> QED BY <1>4, <1>5, <1>6, <1>7, <1>8, <1>9

\* Steps after which the client reads nothing any more and examines nothing.
LEMMA LeaveStep ==
    ASSUME Core, UNCHANGED <<configuration, msg, num_messages, judged>>,
           UNCHANGED <<c2s, server, marked, mailbox>>,
           pc' \in {"close", "QUIT", "done", "killed"}, ~waiting', waiting' \in BOOLEAN,
           pc \in {"close", "done", "killed"} => pc' # "QUIT",
           input' \in Seq(Segment), size' \in Nat, msg_ids' \subseteq Body,
           messages' \in Nat, mailbox_status' \in Nat, result' \in {"none", "ok", "error"},
           s2c' = s2c \/ s2c' = <<>> \/ \E k \in 1..Len(s2c) : Receive(k),
           \/ peer' = peer
           \/ peer' \in {"fin", "err", "rst"} /\ peer # "up" /\ pc \notin {"close", "done", "killed"}
    PROVE  Core'
<1> USE DEF Core
<1>0. s2c' \in Seq(Segment)
  <2>1. CASE s2c' = s2c BY <2>1 DEF TypeOK
  <2>2. CASE s2c' = <<>> BY <2>2
  <2>3. CASE \E k \in 1..Len(s2c) : Receive(k) BY <2>3, ReadFacts
  <2> QED BY <2>1, <2>2, <2>3
<1>1. TypeOK'
  <2>2. peer' \in {"up", "fin", "err", "rst"} BY DEF TypeOK
  <2>3. cfg' = cfg /\ drop' = drop /\ All' = All BY DEF configuration, All
  <2>4. pc' \in {"open", "greeting", "USER", "PASS", "APOP", "STAT1", "STAT2", "LIST",
                 "TOP", "DELE", "STAT3", "QUIT", "close"} \union Gone
    BY DEF Gone
  <2>5. judged' = judged /\ c2s' = c2s /\ server' = server /\ marked' = marked
        /\ mailbox' = mailbox /\ msg' = msg /\ num_messages' = num_messages
    OBVIOUS
  <2> QED BY <1>0, <2>2, <2>3, <2>4, <2>5 DEF TypeOK
<1>2. Bounds' BY DEF Bounds, configuration
<1>3. Progress' BY DEF Progress
<1>4. Deletion' BY SameJudged DEF Deletion, configuration
<1>5. OwnHeader' BY SameJudged
<1>6. Stream' BY DEF Stream
<1> QED BY <1>1, <1>2, <1>3, <1>4, <1>5, <1>6

\* Socket::c_open fails: Account::check returns.
LEMMA OpenFailsStep ==
    ASSUME Core, OpenFails PROVE Core'
<1>1. /\ pc = "open" /\ pc' = "done" /\ waiting' = FALSE /\ result' = "error"
      /\ UNCHANGED <<configuration, msg, num_messages, size, input, msg_ids, messages,
                     mailbox_status, judged, c2s, s2c, peer, server, marked, mailbox>>
  BY DEF OpenFails, Goto, connVars, serverVars
<1>2. TypeOK BY DEF Core
<1> QED BY <1>1, <1>2, LeaveStep DEF TypeOK

\* Fail leads to the logout or to the end of the session.
LEMMA FailFacts ==
    ASSUME TypeOK, Fail
    PROVE  /\ pc' \in {"close", "QUIT"} /\ ~waiting' /\ waiting' \in BOOLEAN
           /\ result' \in {"none", "ok", "error"}
BY DEF Fail, Goto

\* c_write fails: Account::check gives up.
LEMMA AskFailsStep ==
    ASSUME Core, AskFails PROVE Core'
<1>1. /\ pc \in Asking /\ Fail /\ peer = "err" /\ peer' = "rst"
      /\ UNCHANGED <<configuration, msg, num_messages, size, input, msg_ids, messages,
                     mailbox_status, judged, c2s, s2c, server, marked, mailbox>>
  BY DEF AskFails, NotWritten, serverVars
<1>2. pc \notin {"open", "close", "done", "killed"} BY <1>1 DEF Asking
<1>3. TypeOK BY DEF Core
<1> QED BY <1>1, <1>2, <1>3, FailFacts, LeaveStep DEF TypeOK

\* The process ends without a word to the server, ...
LEMMA ExitStep ==
    ASSUME Core, Exit, pc \notin Gone,
           UNCHANGED <<configuration, msg, num_messages, size, input, msg_ids,
                       messages, mailbox_status, result, judged, c2s, peer, serverVars>>
    PROVE  Core'
<1>1. pc' = "killed" /\ waiting' = FALSE /\ s2c' = <<>> BY DEF Exit, Goto
<1>2. TypeOK BY DEF Core
<1> QED BY <1>1, <1>2, LeaveStep DEF TypeOK, serverVars
\* ... by SIGPIPE in c_write,
LEMMA SigPipeStep ==
    ASSUME Core, SigPipe PROVE Core'
BY ExitStep DEF SigPipe, Asking, Gone

\* ... by ^C,
LEMMA SigIntStep ==
    ASSUME Core, SigInt PROVE Core'
BY ExitStep DEF SigInt

\* ... or by rfcerror in the parser.
LEMMA ParserExitsStep ==
    ASSUME Core, ParserExits PROVE Core'
BY ExitStep DEF ParserExits, EndHeader, Gone

\* POP3::scan returns -1.
LEMMA ScanFailsStep ==
    ASSUME Core, ScanFails PROVE Core'
<1>1. /\ pc = "TOP" /\ Fail /\ input' = <<>>
      /\ UNCHANGED <<configuration, msg, num_messages, size, msg_ids, messages,
                     mailbox_status, judged, connVars, serverVars>>
  BY DEF ScanFails, EndHeader
<1>2. TypeOK BY DEF Core
<1>3. input' \in Seq(Segment) BY <1>1
<1> QED BY <1>1, <1>2, <1>3, FailFacts, LeaveStep DEF TypeOK, connVars, serverVars

\* select times out.
LEMMA ReadTimeoutStep ==
    ASSUME Core, ReadTimeout PROVE Core'
<1>1. /\ waiting /\ Fail
      /\ UNCHANGED <<configuration, msg, num_messages, size, input, msg_ids, messages,
                     mailbox_status, judged, connVars, serverVars>>
  BY DEF ReadTimeout
<1>2. TypeOK /\ Progress BY DEF Core
<1>3. pc \notin {"open", "close", "done", "killed"} BY <1>1, <1>2 DEF Progress
<1> QED BY <1>1, <1>2, <1>3, FailFacts, LeaveStep DEF TypeOK, connVars, serverVars

\* SSL_read fails.
LEMMA SslFailsStep ==
    ASSUME Core, SslFails PROVE Core'
<1>1. /\ waiting /\ Fail /\ input' = <<>> /\ s2c' = <<>>
      /\ peer' = peer \/ (peer # "up" /\ peer' = "rst")
      /\ UNCHANGED <<configuration, msg, num_messages, size, msg_ids, messages,
                     mailbox_status, judged, c2s, server, marked, mailbox>>
  BY DEF SslFails, serverVars
<1>2. TypeOK /\ Progress BY DEF Core
<1>3. pc \notin {"open", "close", "done", "killed"} BY <1>1, <1>2 DEF Progress
<1>4. input' \in Seq(Segment) BY <1>1
<1> QED BY <1>1, <1>2, <1>3, <1>4, FailFacts, LeaveStep DEF TypeOK

\* The return of Account::check.
LEMMA CloseStep ==
    ASSUME Core, Close PROVE Core'
<1>1. /\ pc = "close" /\ pc' = "done" /\ waiting' = FALSE /\ s2c' = <<>>
      /\ result' = IF result = "none" THEN "ok" ELSE result
      /\ UNCHANGED <<configuration, msg, num_messages, size, input, msg_ids, messages,
                     mailbox_status, judged, c2s, peer, server, marked, mailbox>>
  BY DEF Close, Goto, serverVars
<1>2. TypeOK BY DEF Core
<1>3. result' \in {"none", "ok", "error"} BY <1>1, <1>2 DEF TypeOK
<1> QED BY <1>1, <1>2, <1>3, LeaveStep DEF TypeOK
\* POP3::logout: from now on a QUIT may be under way.
LEMMA LogoutStep ==
    ASSUME Core, Logout PROVE Core'
<1>1. /\ pc = "QUIT" /\ pc' \in {"close", "done"} /\ waiting' = FALSE
      /\ UNCHANGED <<configuration, msg, num_messages, size, input, msg_ids, messages,
                     mailbox_status, judged, s2c, server, marked, mailbox>>
      /\ result' \in {result, "error"}
      /\ \/ peer = "up" /\ peer' = peer /\ c2s' = Append(c2s, Cmd("QUIT", 0))
         \/ peer # "up" /\ peer' \in {"fin", "rst"} /\ c2s' = c2s
  BY DEF Logout, Goto, Written, NotWritten, serverVars
<1>2. TypeOK /\ Bounds /\ Progress /\ Deletion /\ OwnHeader /\ Stream BY DEF Core
<1>3. result' \in {"none", "ok", "error"} BY <1>1, <1>2 DEF TypeOK
<1>4. CASE c2s' = c2s
  BY <1>1, <1>2, <1>3, <1>4, LeaveStep DEF TypeOK
<1>5. CASE peer' = peer /\ c2s' = Append(c2s, Cmd("QUIT", 0))
  <2>1. c2s \in Seq(Command) /\ Cmd("QUIT", 0) \in Command
    BY <1>2 DEF TypeOK, Cmd, Command, Verb
  <2>2. /\ c2s' \in Seq(Command) /\ Len(c2s') = Len(c2s) + 1 /\ DOMAIN c2s' = 1..(Len(c2s) + 1)
        /\ Len(c2s) \in Nat /\ DOMAIN c2s = 1..Len(c2s)
        /\ \A i \in 1..Len(c2s) : c2s'[i] = c2s[i]
        /\ c2s'[Len(c2s) + 1] = Cmd("QUIT", 0)
    BY <1>5, <2>1, AppendProperties
  <2>3. TypeOK'
    <3>1. cfg' = cfg /\ drop' = drop /\ All' = All BY <1>1 DEF configuration, All
    <3>2. pc' \in {"open", "greeting", "USER", "PASS", "APOP", "STAT1", "STAT2", "LIST",
                   "TOP", "DELE", "STAT3", "QUIT", "close"} \union Gone
      BY <1>1 DEF Gone
    <3> QED BY <1>1, <1>2, <1>3, <1>5, <2>2, <3>1, <3>2 DEF TypeOK
  <2>4. Bounds' BY <1>1, <1>2 DEF Bounds, configuration
  <2>5. Progress' BY <1>1, <1>2 DEF Progress
  <2>6. Deletion'
    <3>1. Doomed' = Doomed /\ All' = All BY <1>1, <1>2, SameJudged
    <3>2. \A k \in DOMAIN c2s' : c2s'[k].verb = "DELE" => c2s'[k].no \in Doomed
      <4> TAKE k \in DOMAIN c2s'
      <4>1. CASE k = Len(c2s) + 1 BY <2>2, <4>1 DEF Cmd
      <4>2. CASE k \in 1..Len(c2s) BY <1>2, <2>2, <4>2 DEF Deletion
      <4> QED BY <2>2, <4>1, <4>2
    <3> QED BY <1>1, <1>2, <1>5, <3>1, <3>2 DEF Deletion
  <2>7. OwnHeader' BY <1>1, <1>2, SameJudged
  <2>8. Stream' BY <1>1 DEF Stream
  <2> QED BY <2>3, <2>4, <2>5, <2>6, <2>7, <2>8 DEF Core
<1> QED BY <1>1, <1>4, <1>5

----------------------------------------------------------------------------
\* Steps that read a reply and go on.
LEMMA ReadOnStep ==
    ASSUME Core, NEW k \in 1..Len(s2c), Receive(k),
           UNCHANGED <<configuration, input, msg_ids, judged, c2s, peer, serverVars>>,
           pc # "TOP", waiting' = FALSE,
           pc' \in {"USER", "PASS", "APOP", "STAT1", "STAT2", "LIST", "TOP", "STAT3", "QUIT"},
           msg' \in Nat, num_messages' \in Nat, size' \in Nat,
           messages' \in Nat, mailbox_status' \in Nat, result' = result,
           num_messages' <= Len(drop),
           pc' \in {"LIST", "TOP"} => /\ 1 <= msg' /\ msg' <= num_messages'
                                      /\ Len(judged) = msg' - 1,
           pc' \in {"USER", "PASS", "APOP", "STAT1", "STAT2"} => judged = <<>>,
           Stream'
    PROVE  Core'
<1>0. TypeOK /\ Bounds /\ Progress /\ Deletion /\ OwnHeader BY DEF Core
<1>1. s2c' \in Seq(Segment) /\ waiting
  BY <1>0, ReadFacts
<1>2. cfg' = cfg /\ drop' = drop /\ All' = All /\ UNCHANGED <<server, marked, mailbox>>
  BY DEF configuration, All, serverVars
<1>3. TypeOK' BY <1>0, <1>1, <1>2 DEF TypeOK
<1>4. Bounds' BY <1>0, <1>1, <1>2 DEF Bounds
<1>5. pc \notin {"open", "DELE", "QUIT", "close", "done", "killed"} BY <1>0, <1>1 DEF Progress
<1>6. Progress' BY <1>0, <1>1, <1>5 DEF Progress
<1>7. Deletion' BY <1>0, <1>2, <1>5, SameJudged DEF Deletion
<1>8. OwnHeader' BY <1>0, SameJudged
<1> QED BY <1>3, <1>4, <1>6, <1>7, <1>8 DEF Core

\* Reading a positive reply settles one of the two answers that may be owed.
LEMMA ReadTwoOwed ==
    ASSUME TypeOK, TwoOwed, NEW k \in 1..Len(s2c), Receive(k), UNCHANGED c2s, s2c[1].ok
    PROVE  OneOwed'
<1>1. s2c \in Seq(Segment) /\ s2c # <<>> /\ ~Stuck(s2c) BY DEF TypeOK, Stuck
<1>2. PICK r : r = s2c' OBVIOUS
<1>3. r = SubSeq(s2c, k + 1, Len(s2c)) BY <1>2 DEF Receive
<1>4. CASE c2s = <<>> /\ AtMostTwo(s2c)
  <2>1. Stuck(r) \/ Single(r) BY <1>1, <1>3, <1>4, TwoSuffix
  <2> QED BY <1>2, <1>4, <2>1 DEF OneOwed
<1>5. CASE Len(c2s) = 1 /\ Short(c2s[1]) /\ Single(s2c)
  <2>1. r = <<>> \/ Stuck(r) BY <1>1, <1>3, <1>5, SingleSuffix
  <2> QED BY <1>2, <1>5, <2>1 DEF OneOwed
<1> QED BY <1>1, <1>4, <1>5 DEF TwoOwed

\* POP3::login and APOP::login read the greeting.
LEMMA ReadGreetingStep ==
    ASSUME Core, ReadGreeting PROVE Core'
<1>0. TypeOK /\ Bounds /\ Progress /\ Stream BY DEF Core
<1>1. PICK k \in 1..Len(s2c) :
        /\ Receive(k)
        /\ \/ pc' \in {"USER", "APOP"} /\ waiting' = FALSE /\ UNCHANGED result
           \/ Fail
  BY DEF ReadGreeting, Goto
<1>2. /\ pc = "greeting"
      /\ UNCHANGED <<configuration, msg, num_messages, size, input, msg_ids, messages,
                     mailbox_status, judged, c2s, peer, server, marked, mailbox>>
  BY DEF ReadGreeting, serverVars
<1>3. CASE Fail
  BY <1>0, <1>1, <1>2, <1>3, FailFacts, LeaveStep DEF TypeOK
<1>4. CASE pc' \in {"USER", "APOP"} /\ waiting' = FALSE /\ UNCHANGED result
  <2>1. c2s = <<>> /\ Single(s2c) /\ s2c \in Seq(Segment) BY <1>0, <1>2 DEF Stream, TypeOK
  <2>2. PICK r : r = s2c' OBVIOUS
  <2>3. r = SubSeq(s2c, k + 1, Len(s2c)) BY <1>1, <2>2 DEF Receive
  <2>4. r = <<>> \/ Stuck(r) BY <2>1, <2>3, SingleSuffix
  <2>5. Single(<<>>) BY DEF Single, NoLine
  <2>6. OneOwed' BY <1>2, <2>1, <2>2, <2>4, <2>5 DEF OneOwed
  <2>7. Stream' BY <1>4, <2>6 DEF Stream
  <2>8. judged = <<>> BY <1>0, <1>2 DEF Progress
  <2> QED BY <1>0, <1>1, <1>2, <1>4, <2>7, <2>8, ReadOnStep DEF TypeOK, Bounds, serverVars
<1> QED BY <1>1, <1>3, <1>4

\* They read the answers to USER, PASS and APOP.
LEMMA ReadLoginStep ==
    ASSUME Core, ReadLogin PROVE Core'
<1>0. TypeOK /\ Bounds /\ Progress /\ Stream BY DEF Core
<1>1. PICK k \in 1..Len(s2c) :
        /\ Receive(k)
        /\ \/ Positive(Received(k)) /\ pc' \in {"PASS", "STAT1"} /\ waiting' = FALSE /\ UNCHANGED result
           \/ Fail
  BY DEF ReadLogin, Goto
<1>2. /\ pc \in {"USER", "PASS", "APOP"}
      /\ UNCHANGED <<configuration, msg, num_messages, size, input, msg_ids, messages,
                     mailbox_status, judged, c2s, peer, server, marked, mailbox>>
  BY DEF ReadLogin, serverVars
<1>3. CASE Fail
  BY <1>0, <1>1, <1>2, <1>3, FailFacts, LeaveStep DEF TypeOK
<1>4. CASE Positive(Received(k)) /\ pc' \in {"PASS", "STAT1"} /\ waiting' = FALSE /\ UNCHANGED result
  <2>1. waiting /\ s2c[1].ok BY <1>0, <1>1, <1>4, ReadFacts DEF Positive
  <2>2. TwoOwed BY <1>0, <1>2, <2>1 DEF Stream
  <2>3. OneOwed' BY <1>0, <1>1, <1>2, <2>1, <2>2, ReadTwoOwed
  <2>4. Stream' BY <1>4, <2>3 DEF Stream
  <2>5. judged = <<>> BY <1>0, <1>2 DEF Progress
  <2> QED BY <1>0, <1>1, <1>2, <1>4, <2>4, <2>5, ReadOnStep DEF TypeOK, Bounds, serverVars
<1> QED BY <1>1, <1>3, <1>4

\* The first POP3::status,
LEMMA ReadStatusStep ==
    ASSUME Core, ReadStatus PROVE Core'
<1>0. TypeOK /\ Bounds /\ Progress /\ Stream BY DEF Core
<1>1. PICK k \in 1..Len(s2c) :
        /\ Receive(k)
        /\ \/ /\ Positive(Received(k)) /\ pc' = "STAT2" /\ waiting' = FALSE
              /\ messages' = SecondWord(Received(k)) /\ UNCHANGED result
           \/ Fail /\ UNCHANGED messages
  BY DEF ReadStatus, Goto
<1>2. /\ pc = "STAT1"
      /\ UNCHANGED <<configuration, msg, num_messages, size, input, msg_ids,
                     mailbox_status, judged, c2s, peer, server, marked, mailbox>>
  BY DEF ReadStatus, serverVars
<1>3. CASE Fail /\ UNCHANGED messages
  BY <1>0, <1>1, <1>2, <1>3, FailFacts, LeaveStep DEF TypeOK
<1>4. CASE /\ Positive(Received(k)) /\ pc' = "STAT2" /\ waiting' = FALSE
           /\ messages' = SecondWord(Received(k)) /\ UNCHANGED result
  <2>1. waiting /\ s2c[1].ok /\ messages' \in Nat
    BY <1>0, <1>1, <1>4, ReadFacts, LeftFacts DEF Positive
  <2>2. TwoOwed BY <1>0, <1>2, <2>1 DEF Stream
  <2>3. OneOwed' BY <1>0, <1>1, <1>2, <2>1, <2>2, ReadTwoOwed
  <2>4. Stream' BY <1>4, <2>3 DEF Stream
  <2>5. judged = <<>> BY <1>0, <1>2 DEF Progress
  <2> QED BY <1>0, <1>1, <1>2, <1>4, <2>1, <2>4, <2>5, ReadOnStep DEF TypeOK, Bounds, serverVars
<1> QED BY <1>1, <1>3, <1>4

\* ... the second, whose number bounds the scan,
LEMMA ReadCountStep ==
    ASSUME Core, Counts, ReadCount PROVE Core'
<1>0. TypeOK /\ Bounds /\ Progress /\ Stream BY DEF Core
<1>1. PICK k \in 1..Len(s2c) :
        /\ Receive(k)
        /\ \/ /\ Positive(Received(k)) /\ waiting' = FALSE
              /\ num_messages' = SecondWord(Received(k)) /\ msg' = 1
              /\ \/ num_messages' > 0 /\ pc' = "LIST"
                 \/ pc' \in {"STAT3", "QUIT"}
              /\ mailbox_status' \in {mailbox_status, mailbox_status + messages}
              /\ UNCHANGED result
           \/ Fail /\ UNCHANGED <<msg, num_messages, mailbox_status>>
  BY DEF ReadCount, Goto, EndScan
<1>2. /\ pc = "STAT2"
      /\ UNCHANGED <<configuration, size, input, msg_ids, messages,
                     judged, c2s, peer, server, marked, mailbox>>
  BY DEF ReadCount, serverVars
<1>3. CASE Fail /\ UNCHANGED <<msg, num_messages, mailbox_status>>
  BY <1>0, <1>1, <1>2, <1>3, FailFacts, LeaveStep DEF TypeOK
<1>4. CASE /\ Positive(Received(k)) /\ waiting' = FALSE
           /\ num_messages' = SecondWord(Received(k)) /\ msg' = 1
           /\ \/ num_messages' > 0 /\ pc' = "LIST"
              \/ pc' \in {"STAT3", "QUIT"}
           /\ mailbox_status' \in {mailbox_status, mailbox_status + messages}
           /\ UNCHANGED result
  <2>0. waiting /\ s2c # <<>> /\ s2c[1].ok /\ num_messages' \in Nat
    BY <1>0, <1>1, <1>4, ReadFacts DEF Positive
  <2>1. waiting /\ s2c[1].ok /\ num_messages' \in 0..Len(drop) /\ Len(drop) \in Nat
    <3>1. s2c \in Seq(Segment) /\ Len(drop) \in Nat BY <1>0, LeftFacts DEF TypeOK
    <3>2. 1 \in DOMAIN s2c BY <2>0, <3>1, LastElement
    <3>3. ~Stuck(s2c) BY <2>0 DEF Stuck
    <3>4. CountAt(s2c, 1) BY <1>2, <2>0, <3>2, <3>3 DEF Counts, Counting
    <3>5. SecondWord(Received(k)) <= Len(drop) BY <1>0, <1>1, <3>4, ReadFacts
    <3> QED BY <1>4, <2>0, <3>1, <3>5
  <2>2. TwoOwed BY <1>0, <1>2, <2>1 DEF Stream
  <2>3. OneOwed' BY <1>0, <1>1, <1>2, <2>1, <2>2, ReadTwoOwed
  <2>4. Stream' BY <1>4, <2>3 DEF Stream
  <2>5. judged = <<>> BY <1>0, <1>2 DEF Progress
  <2>6. mailbox_status' \in Nat BY <1>0, <1>4 DEF TypeOK
  <2>7. num_messages' \in Nat /\ num_messages' <= Len(drop) /\ msg' \in Nat /\ Len(judged) = msg' - 1
        /\ (pc' \in {"LIST", "TOP"} => 1 <= msg' /\ msg' <= num_messages')
    BY <1>4, <2>1, <2>5
  <2> QED BY <1>0, <1>1, <1>2, <1>4, <2>4, <2>5, <2>6, <2>7, ReadOnStep DEF TypeOK, serverVars
<1> QED BY <1>1, <1>3, <1>4

\* ... and the third.
LEMMA ReadRemainingStep ==
    ASSUME Core, ReadRemaining PROVE Core'
<1>0. TypeOK /\ Bounds /\ Progress /\ Stream BY DEF Core
<1>1. PICK k \in 1..Len(s2c) :
        /\ Receive(k)
        /\ \/ /\ pc' = "QUIT" /\ waiting' = FALSE
              /\ messages' = SecondWord(Received(k))
              /\ mailbox_status' = mailbox_status + messages' /\ UNCHANGED result
           \/ Fail /\ UNCHANGED <<messages, mailbox_status>>
  BY DEF ReadRemaining, Goto
<1>2. /\ pc = "STAT3"
      /\ UNCHANGED <<configuration, msg, num_messages, size, input, msg_ids,
                     judged, c2s, peer, server, marked, mailbox>>
  BY DEF ReadRemaining, serverVars
<1>3. CASE Fail /\ UNCHANGED <<messages, mailbox_status>>
  BY <1>0, <1>1, <1>2, <1>3, FailFacts, LeaveStep DEF TypeOK
<1>4. CASE /\ pc' = "QUIT" /\ waiting' = FALSE
           /\ messages' = SecondWord(Received(k))
           /\ mailbox_status' = mailbox_status + messages' /\ UNCHANGED result
  <2>1. messages' \in Nat BY <1>0, <1>1, <1>4, ReadFacts, LeftFacts
  <2>2. mailbox_status' \in Nat BY <1>0, <1>4, <2>1 DEF TypeOK
  <2>3. Stream' BY <1>4 DEF Stream
  <2> QED BY <1>0, <1>1, <1>2, <1>4, <2>1, <2>2, <2>3, ReadOnStep DEF TypeOK, Bounds, serverVars
<1> QED BY <1>1, <1>3, <1>4

\* POP3::scan reads the answer to LIST, or an older one in its place.
LEMMA ReadListStep ==
    ASSUME Core, ReadList PROVE Core'
<1>0. TypeOK /\ Bounds /\ Progress /\ Stream BY DEF Core
<1>1. PICK k \in 1..Len(s2c) :
        /\ Receive(k)
        /\ \/ /\ Positive(Received(k)) /\ pc' = "TOP" /\ waiting' = FALSE
              /\ size' = LastWord(Received(k)) /\ UNCHANGED result
           \/ Fail /\ UNCHANGED size
  BY DEF ReadList, Goto
<1>2. /\ pc = "LIST"
      /\ UNCHANGED <<configuration, msg, num_messages, input, msg_ids, messages,
                     mailbox_status, judged, c2s, peer, server, marked, mailbox>>
  BY DEF ReadList, serverVars
<1>3. CASE Fail /\ UNCHANGED size
  BY <1>0, <1>1, <1>2, <1>3, FailFacts, LeaveStep DEF TypeOK
<1>4. CASE /\ Positive(Received(k)) /\ pc' = "TOP" /\ waiting' = FALSE
           /\ size' = LastWord(Received(k)) /\ UNCHANGED result
  <2>1. waiting /\ s2c[1].ok /\ size' \in Nat /\ ~Stuck(s2c)
    BY <1>0, <1>1, <1>4, ReadFacts DEF Positive, Stuck
  <2>2. ListOwed BY <1>0, <1>2, <2>1 DEF Stream
  <2>3. PICK r : r = s2c' OBVIOUS
  <2>4. r = SubSeq(s2c, k + 1, Len(s2c)) /\ s2c \in Seq(Segment) /\ s2c # <<>>
    BY <1>0, <1>1, <2>3, ReadFacts DEF Receive, TypeOK
  <2>5. TopAhead'
    <3>1. CASE c2s = <<>> /\ AtMostTwo(s2c) /\ LaterQuiet(s2c)
      <4>1. Stuck(r) \/ (Single(r) /\ Quiet(r)) BY <2>4, <3>1, TwoSuffix
      <4> QED BY <1>2, <2>3, <3>1, <4>1 DEF TopAhead
    <3>2. CASE c2s = <<Cmd("LIST", msg)>> /\ Single(s2c)
      <4>1. r = <<>> \/ Stuck(r) BY <2>4, <3>2, SingleSuffix
      <4> QED BY <1>2, <2>3, <3>2, <4>1 DEF TopAhead
    <3> QED BY <2>1, <2>2, <2>4, <3>1, <3>2 DEF ListOwed
  <2>6. Stream' BY <1>4, <2>5 DEF Stream
  <2>7. 1 <= msg /\ msg <= num_messages /\ Len(judged) = msg - 1
    BY <1>0, <1>2 DEF Bounds, Progress
  <2> QED BY <1>0, <1>1, <1>2, <1>4, <2>1, <2>6, <2>7, ReadOnStep DEF TypeOK, Bounds, serverVars
<1> QED BY <1>1, <1>3, <1>4

\* c_read returns 0.
LEMMA ReadNothingStep ==
    ASSUME Core, ReadNothing PROVE Core'
<1>0. TypeOK /\ Bounds /\ Progress /\ Deletion /\ OwnHeader /\ Stream BY DEF Core
<1>1. /\ waiting /\ pc # "TOP"
      /\ UNCHANGED <<configuration, msg, num_messages, size, input, msg_ids, messages,
                     mailbox_status, judged, c2s, s2c, server, marked, mailbox>>
      /\ \/ pc = "greeting" /\ pc' = "USER" /\ waiting' = FALSE /\ UNCHANGED result
         \/ Fail
      /\ peer' = peer \/ (peer # "up" /\ peer' = "rst")
  BY DEF ReadNothing, Goto, serverVars
<1>2. pc \notin {"open", "close", "done", "killed"} BY <1>0, <1>1 DEF Progress
<1>3. CASE Fail
  BY <1>0, <1>1, <1>2, <1>3, FailFacts, LeaveStep DEF TypeOK
<1>4. CASE pc = "greeting" /\ pc' = "USER" /\ waiting' = FALSE /\ UNCHANGED result
  <2>1. c2s = <<>> /\ Single(s2c) BY <1>0, <1>4 DEF Stream
  <2>2. cfg' = cfg /\ drop' = drop /\ All' = All BY <1>1 DEF configuration, All
  <2>3. TypeOK'
    <3>1. peer' \in {"up", "fin", "err", "rst"} BY <1>0, <1>1 DEF TypeOK
    <3> QED BY <1>0, <1>1, <1>4, <2>2, <3>1 DEF TypeOK
  <2>4. Bounds' BY <1>0, <1>1, <1>4, <2>2 DEF Bounds
  <2>5. Progress' BY <1>0, <1>1, <1>4 DEF Progress
  <2>6. Deletion' BY <1>0, <1>1, <1>4, <2>1, <2>2, SameJudged DEF Deletion
  <2>7. OwnHeader' BY <1>0, <1>1, SameJudged
  <2>8. Stream'
    <3>1. OneOwed' BY <1>1, <2>1 DEF OneOwed, Single, NoLine
    <3> QED BY <1>4, <3>1 DEF Stream
  <2> QED BY <2>3, <2>4, <2>5, <2>6, <2>7, <2>8 DEF Core
<1> QED BY <1>1, <1>3, <1>4

\* c_read (true) appends to its input what it takes from the connection.
LEMMA ReadHeaderStep ==
    ASSUME Core, ReadHeader PROVE Core'
<1>0. TypeOK /\ Bounds /\ Progress /\ Deletion /\ OwnHeader /\ Stream BY DEF Core
<1>1. PICK k \in 1..Len(s2c) : Receive(k) /\ input' = input \o Received(k)
  BY DEF ReadHeader
<1>2. /\ pc = "TOP"
      /\ UNCHANGED <<configuration, pc, waiting, msg, num_messages, size, msg_ids,
                     messages, mailbox_status, result, judged, c2s, peer, server, marked, mailbox>>
  BY DEF ReadHeader, serverVars
<1>3. input \in Seq(Segment) /\ s2c \in Seq(Segment) BY <1>0 DEF TypeOK
<1>4. /\ waiting /\ Received(k) \in Seq(Segment) /\ s2c' \in Seq(Segment)
  BY <1>0, <1>1, ReadFacts
<1>5. input' \o s2c' = input \o s2c
  <2>1. PICK r, q : r = Received(k) /\ q = s2c' OBVIOUS
  <2>2. r \o q = s2c
    <3>1. r = SubSeq(s2c, 1, k) /\ q = SubSeq(s2c, k + 1, Len(s2c))
      BY <1>1, <2>1 DEF Received, Receive
    <3>2. 1 \in 1..(Len(s2c) + 1) /\ k \in (1 - 1)..Len(s2c) /\ Len(s2c) \in k..Len(s2c)
      BY <1>3
    <3>3. SubSeq(s2c, 1, k) \o SubSeq(s2c, k + 1, Len(s2c)) = SubSeq(s2c, 1, Len(s2c))
      BY <1>3, <3>2, ConcatAdjacentSubSeq
    <3>4. SubSeq(s2c, 1, Len(s2c)) = s2c BY <1>3, SubSeqFull
    <3> QED BY <3>1, <3>3, <3>4
  <2>3. (input \o r) \o q = input \o (r \o q)
    <3>1. r \in Seq(Segment) /\ q \in Seq(Segment) BY <1>4, <2>1
    <3>2. \A a, b, e \in Seq(Segment) : (a \o b) \o e = a \o (b \o e)
      BY ConcatAssociative, SMTT(60)
    <3> QED BY <1>3, <3>1, <3>2, Zenon
  <2> QED BY <1>1, <2>1, <2>2, <2>3
<1>6. input' \in Seq(Segment) BY <1>1, <1>3, <1>4, ConcatProperties
<1>7. cfg' = cfg /\ drop' = drop /\ All' = All BY <1>2 DEF configuration, All
<1>8. TypeOK' BY <1>0, <1>2, <1>4, <1>6, <1>7 DEF TypeOK
<1>9. Bounds' BY <1>0, <1>2, <1>7 DEF Bounds
<1>10. Progress' BY <1>0, <1>2, <1>4 DEF Progress
<1>11. Deletion' BY <1>0, <1>2, <1>7, SameJudged DEF Deletion
<1>12. OwnHeader' BY <1>0, <1>2, SameJudged
<1>13. Stream'
  <2>1. PICK t : t = input \o s2c OBVIOUS
  <2>2. TopOwed(t) BY <1>0, <1>2, <1>4, <2>1 DEF Stream
  <2>3. TopOwed(t)' BY <1>2, <1>7, <2>2 DEF TopOwed, HeaderAt, HeaderLine
  <2>4. TopOwed(input \o s2c)' BY <1>5, <2>1, <2>3
  <2> QED BY <1>2, <1>4, <2>4 DEF Stream
<1> QED BY <1>8, <1>9, <1>10, <1>11, <1>12, <1>13 DEF Core

----------------------------------------------------------------------------
\* Commands that are written or lost.
LEMMA CommandFacts ==
    ASSUME TypeOK, pc \in Asking \union {"DELE"}
    PROVE  /\ CommandAt(pc) \in Command
           /\ CommandAt(pc).verb # "QUIT" /\ (CommandAt(pc).verb = "TOP" <=> pc = "TOP")
           /\ CommandAt(pc).verb = "DELE" <=> pc = "DELE"
           /\ pc = "DELE" => CommandAt(pc).no = msg
           /\ pc = "LIST" => CommandAt(pc) = Cmd("LIST", msg)
           /\ pc = "TOP" => CommandAt(pc) = Cmd("TOP", msg)
BY DEF TypeOK, Asking, CommandAt, Cmd, Command, Verb

\* The elements of a sequence with one more.
LEMMA AppendFacts ==
    ASSUME NEW S, NEW s \in Seq(S), NEW e \in S
    PROVE  /\ Append(s, e) \in Seq(S) /\ Len(Append(s, e)) = Len(s) + 1 /\ Len(s) \in Nat
           /\ \A i \in DOMAIN Append(s, e) :
                 (i \in DOMAIN s /\ Append(s, e)[i] = s[i]) \/ (i = Len(s) + 1 /\ Append(s, e)[i] = e)
           /\ \A i \in DOMAIN s : Append(s, e)[i] = s[i]
           /\ Append(s, e)[Len(s) + 1] = e
<1>1. /\ Append(s, e) \in Seq(S) /\ Len(Append(s, e)) = Len(s) + 1
      /\ \A i \in 1..Len(s) : Append(s, e)[i] = s[i]
      /\ Append(s, e)[Len(s) + 1] = e
  BY AppendProperties
<1>2. Len(s) \in Nat /\ DOMAIN s = 1..Len(s) OBVIOUS
<1>3. DOMAIN Append(s, e) = 1..(Len(s) + 1) BY <1>1
<1>4. \A i \in 1..(Len(s) + 1) : i \in 1..Len(s) \/ i = Len(s) + 1 BY <1>2
<1> QED BY <1>1, <1>2, <1>3, <1>4

\* A command written behind what is owed already.
LEMMA AskStream ==
    ASSUME TypeOK, Deletion, Progress, Stream, pc \in Asking, ~waiting, Written(CommandAt(pc)),
           UNCHANGED <<configuration, msg, pc, s2c, input>>, waiting' = TRUE
    PROVE  Stream'
<1>1. PICK c \in Command : c = CommandAt(pc) BY CommandFacts
<1>2. PICK s \in Seq(Command) : s = c2s BY DEF TypeOK
<1>3. PICK n : n = c2s' OBVIOUS
<1>4. n = Append(s, c) \/ (s = <<>> /\ n = <<>>)
  <2>1. pc \notin {"close", "done", "killed"} BY DEF Asking
  <2> QED BY <1>1, <1>2, <1>3, <2>1 DEF Written, Deletion
<1>5. /\ s = <<>> => n = <<>> \/ n = <<c>>
      /\ Len(s) = 1 => Len(n) = 2 /\ n[1] = s[1] /\ n[2] = c
  <2>1. CASE n = Append(s, c)
    <3>1. s = <<>> => n = <<c>> BY <2>1
    <3>2. Len(s) = 1 => Len(n) = 2 /\ n[1] = s[1] /\ n[2] = c
      BY <2>1, <1>2, AppendFacts
    <3> QED BY <3>1, <3>2
  <2>2. CASE s = <<>> /\ n = <<>> BY <2>2
  <2> QED BY <1>4, <2>1, <2>2
<1>6. Single(s2c) => AtMostTwo(s2c) /\ LaterQuiet(s2c)
  <2>1. s2c \in Seq(Segment) /\ DOMAIN s2c \subseteq Nat BY DEF TypeOK
  <2> QED BY <2>1 DEF Single, AtMostTwo, LaterQuiet, Starts
<1>7. s2c' = s2c /\ pc' = pc /\ msg' = msg /\ input' = input /\ cfg' = cfg /\ drop' = drop
  BY DEF configuration
<1>8. CASE pc \in {"USER", "PASS", "APOP", "STAT1", "STAT2"}
  <2>1. Short(c) BY <1>1, <1>8, CommandFacts DEF Short
  <2>2. OneOwed BY <1>8 DEF Stream
  <2>3. Stuck(s2c) \/ (s = <<>> /\ Single(s2c)) \/ (s2c = <<>> /\ Len(s) = 1 /\ Short(s[1]))
    BY <1>2, <2>2 DEF OneOwed
  <2>4. \/ Stuck(s2c)
        \/ n = <<>> /\ AtMostTwo(s2c)
        \/ Len(n) = 1 /\ Short(n[1]) /\ Single(s2c)
        \/ Len(n) = 2 /\ Short(n[1]) /\ Short(n[2]) /\ s2c = <<>>
    BY <1>5, <1>6, <2>1, <2>3
  <2>5. TwoOwed' BY <1>3, <1>7, <2>4 DEF TwoOwed
  <2> QED BY <1>7, <1>8, <2>5 DEF Stream
<1>9. CASE pc = "LIST"
  <2>1. c = Cmd("LIST", msg) BY <1>1, <1>9, CommandFacts DEF Asking
  <2>2. OneOwed BY <1>9 DEF Stream
  <2>3. Stuck(s2c) \/ (s = <<>> /\ Single(s2c)) \/ (s2c = <<>> /\ Len(s) = 1 /\ Short(s[1]))
    BY <1>2, <2>2 DEF OneOwed
  <2>4. \/ Stuck(s2c)
        \/ n = <<>> /\ AtMostTwo(s2c) /\ LaterQuiet(s2c)
        \/ n = <<Cmd("LIST", msg)>> /\ Single(s2c)
        \/ Len(n) = 2 /\ Short(n[1]) /\ n[2] = Cmd("LIST", msg) /\ s2c = <<>>
    BY <1>5, <1>6, <2>1, <2>3
  <2>5. ListOwed' BY <1>3, <1>7, <2>4 DEF ListOwed
  <2> QED BY <1>7, <1>9, <2>5 DEF Stream
<1>10. CASE pc = "TOP"
  <2>1. c = Cmd("TOP", msg) BY <1>1, <1>10, CommandFacts DEF Asking
  <2>2. TopAhead /\ input = <<>> BY <1>10 DEF Stream, Progress
  <2>3. s2c \in Seq(Segment) BY DEF TypeOK
  <2>4. input \o s2c = s2c BY <2>2, <2>3, ConcatEmptySeq
  <2>5. \/ Stuck(s2c) \/ (s = <<>> /\ Single(s2c) /\ Quiet(s2c))
        \/ (s2c = <<>> /\ s = <<Cmd("LIST", msg)>>)
    BY <1>2, <2>2 DEF TopAhead
  <2>6. CASE Stuck(s2c)
    <3>1. TopOwed(s2c)' BY <1>7, <2>6 DEF TopOwed
    <3> QED BY <1>7, <1>10, <2>4, <3>1 DEF Stream
  <2>7. CASE s = <<>> /\ Single(s2c) /\ Quiet(s2c)
    <3>1. CASE n = <<c>>
      <4>1. TopOwed(s2c)' BY <1>3, <1>7, <2>1, <2>7, <3>1 DEF TopOwed
      <4> QED BY <1>7, <1>10, <2>4, <4>1 DEF Stream
    <3>2. CASE n = <<>>
      <4>1. \A k \in 1..(Len(s2c) - 1) : ~s2c[k].dot BY <2>3, <2>7 DEF Quiet
      <4>2. \E o, m \in 0..Len(s2c) : HeaderAt(s2c, o, m)
        BY <2>3, <2>7, <4>1, NoHeaderYet DEF Single
      <4>3. (\E o, m \in 0..Len(s2c) : HeaderAt(s2c, o, m))'
        BY <1>7, <4>2 DEF HeaderAt, HeaderLine, All
      <4>4. TopOwed(s2c)' BY <1>3, <3>2, <4>3 DEF TopOwed
      <4> QED BY <1>7, <1>10, <2>4, <4>4 DEF Stream
    <3> QED BY <1>5, <2>7, <3>1, <3>2
  <2>8. CASE s2c = <<>> /\ s = <<Cmd("LIST", msg)>>
    <3>1. n = <<Cmd("LIST", msg), Cmd("TOP", msg)>>
      BY <1>4, <2>1, <2>8
    <3>2. TopOwed(s2c)' BY <1>3, <1>7, <2>8, <3>1 DEF TopOwed
    <3> QED BY <1>7, <1>10, <2>4, <3>2 DEF Stream
  <2> QED BY <2>5, <2>6, <2>7, <2>8
<1>11. CASE pc = "STAT3" BY <1>7, <1>11 DEF Stream
<1> QED BY <1>8, <1>9, <1>10, <1>11 DEF Asking

\* c_write of a command whose answer is read.
LEMMA AskStep ==
    ASSUME Core, Ask PROVE Core'
<1>0. TypeOK /\ Bounds /\ Progress /\ Deletion /\ OwnHeader /\ Stream BY DEF Core
<1>1. /\ pc \in Asking /\ ~waiting /\ waiting' = TRUE /\ Written(CommandAt(pc))
      /\ UNCHANGED <<configuration, pc, msg, num_messages, size, input, msg_ids, messages,
                     mailbox_status, result, judged, s2c, server, marked, mailbox>>
  BY DEF Ask, Goto, serverVars
<1>2. PICK c \in Command : c = CommandAt(pc) /\ c.verb \notin {"QUIT", "DELE"}
  BY <1>0, <1>1, CommandFacts DEF Asking
<1>3. cfg' = cfg /\ drop' = drop /\ All' = All BY <1>1 DEF configuration, All
<1>4. /\ (peer = "up" /\ peer' = peer /\ c2s' = Append(c2s, c))
         \/ (peer # "up" /\ peer' \in {"fin", "rst"} /\ c2s' = c2s)
  BY <1>1, <1>2 DEF Written
<1>5. c2s \in Seq(Command) BY <1>0 DEF TypeOK
<1>6. /\ c2s' \in Seq(Command)
      /\ \A i \in DOMAIN c2s' : (i \in DOMAIN c2s /\ c2s'[i] = c2s[i]) \/ c2s'[i] = c
  BY <1>4, <1>5, AppendFacts
<1>7. TypeOK'
  <2>1. peer' \in {"up", "fin", "err", "rst"} BY <1>0, <1>4 DEF TypeOK
  <2> QED BY <1>0, <1>1, <1>3, <1>6, <2>1 DEF TypeOK
<1>8. Bounds' BY <1>0, <1>1, <1>3 DEF Bounds
<1>9. pc \notin {"open", "greeting", "DELE", "QUIT", "close", "done", "killed"}
  BY <1>1 DEF Asking
<1>10. Progress' BY <1>0, <1>1, <1>9 DEF Progress
<1>11. Deletion'
  <2>1. Doomed' = Doomed BY <1>0, <1>1, SameJudged
  <2>2. \A k \in DOMAIN c2s' : /\ c2s'[k].verb = "DELE" => c2s'[k].no \in Doomed
                               /\ c2s'[k].verb # "QUIT"
    BY <1>0, <1>2, <1>6, <1>9 DEF Deletion
  <2>3. server \in {"auth", "trans"} => peer' = "up" BY <1>0, <1>4 DEF Deletion
  <2>4. peer' # "up" => c2s' = <<>> BY <1>0, <1>4, <1>9 DEF Deletion
  <2> QED BY <1>0, <1>1, <1>3, <1>9, <2>1, <2>2, <2>3, <2>4 DEF Deletion
<1>12. OwnHeader' BY <1>0, <1>1, SameJudged
<1>13. Stream' BY <1>0, <1>1, AskStream
<1> QED BY <1>7, <1>8, <1>10, <1>11, <1>12, <1>13 DEF Core

\* What NextMessage does, whatever precedes it.
LEMMA NextMessageFacts ==
    ASSUME TypeOK, Bounds, pc \in {"TOP", "DELE"}, NextMessage
    PROVE  /\ pc' \in {"LIST", "STAT3", "QUIT"} /\ waiting' = FALSE
           /\ msg' = msg + 1 /\ msg' \in Nat
           /\ pc' = "LIST" => msg' <= num_messages
           /\ mailbox_status' \in Nat
BY DEF TypeOK, Bounds, NextMessage, EndScan, Goto

\* POP3::remove_msg: only a message that is_weed condemned is named in a DELE.
LEMMA RemoveMsgStep ==
    ASSUME Core, RemoveMsg PROVE Core'
<1>0. TypeOK /\ Bounds /\ Progress /\ Deletion /\ OwnHeader /\ Stream BY DEF Core
<1>1. /\ pc = "DELE" /\ NextMessage
      /\ UNCHANGED <<configuration, num_messages, size, input, msg_ids, messages,
                     result, judged, s2c, server, marked, mailbox>>
  BY DEF RemoveMsg, serverVars
<1>2. PICK c \in Command : c = CommandAt("DELE") /\ c.verb = "DELE" /\ c.no = msg
  BY <1>0, <1>1, CommandFacts
<1>3. cfg' = cfg /\ drop' = drop /\ All' = All BY <1>1 DEF configuration, All
<1>4. /\ \/ peer = "up" /\ peer' = peer /\ c2s' = Append(c2s, c) /\ ~cfg.test_mode
         \/ (peer # "up" /\ peer' \in {"fin", "rst"} /\ c2s' = c2s)
         \/ (peer' = peer /\ c2s' = c2s)
  BY <1>2 DEF RemoveMsg, Written, NotWritten
<1>5. c2s \in Seq(Command) BY <1>0 DEF TypeOK
<1>6. /\ c2s' \in Seq(Command)
      /\ \A i \in DOMAIN c2s' : \/ i \in DOMAIN c2s /\ c2s'[i] = c2s[i]
                                \/ c2s'[i] = c /\ ~cfg.test_mode
  BY <1>4, <1>5, AppendFacts
<1>7. /\ pc' \in {"LIST", "STAT3", "QUIT"} /\ waiting' = FALSE
      /\ msg' = msg + 1 /\ msg' \in Nat
      /\ pc' = "LIST" => msg' <= num_messages
      /\ mailbox_status' \in Nat
  BY <1>0, <1>1, NextMessageFacts
<1>8. /\ 1 <= msg /\ msg \in Nat /\ Len(judged) = msg /\ judged[msg].weed = 1
      /\ DOMAIN judged = 1..Len(judged)
  <2>1. judged \in Seq([header : Header, weed : {0, 1}]) /\ msg \in Nat BY <1>0 DEF TypeOK
  <2> QED BY <1>0, <1>1, <2>1 DEF Bounds, Progress
<1>9. TypeOK'
  <2>1. peer' \in {"up", "fin", "err", "rst"} BY <1>0, <1>4 DEF TypeOK
  <2> QED BY <1>0, <1>1, <1>3, <1>6, <1>7, <2>1 DEF TypeOK
<1>10. Bounds' BY <1>0, <1>1, <1>3, <1>7, <1>8 DEF Bounds
<1>11. Progress' BY <1>0, <1>1, <1>7, <1>8 DEF Progress
<1>12. Deletion'
  <2>1. Doomed' = Doomed BY <1>0, <1>1, SameJudged
  <2>2. ~cfg.test_mode => msg \in Doomed BY <1>8 DEF Doomed, Condemned
  <2>3. \A k \in DOMAIN c2s' : /\ c2s'[k].verb = "DELE" => c2s'[k].no \in Doomed
                               /\ c2s'[k].verb # "QUIT"
    BY <1>0, <1>1, <1>2, <1>6, <2>2 DEF Deletion
  <2>4. server \in {"auth", "trans"} => peer' = "up" BY <1>0, <1>4 DEF Deletion
  <2>5. peer' # "up" => c2s' = <<>> BY <1>0, <1>1, <1>4 DEF Deletion
  <2> QED BY <1>0, <1>1, <1>3, <1>7, <2>1, <2>3, <2>4, <2>5 DEF Deletion
<1>13. OwnHeader' BY <1>0, <1>1, SameJudged
<1>14. Stream'
  <2>1. Stuck(s2c) \/ (c2s = <<>> /\ s2c = <<>>) BY <1>0, <1>1 DEF Stream
  <2>2. CASE Stuck(s2c)
    <3>1. OneOwed' BY <1>1, <2>2 DEF OneOwed
    <3> QED BY <1>7, <3>1 DEF Stream
  <2>3. CASE c2s = <<>> /\ s2c = <<>>
    <3>1. c2s' = <<>> \/ c2s' = <<c>> BY <1>4, <2>3
    <3>2. OneOwed' BY <1>1, <1>2, <2>3, <3>1 DEF OneOwed, Single, NoLine, Short
    <3> QED BY <1>7, <3>2 DEF Stream
  <2> QED BY <2>1, <2>2, <2>3
<1> QED BY <1>9, <1>10, <1>11, <1>12, <1>13, <1>14 DEF Core

\* Weeder::is_weed judges message msg by a beginning of message msg's header.
LEMMA WeedStep ==
    ASSUME Core, Weed PROVE Core'
<1>0. TypeOK /\ Bounds /\ Progress /\ Deletion /\ OwnHeader /\ Stream BY DEF Core
<1>1. PICK h, w : h = [entries |-> Parsed, size |-> size] /\ w = is_weed(cfg.prefs, msg_ids, h)
  OBVIOUS
<1>2. /\ EndHeader /\ Positive(input) /\ pc = "TOP" /\ input' = <<>>
      /\ judged' = Append(judged, [header |-> h, weed |-> w])
      /\ msg_ids' = Remember(cfg.prefs, msg_ids, h)
      /\ \/ w = 1 /\ pc' = "DELE" /\ waiting' = FALSE /\ UNCHANGED <<msg, mailbox_status>>
         \/ w # 1 /\ NextMessage
      /\ UNCHANGED <<configuration, num_messages, size, messages, result,
                     c2s, s2c, peer, server, marked, mailbox>>
  BY <1>1 DEF Weed, EndHeader, Goto, connVars, serverVars
<1>3. /\ pc' \in {"LIST", "STAT3", "QUIT", "DELE"} /\ waiting' = FALSE
      /\ pc' = "DELE" => w = 1 /\ msg' = msg
      /\ pc' # "DELE" => msg' = msg + 1
      /\ pc' = "LIST" => msg' <= num_messages
      /\ msg' \in Nat /\ mailbox_status' \in Nat
  <2>1. CASE w = 1 /\ pc' = "DELE" /\ waiting' = FALSE /\ UNCHANGED <<msg, mailbox_status>>
    BY <1>0, <2>1 DEF TypeOK
  <2>2. CASE w # 1 /\ NextMessage
    BY <1>0, <1>2, <2>2, NextMessageFacts
  <2> QED BY <1>2, <2>1, <2>2
<1>4. Parsed \in Seq(Entry) /\ Parsed = SubSeq(drop[msg].entries, 1, Len(Parsed))
  BY <1>2, ParsedFacts
<1>5. h \in Header /\ h.entries = Parsed BY <1>0, <1>1, <1>4 DEF Header, TypeOK
<1>6. PICK e : e = [header |-> h, weed |-> w] OBVIOUS
<1>7. e \in [header : Header, weed : {0, 1}] /\ e.header = h /\ e.weed = w
  BY <1>1, <1>5, <1>6, is_weedType
<1>8. judged \in Seq([header : Header, weed : {0, 1}]) /\ msg \in Nat BY <1>0 DEF TypeOK
<1>9. /\ judged' \in Seq([header : Header, weed : {0, 1}])
      /\ Len(judged') = msg /\ Len(judged) = msg - 1
      /\ \A i \in DOMAIN judged' :
            (i \in DOMAIN judged /\ judged'[i] = judged[i]) \/ (i = msg /\ judged'[i] = e)
      /\ \A i \in DOMAIN judged : i \in DOMAIN judged' /\ judged'[i] = judged[i]
      /\ judged'[msg] = e
  <2>1. judged' = Append(judged, e) BY <1>2, <1>6
  <2>2. Len(judged) = msg - 1 BY <1>0, <1>2 DEF Progress
  <2>3. /\ judged' \in Seq([header : Header, weed : {0, 1}]) /\ Len(judged') = Len(judged) + 1
        /\ Len(judged) \in Nat
        /\ \A i \in DOMAIN judged' :
              (i \in DOMAIN judged /\ judged'[i] = judged[i]) \/ (i = Len(judged) + 1 /\ judged'[i] = e)
        /\ \A i \in DOMAIN judged : judged'[i] = judged[i]
        /\ judged'[Len(judged) + 1] = e
    BY <1>7, <1>8, <2>1, AppendFacts
  <2>4. Len(judged) + 1 = msg BY <1>8, <2>2
  <2>5. \A i \in DOMAIN judged : i \in DOMAIN judged' BY <1>8, <2>3
  <2> QED BY <2>2, <2>3, <2>4, <2>5
<1>10. cfg' = cfg /\ drop' = drop /\ All' = All BY <1>2 DEF configuration, All
<1>11. TypeOK'
  <2>1. msg_ids' \subseteq Body
    BY <1>0, <1>2, <1>5, IDType DEF TypeOK, Remember
  <2>2. <<>> \in Seq(Segment) OBVIOUS
  <2>3. pc' \in {"LIST", "STAT3", "QUIT", "DELE"} /\ waiting' = FALSE /\ msg' \in Nat
        /\ mailbox_status' \in Nat
    BY <1>3
  <2> QED BY <1>0, <1>2, <1>9, <1>10, <2>1, <2>2, <2>3 DEF TypeOK
<1>12. Bounds' BY <1>0, <1>2, <1>3, <1>8, <1>10 DEF Bounds
<1>13. Progress'
  <2>1. judged'[msg].weed = w BY <1>7, <1>9
  <2> QED BY <1>2, <1>3, <1>8, <1>9, <2>1 DEF Progress
<1>14. Deletion'
  <2>1. Doomed \subseteq Doomed' BY <1>9, <1>10 DEF Doomed, Condemned
  <2>2. \A k \in DOMAIN c2s : /\ c2s[k].verb = "DELE" => c2s[k].no \in Doomed'
                              /\ c2s[k].verb # "QUIT"
    BY <1>0, <1>2, <2>1 DEF Deletion
  <2>3. marked \subseteq Doomed' /\ mailbox = All /\ (peer # "up" => c2s = <<>>)
    BY <1>0, <1>2, <2>1 DEF Deletion
  <2> QED BY <1>0, <1>2, <1>3, <1>10, <2>2, <2>3 DEF Deletion
<1>15. OwnHeader'
  <2>1. msg \in All BY <1>0, <1>2, MsgFacts
  <2>2. e.header.entries = SubSeq(drop[msg].entries, 1, Len(e.header.entries))
    BY <1>4, <1>5, <1>7
  <2> QED BY <1>0, <1>9, <1>10, <2>1, <2>2 DEF OwnHeader
<1>16. Stream'
  <2>1. c2s = <<>> /\ (s2c = <<>> \/ Stuck(s2c)) BY <1>2, EndHeaderFacts
  <2>2. OneOwed' BY <1>2, <2>1 DEF OneOwed, Single, NoLine
  <2> QED BY <1>2, <1>3, <2>1, <2>2 DEF Stream
<1> QED BY <1>11, <1>12, <1>13, <1>14, <1>15, <1>16 DEF Core

-----------------------------------------------------------------------------
\* Every action of the server and of the network preserves the invariant.

\* What the server answers to c.
IsAnswer(c, r) ==
    \/ \E n \in Nat, d \in BOOLEAN : IsReply(r, FALSE, n, d)
    \/ /\ c.verb # "TOP"
       /\ \E n \in Nat, d \in BOOLEAN : /\ IsReply(r, TRUE, n, d)
                                       /\ (c.verb = "STAT" => n <= Len(drop))
                                       /\ (c.verb = "LIST" => ~d)
    \/ c.verb = "TOP" /\ IsHeader(r, c.no)

\* Every answer is made of segments and comes to its end.
LEMMA AnswerType ==
    ASSUME NEW c, NEW r, IsAnswer(c, r)
    PROVE  /\ r \in Seq(Segment) /\ r # <<>> /\ Len(r) \in DOMAIN r /\ r[Len(r)].kind # "front"
           /\ \A k \in DOMAIN r : k > 1 => ~r[k].ok
<1>1. ASSUME NEW ok, NEW n, NEW d, IsReply(r, ok, n, d)
      PROVE  /\ r \in Seq(Segment) /\ r # <<>> /\ Len(r) \in DOMAIN r /\ r[Len(r)].kind # "front"
             /\ \A k \in DOMAIN r : k > 1 => ~r[k].ok
  <2>1. r \in Seq(Segment) /\ Len(r) \in {1, 2} BY <1>1 DEF IsReply
  <2>2. r # <<>> /\ DOMAIN r = 1..Len(r) /\ Len(r) \in 1..Len(r) BY <2>1
  <2> QED BY <1>1, <2>1, <2>2 DEF IsReply, Starts
<1>2. CASE IsHeader(r, c.no)
  <2>1. r \in Seq(Segment) /\ r # <<>> BY <1>2 DEF IsHeader
  <2>2. DOMAIN r = 1..Len(r) /\ Len(r) \in 1..Len(r) BY <2>1, LastElement
  <2> QED BY <1>2, <2>1, <2>2 DEF IsHeader
<1> QED BY <1>1, <1>2 DEF IsAnswer

\* Concatenation is associative.
LEMMA ConcatThree ==
    ASSUME NEW a \in Seq(Segment), NEW b \in Seq(Segment), NEW e \in Seq(Segment)
    PROVE  (a \o b) \o e = a \o (b \o e)
BY ConcatAssociative

\* The first command and the commands behind it.
LEMMA HeadFacts ==
    ASSUME NEW S, NEW s \in Seq(S), s # <<>>
    PROVE  /\ Head(s) = s[1] /\ Head(s) \in S /\ Tail(s) \in Seq(S)
           /\ Len(s) \in Nat \ {0} /\ Len(Tail(s)) = Len(s) - 1
           /\ \A i \in DOMAIN Tail(s) : i + 1 \in DOMAIN s /\ Tail(s)[i] = s[i + 1]
           /\ Len(s) = 1 => Tail(s) = <<>>
           /\ Len(s) = 2 => Len(Tail(s)) = 1 /\ Tail(s)[1] = s[2] /\ Tail(s) = <<s[2]>>
<1>1. Len(s) \in Nat \ {0} /\ DOMAIN s = 1..Len(s) /\ 1 \in DOMAIN s BY LastElement
<1>2. PICK t : t = Tail(s) OBVIOUS
<1>3. /\ Head(s) = s[1] /\ Head(s) \in S /\ t \in Seq(S)
      /\ Len(t) = Len(s) - 1 /\ \A i \in 1..Len(t) : t[i] = s[i + 1]
  BY <1>2, HeadTailProperties
<1>4. \A i \in DOMAIN t : i + 1 \in DOMAIN s /\ t[i] = s[i + 1] BY <1>1, <1>3
<1>5. Len(s) = 1 => t = <<>> BY <1>3, EmptySeq
<1>6. ASSUME Len(s) = 2 PROVE Len(t) = 1 /\ t[1] = s[2] /\ t = <<s[2]>>
  <2>1. Len(t) = 1 /\ 1 \in 1..Len(t) BY <1>3, <1>6
  <2>2. t[1] = s[1 + 1] BY <1>3, <2>1
  <2>3. s[2] \in S BY <1>1, <1>6, ElementOfSeq, SMTT(60)
  <2>4. <<s[2]>> \in Seq(S) /\ Len(<<s[2]>>) = 1 /\ <<s[2]>>[1] = s[2] BY <2>3
  <2>5. t = <<s[2]>> BY <1>3, <2>1, <2>2, <2>4, SeqEqual
  <2> QED BY <2>1, <2>2, <2>5
<1> QED BY <1>1, <1>2, <1>3, <1>4, <1>5, <1>6

\* Every step that serves a command sends one answer to it.
LEMMA ServeFacts ==
    ASSUME TypeOK, ServeRead \/ ServeDele \/ ServeQuit \/ Refuse
    PROVE  /\ c2s # <<>> /\ Head(c2s) \in Command /\ c2s' = Tail(c2s)
           /\ \E r : IsAnswer(Head(c2s), r) /\ s2c' = IF pc \in Gone THEN <<>> ELSE s2c \o r
<1>1. c2s # <<>> /\ c2s' = Tail(c2s) /\ c2s \in Seq(Command)
  BY DEF ServeRead, ServeDele, ServeQuit, Refuse, Serving, TypeOK
<1>2. PICK c \in Command : c = Head(c2s) BY <1>1, HeadFacts
<1>3. CASE Refuse
  <2>1. PICK r \in Refusals : Transmit(r) BY <1>3 DEF Refuse
  <2>2. \E n \in Nat, d \in BOOLEAN : IsReply(r, FALSE, n, d) BY RefusalFacts
  <2>3. IsAnswer(c, r) BY <2>2 DEF IsAnswer
  <2> QED BY <1>1, <1>2, <2>1, <2>3 DEF Transmit
<1>4. CASE ServeRead \/ ServeDele \/ ServeQuit
  <2>1. Granted(c) BY <1>2, <1>4 DEF ServeRead, ServeDele, ServeQuit, Granted
  <2>2. PICK r \in Answers(c) : Transmit(r)
    BY <1>2, <1>4 DEF ServeRead, ServeDele, ServeQuit
  <2>3. IsAnswer(c, r)
    <3>1. CASE c.verb = "TOP" BY <2>1, <3>1, HeaderFacts DEF IsAnswer
    <3>2. CASE c.verb # "TOP" BY <2>1, <3>2, ReplyFacts DEF IsAnswer
    <3> QED BY <3>1, <3>2
  <2> QED BY <1>1, <1>2, <2>2, <2>3 DEF Transmit
<1> QED BY <1>3, <1>4

\* An answer that arrives behind what is owed already.
LEMMA ServeStream ==
    ASSUME TypeOK, Bounds, Deletion, Stream, c2s # <<>>, NEW r, IsAnswer(Head(c2s), r),
           c2s' = Tail(c2s), s2c' = s2c \o r, UNCHANGED <<configuration, clientVars>>
    PROVE  Stream'
<1>1. PICK s \in Seq(Command) : s = c2s BY DEF TypeOK
<1>2. PICK n : n = c2s' OBVIOUS
<1>3. PICK c : c = Head(s) OBVIOUS
<1>4. /\ s # <<>> /\ c = s[1] /\ n = Tail(s)
      /\ Len(s) = 1 => n = <<>>
      /\ Len(s) = 2 => Len(n) = 1 /\ n[1] = s[2] /\ n = <<s[2]>>
  BY <1>1, <1>2, <1>3, HeadFacts
<1>5. PICK u : u = s2c' OBVIOUS
<1>6. PICK a \in Seq(Segment) : a = s2c BY DEF TypeOK
<1>7. r \in Seq(Segment) /\ IsAnswer(c, r) /\ u = a \o r /\ u \in Seq(Segment)
  <2>1. r \in Seq(Segment) BY AnswerType
  <2>2. IsAnswer(c, r) BY <1>1, <1>3
  <2> QED BY <1>5, <1>6, <2>1, <2>2, ConcatProperties
<1>8. Stuck(a) => Stuck(u) BY <1>6, <1>7, StuckStays
<1>9. a = <<>> => u = r BY <1>6, <1>7, ConcatEmptySeq
<1>10. /\ pc' = pc /\ waiting' = waiting /\ msg' = msg /\ input' = input
       /\ cfg' = cfg /\ drop' = drop
  BY DEF clientVars, configuration
<1>11. c.verb # "TOP" => /\ Single(r)
                         /\ Single(a) => AtMostTwo(u)
                         /\ c.verb = "LIST" /\ Single(a) => LaterQuiet(u)
                         /\ c.verb = "LIST" => Stuck(r) \/ Quiet(r)
  <2> SUFFICES ASSUME c.verb # "TOP"
               PROVE  /\ Single(r)
                      /\ Single(a) => AtMostTwo(u)
                      /\ c.verb = "LIST" /\ Single(a) => LaterQuiet(u)
                      /\ c.verb = "LIST" => Stuck(r) \/ Quiet(r)
    OBVIOUS
  <2>1. PICK ok \in BOOLEAN : \E m \in Nat, d \in BOOLEAN :
              IsReply(r, ok, m, d) /\ (c.verb = "LIST" /\ ok => ~d)
    BY <1>7 DEF IsAnswer
  <2>2. PICK m \in Nat, d \in BOOLEAN : IsReply(r, ok, m, d) /\ (c.verb = "LIST" /\ ok => ~d)
    BY <2>1
  <2>3. Single(r) /\ (~d => Quiet(r)) /\ (~ok => Stuck(r)) BY <2>2, ReplyAlone
  <2>4. Single(a) => AtMostTwo(u) /\ ((ok => ~d) => LaterQuiet(u))
    BY <1>6, <1>7, <2>2, ReplyBehind
  <2> QED BY <2>2, <2>3, <2>4
<1>12. CASE pc \in {"USER", "PASS", "APOP", "STAT1", "STAT2", "LIST"} /\ ~waiting
  <2>1. OneOwed BY <1>12 DEF Stream
  <2>2. Stuck(a) \/ (a = <<>> /\ Len(s) = 1 /\ Short(s[1]))
    BY <1>1, <1>4, <1>6, <2>1 DEF OneOwed
  <2>3. Stuck(u) \/ (n = <<>> /\ Single(u))
    BY <1>4, <1>8, <1>9, <1>11, <2>2 DEF Short
  <2>4. OneOwed' BY <1>2, <1>5, <2>3 DEF OneOwed
  <2> QED BY <1>10, <1>12, <2>4 DEF Stream
<1>13. CASE pc \in {"USER", "PASS", "APOP", "STAT1", "STAT2"} /\ waiting
  <2>1. TwoOwed BY <1>13 DEF Stream
  <2>2. \/ Stuck(a) \/ (Len(s) = 1 /\ Short(s[1]) /\ Single(a))
        \/ (Len(s) = 2 /\ Short(s[1]) /\ Short(s[2]) /\ a = <<>>)
    BY <1>1, <1>4, <1>6, <2>1 DEF TwoOwed
  <2>3. \/ Stuck(u) \/ (n = <<>> /\ AtMostTwo(u))
        \/ (Len(n) = 1 /\ Short(n[1]) /\ Single(u))
    BY <1>4, <1>8, <1>9, <1>11, <2>2 DEF Short
  <2>4. TwoOwed' BY <1>2, <1>5, <2>3 DEF TwoOwed
  <2> QED BY <1>10, <1>13, <2>4 DEF Stream
<1>14. CASE pc = "LIST" /\ waiting
  <2>1. ListOwed BY <1>14 DEF Stream
  <2>2. \/ Stuck(a) \/ (s = <<Cmd("LIST", msg)>> /\ Single(a))
        \/ (Len(s) = 2 /\ Short(s[1]) /\ s[2] = Cmd("LIST", msg) /\ a = <<>>)
    BY <1>1, <1>4, <1>6, <2>1 DEF ListOwed
  <2>3. s = <<Cmd("LIST", msg)>> => Len(s) = 1 /\ c.verb = "LIST"
    BY <1>4 DEF Cmd
  <2>4. \/ Stuck(u) \/ (n = <<>> /\ AtMostTwo(u) /\ LaterQuiet(u))
        \/ (n = <<Cmd("LIST", msg)>> /\ Single(u))
    BY <1>4, <1>8, <1>9, <1>11, <2>2, <2>3 DEF Short
  <2>5. ListOwed' BY <1>2, <1>5, <1>10, <2>4 DEF ListOwed
  <2> QED BY <1>10, <1>14, <2>5 DEF Stream
<1>15. CASE pc = "TOP" /\ ~waiting
  <2>1. TopAhead BY <1>15 DEF Stream
  <2>2. Stuck(a) \/ (a = <<>> /\ s = <<Cmd("LIST", msg)>>)
    BY <1>1, <1>4, <1>6, <2>1 DEF TopAhead
  <2>3. s = <<Cmd("LIST", msg)>> => Len(s) = 1 /\ c.verb = "LIST"
    BY <1>4 DEF Cmd
  <2>4. Stuck(u) \/ (n = <<>> /\ Single(u) /\ Quiet(u))
    BY <1>4, <1>8, <1>9, <1>11, <2>2, <2>3
  <2>5. TopAhead' BY <1>2, <1>5, <2>4 DEF TopAhead
  <2> QED BY <1>10, <1>15, <2>5 DEF Stream
<1>16. CASE pc = "TOP" /\ waiting
  <2>1. PICK i \in Seq(Segment) : i = input BY DEF TypeOK
  <2>2. PICK t, v : t = i \o a /\ v = i \o u OBVIOUS
  <2>3. t \in Seq(Segment) /\ v = t \o r
    <3>2. (i \o a) \o r = i \o (a \o r) BY <1>7, ConcatThree, Zenon
    <3>3. t \in Seq(Segment) BY <1>6, <2>1, <2>2, ConcatProperties
    <3> QED BY <1>7, <2>2, <3>2, <3>3
  <2>4. TopOwed(t) BY <1>6, <1>16, <2>1, <2>2 DEF Stream
  <2>5. \/ Stuck(t)
        \/ s = <<Cmd("TOP", msg)>> /\ Single(t) /\ Quiet(t)
        \/ s = <<Cmd("LIST", msg), Cmd("TOP", msg)>> /\ t = <<>>
    BY <1>1, <1>4, <2>4 DEF TopOwed
  <2>6. \/ Stuck(v)
        \/ n = <<Cmd("TOP", msg)>> /\ Single(v) /\ Quiet(v)
        \/ n = <<>> /\ \E o, m \in 0..Len(v) : HeaderAt(v, o, m)
    <3>1. CASE Stuck(t) BY <1>7, <2>3, <3>1, StuckStays
    <3>2. CASE s = <<Cmd("TOP", msg)>> /\ Single(t) /\ Quiet(t)
      <4>1. Len(s) = 1 /\ c = Cmd("TOP", msg) /\ c.verb = "TOP" /\ c.no = msg
        BY <1>4, <3>2 DEF Cmd
      <4>2. msg \in All BY <1>16, MsgFacts
      <4>3. \E o, m \in 0..Len(v) : HeaderAt(v, o, m)
        <5>1. CASE IsHeader(r, msg) BY <2>3, <3>2, <4>2, <5>1, HeaderBehind
        <5>2. CASE \E m \in Nat, d \in BOOLEAN : IsReply(r, FALSE, m, d)
          BY <2>3, <3>2, <5>2, RefusalBehind
        <5> QED BY <1>7, <4>1, <5>1, <5>2 DEF IsAnswer
      <4> QED BY <1>4, <4>1, <4>3
    <3>3. CASE s = <<Cmd("LIST", msg), Cmd("TOP", msg)>> /\ t = <<>>
      <4>1. Len(s) = 2 /\ c.verb = "LIST" /\ n = <<Cmd("TOP", msg)>>
        BY <1>4, <3>3 DEF Cmd
      <4>2. v = r BY <1>7, <2>3, <3>3, ConcatEmptySeq
      <4> QED BY <1>11, <4>1, <4>2
    <3> QED BY <2>5, <3>1, <3>2, <3>3
  <2>7. TopOwed(v)' BY <1>2, <1>10, <2>6 DEF TopOwed, HeaderAt, HeaderLine, All
  <2>8. v = input' \o s2c' BY <1>5, <1>10, <2>1, <2>2
  <2>9. TopOwed(input \o s2c)' BY <2>7, <2>8
  <2> QED BY <1>10, <1>16, <2>9 DEF Stream
<1>17. CASE pc = "DELE"
  <2>1. Stuck(a) BY <1>6, <1>17 DEF Stream
  <2> QED BY <1>5, <1>8, <1>10, <1>17, <2>1 DEF Stream
<1>18. CASE pc \in {"open", "greeting"} BY <1>18 DEF Stream
<1>19. CASE pc \in {"STAT3", "QUIT", "close"} \union Gone
  BY <1>10, <1>19 DEF Stream, Gone
<1> QED BY <1>12, <1>13, <1>14, <1>15, <1>16, <1>17, <1>18, <1>19 DEF TypeOK

\* What such a step preserves, whatever the command.
LEMMA AnswerFacts ==
    ASSUME Core, ServeRead \/ ServeDele \/ ServeQuit \/ Refuse,
           UNCHANGED <<configuration, clientVars>>
    PROVE  /\ c2s \in Seq(Command) /\ c2s # <<>> /\ 1 \in DOMAIN c2s /\ Head(c2s) = c2s[1]
           /\ c2s' \in Seq(Command) /\ s2c' \in Seq(Segment)
           /\ \A k \in DOMAIN c2s' : k + 1 \in DOMAIN c2s /\ c2s'[k] = c2s[k + 1]
           /\ Bounds' /\ Progress' /\ OwnHeader' /\ Stream'
           /\ Doomed' = Doomed /\ All' = All /\ cfg' = cfg /\ drop' = drop
<1>0. TypeOK /\ Bounds /\ Progress /\ Deletion /\ OwnHeader /\ Stream BY DEF Core
<1>1. /\ UNCHANGED <<pc, waiting, msg, num_messages, input, judged>>
      /\ cfg' = cfg /\ drop' = drop /\ All' = All
  BY DEF clientVars, configuration, All
<1>2. c2s # <<>> /\ c2s' = Tail(c2s) BY <1>0, ServeFacts
<1>3. PICK r : IsAnswer(Head(c2s), r) /\ s2c' = IF pc \in Gone THEN <<>> ELSE s2c \o r
  BY <1>0, ServeFacts
<1>4. r \in Seq(Segment)
  BY <1>3, AnswerType
<1>5. c2s \in Seq(Command) /\ s2c \in Seq(Segment) BY <1>0 DEF TypeOK
<1>6. /\ Head(c2s) = c2s[1] /\ 1 \in DOMAIN c2s /\ c2s' \in Seq(Command)
      /\ \A k \in DOMAIN c2s' : k + 1 \in DOMAIN c2s /\ c2s'[k] = c2s[k + 1]
  BY <1>2, <1>5, HeadFacts, LastElement
<1>7. s2c' \in Seq(Segment) /\ Bounds' /\ Stream'
  <2>1. CASE pc \in Gone
    <3>1. s2c' = <<>> BY <1>3, <2>1
    <3>2. <<>> \in Seq(Segment) OBVIOUS
    <3>3. Bounds' BY <1>0, <1>1 DEF Bounds
    <3>4. Stream' BY <1>1, <2>1 DEF Stream, Gone
    <3> QED BY <3>1, <3>2, <3>3, <3>4
  <2>2. CASE pc \notin Gone
    <3>1. s2c' = s2c \o r BY <1>3, <2>2
    <3>3. s2c' \in Seq(Segment) BY <1>4, <1>5, <3>1, ConcatProperties
    <3>4. Bounds' BY <1>0, <1>1 DEF Bounds
    <3>5. Stream' BY <1>0, <1>2, <1>3, <2>2, ServeStream
    <3> QED BY <3>3, <3>4, <3>5
  <2> QED BY <2>1, <2>2
<1>9. Progress' BY <1>0, <1>1 DEF Progress
<1>10. OwnHeader' /\ Doomed' = Doomed
  <2>1. UNCHANGED configuration BY <1>1 DEF configuration
  <2> QED BY <1>0, <1>1, <2>1, SameJudged
<1> QED BY <1>1, <1>2, <1>5, <1>6, <1>7, <1>9, <1>10

\* A command that changes nothing, or a refusal.
LEMMA ServeReadStep ==
    ASSUME Core, ServeRead \/ Refuse PROVE Core'
<1>0. TypeOK /\ Deletion BY DEF Core
<1>1. /\ UNCHANGED <<configuration, clientVars, peer, marked, mailbox>>
      /\ server \in {"auth", "trans"} /\ server' \in {"auth", "trans"}
  BY DEF ServeRead, Refuse, Serving, serverVars
<1>2. /\ c2s' \in Seq(Command) /\ s2c' \in Seq(Segment) /\ c2s # <<>>
      /\ \A k \in DOMAIN c2s' : k + 1 \in DOMAIN c2s /\ c2s'[k] = c2s[k + 1]
      /\ Bounds' /\ Progress' /\ OwnHeader' /\ Stream'
      /\ Doomed' = Doomed /\ All' = All /\ cfg' = cfg /\ drop' = drop
  BY <1>1, AnswerFacts
<1>3. UNCHANGED <<pc, waiting, msg, num_messages, size, input, msg_ids, messages,
                  mailbox_status, result, judged, peer, marked, mailbox>>
  BY <1>1 DEF clientVars
<1>4. TypeOK' BY <1>0, <1>1, <1>2, <1>3 DEF TypeOK
<1>5. Deletion'
  <2>1. pc # "open" BY <1>0, <1>1 DEF Deletion
  <2>2. \A k \in DOMAIN c2s' : /\ c2s'[k].verb = "DELE" => c2s'[k].no \in Doomed
                               /\ c2s'[k].verb = "QUIT" => pc \in {"close", "done", "killed"}
    BY <1>0, <1>2 DEF Deletion
  <2> QED BY <1>0, <1>1, <1>2, <1>3, <2>1, <2>2 DEF Deletion
<1> QED BY <1>2, <1>4, <1>5 DEF Core

\* The server marks a message that is_weed condemned.
LEMMA ServeDeleStep ==
    ASSUME Core, ServeDele PROVE Core'
<1>0. TypeOK /\ Deletion BY DEF Core
<1>1. /\ UNCHANGED <<configuration, clientVars, peer, server, mailbox>>
      /\ server \in {"auth", "trans"} /\ Head(c2s).verb = "DELE"
      /\ marked' = marked \union {Head(c2s).no} /\ Granted(Head(c2s))
  BY DEF ServeDele, Serving
<1>2. /\ c2s' \in Seq(Command) /\ s2c' \in Seq(Segment) /\ c2s # <<>>
      /\ 1 \in DOMAIN c2s /\ Head(c2s) = c2s[1]
      /\ \A k \in DOMAIN c2s' : k + 1 \in DOMAIN c2s /\ c2s'[k] = c2s[k + 1]
      /\ Bounds' /\ Progress' /\ OwnHeader' /\ Stream'
      /\ Doomed' = Doomed /\ All' = All /\ cfg' = cfg /\ drop' = drop
  BY <1>1, AnswerFacts
<1>3. UNCHANGED <<pc, waiting, msg, num_messages, size, input, msg_ids, messages,
                  mailbox_status, result, judged, peer, server, mailbox>>
  BY <1>1 DEF clientVars
<1>4. Head(c2s).no \in Left /\ Left \subseteq All BY <1>0, <1>1, LeftFacts DEF Granted
<1>5. marked' \subseteq All BY <1>0, <1>1, <1>4 DEF TypeOK
<1>6. TypeOK' BY <1>0, <1>2, <1>3, <1>5 DEF TypeOK
<1>7. Deletion'
  <2>1. pc # "open" BY <1>0, <1>1 DEF Deletion
  <2>2. \A k \in DOMAIN c2s' : /\ c2s'[k].verb = "DELE" => c2s'[k].no \in Doomed
                               /\ c2s'[k].verb = "QUIT" => pc \in {"close", "done", "killed"}
    BY <1>0, <1>2 DEF Deletion
  <2>3. Head(c2s).no \in Doomed BY <1>0, <1>1, <1>2 DEF Deletion
  <2>4. marked' \subseteq Doomed BY <1>0, <1>1, <2>3 DEF Deletion
  <2> QED BY <1>0, <1>1, <1>2, <1>3, <2>1, <2>2, <2>4 DEF Deletion
<1> QED BY <1>2, <1>6, <1>7 DEF Core

\* The server removes what is marked, when the client has said QUIT.
LEMMA ServeQuitStep ==
    ASSUME Core, ServeQuit PROVE Core'
<1>0. TypeOK /\ Deletion BY DEF Core
<1>1. /\ UNCHANGED <<configuration, clientVars>>
      /\ Head(c2s).verb = "QUIT" /\ server \in {"auth", "trans"}
      /\ mailbox' = mailbox \ marked /\ marked' = {} /\ server' = "closed" /\ peer' = "fin"
  BY DEF ServeQuit, Serving
<1>2. /\ c2s' \in Seq(Command) /\ s2c' \in Seq(Segment) /\ c2s # <<>>
      /\ 1 \in DOMAIN c2s /\ Head(c2s) = c2s[1]
      /\ \A k \in DOMAIN c2s' : k + 1 \in DOMAIN c2s /\ c2s'[k] = c2s[k + 1]
      /\ Bounds' /\ Progress' /\ OwnHeader' /\ Stream'
      /\ Doomed' = Doomed /\ All' = All /\ cfg' = cfg /\ drop' = drop
  BY <1>1, AnswerFacts
<1>3. UNCHANGED <<pc, waiting, msg, num_messages, size, input, msg_ids, messages,
                  mailbox_status, result, judged>>
  BY <1>1 DEF clientVars
<1>4. TypeOK' BY <1>0, <1>1, <1>2, <1>3 DEF TypeOK
<1>5. pc \in {"close", "done", "killed"} BY <1>0, <1>1, <1>2 DEF Deletion
<1>6. Deletion'
  <2>1. \A k \in DOMAIN c2s' : c2s'[k].verb = "DELE" => c2s'[k].no \in Doomed
    BY <1>0, <1>2 DEF Deletion
  <2>2. All \ mailbox' \subseteq Doomed BY <1>0, <1>1 DEF Deletion
  <2> QED BY <1>1, <1>2, <1>3, <1>5, <2>1, <2>2 DEF Deletion
<1> QED BY <1>2, <1>4, <1>6 DEF Core

----------------------------------------------------------------------------
\* The server's session ends and with it what is under way to the server.
LEMMA CutStream ==
    ASSUME TypeOK, Stream, NEW k \in 0..Len(s2c), s2c' = SubSeq(s2c, 1, k), c2s' = <<>>,
           UNCHANGED <<configuration, clientVars>>
    PROVE  Stream'
<1>1. PICK a \in Seq(Segment) : a = s2c BY DEF TypeOK
<1>2. PICK u : u = s2c' OBVIOUS
<1>3. /\ u \in Seq(Segment) /\ Len(u) = k /\ k \in Nat /\ DOMAIN u = 1..k
      /\ DOMAIN a = 1..Len(a) /\ Len(a) \in Nat /\ k <= Len(a)
      /\ \A i \in 1..k : u[i] = a[i]
  BY <1>1, <1>2, PrefixFacts
<1>4. DOMAIN u \subseteq DOMAIN a /\ DOMAIN a \subseteq Nat /\ \A i \in DOMAIN u : u[i] = a[i]
  BY <1>3
<1>5. a = <<>> => u = <<>> BY <1>3, EmptySeq
<1>6. Stuck(a) => u = <<>> \/ Stuck(u)
  <2>1. u # <<>> => 1 \in DOMAIN u BY <1>3, LastElement
  <2> QED BY <1>4, <2>1 DEF Stuck
<1>7. /\ Single(a) => Single(u)
      /\ AtMostTwo(a) => AtMostTwo(u)
      /\ LaterQuiet(a) => LaterQuiet(u)
      /\ Quiet(a) => Quiet(u)
  BY <1>4 DEF Single, NoLine, AtMostTwo, LaterQuiet, Quiet
<1>8. Single(u) => AtMostTwo(u) /\ LaterQuiet(u)
  BY <1>4 DEF Single, AtMostTwo, LaterQuiet, Starts
<1>9. /\ Single(<<>>) /\ Quiet(<<>>) /\ AtMostTwo(<<>>) /\ LaterQuiet(<<>>)
  BY DEF Single, NoLine, Quiet, AtMostTwo, LaterQuiet
<1>10. /\ pc' = pc /\ waiting' = waiting /\ msg' = msg /\ input' = input
       /\ cfg' = cfg /\ drop' = drop
  BY DEF clientVars, configuration
<1>11. ASSUME OneOwed PROVE OneOwed'
  <2>1. Stuck(a) \/ Single(a) \/ a = <<>> BY <1>1, <1>11 DEF OneOwed
  <2>2. Stuck(u) \/ Single(u) BY <1>5, <1>6, <1>7, <1>9, <2>1
  <2> QED BY <1>2, <2>2 DEF OneOwed
<1>12. ASSUME TwoOwed PROVE TwoOwed'
  <2>1. Stuck(a) \/ AtMostTwo(a) \/ Single(a) \/ a = <<>> BY <1>1, <1>12 DEF TwoOwed
  <2>2. Stuck(u) \/ AtMostTwo(u) BY <1>5, <1>6, <1>7, <1>8, <1>9, <2>1
  <2> QED BY <1>2, <2>2 DEF TwoOwed
<1>13. ASSUME ListOwed PROVE ListOwed'
  <2>1. Stuck(a) \/ (AtMostTwo(a) /\ LaterQuiet(a)) \/ Single(a) \/ a = <<>>
    BY <1>1, <1>13 DEF ListOwed
  <2>2. Stuck(u) \/ (AtMostTwo(u) /\ LaterQuiet(u)) BY <1>5, <1>6, <1>7, <1>8, <1>9, <2>1
  <2> QED BY <1>2, <2>2 DEF ListOwed
<1>14. ASSUME TopAhead PROVE TopAhead'
  <2>1. Stuck(a) \/ (Single(a) /\ Quiet(a)) \/ a = <<>> BY <1>1, <1>14 DEF TopAhead
  <2>2. Stuck(u) \/ (Single(u) /\ Quiet(u)) BY <1>5, <1>6, <1>7, <1>9, <2>1
  <2> QED BY <1>2, <2>2 DEF TopAhead
<1>15. ASSUME pc = "TOP", waiting PROVE TopOwed(input \o s2c)'
  <2>1. PICK i \in Seq(Segment) : i = input BY DEF TypeOK
  <2>2. PICK t : t = i \o a OBVIOUS
  <2>3. PICK v : v = i \o u OBVIOUS
  <2>4. /\ t \in Seq(Segment) /\ v \in Seq(Segment)
        /\ DOMAIN t = 1..Len(t) /\ DOMAIN v = 1..Len(v) /\ Len(t) \in Nat /\ Len(v) \in Nat
        /\ Len(v) <= Len(t) /\ \A j \in 1..Len(v) : v[j] = t[j]
    <3>1. /\ t \in Seq(Segment) /\ Len(t) = Len(i) + Len(a) /\ Len(i) \in Nat
          /\ \A j \in 1..Len(i) : t[j] = i[j]
          /\ \A j \in 1..Len(a) : t[Len(i) + j] = a[j]
      BY <1>1, <2>1, <2>2, ConcatFacts
    <3>2. /\ v \in Seq(Segment) /\ Len(v) = Len(i) + Len(u)
          /\ \A j \in 1..Len(i) : v[j] = i[j]
          /\ \A j \in 1..Len(u) : v[Len(i) + j] = u[j]
      <4>1. u \in Seq(Segment) BY <1>3
      <4> QED BY <2>1, <2>3, <4>1, ConcatFacts
    <3>3. \A j \in 1..Len(v) : v[j] = t[j]
      <4> TAKE j \in 1..Len(v)
      <4>1. CASE j <= Len(i) BY <3>1, <3>2, <4>1
      <4>2. CASE j > Len(i)
        <5>1. PICK m \in 1..Len(u) : j = Len(i) + m
          <6>1. j - Len(i) \in 1..Len(u) /\ j = Len(i) + (j - Len(i)) BY <1>3, <3>1, <3>2, <4>2
          <6> QED BY <6>1
        <5>2. m \in 1..Len(a) /\ u[m] = a[m] BY <1>3
        <5> QED BY <3>1, <3>2, <5>1, <5>2
      <4> QED BY <3>1, <4>1, <4>2
    <3>4. Len(v) <= Len(t) BY <1>3, <3>1, <3>2
    <3> QED BY <3>1, <3>2, <3>3, <3>4
  <2>5. TopOwed(t) BY <1>1, <1>15, <2>1, <2>2 DEF Stream
  <2>6. \/ Stuck(t) \/ (Single(t) /\ Quiet(t)) \/ t = <<>>
        \/ \E o, n \in 0..Len(t) : HeaderAt(t, o, n)
    BY <2>5 DEF TopOwed
  <2>7. Begins(v, t) BY <2>4 DEF Begins
  <2>8. Stuck(v) \/ \E o, n \in 0..Len(v) : HeaderAt(v, o, n)
    <3>1. CASE v = <<>>
      <4>1. Len(v) = 0 /\ NoLine(v) BY <3>1 DEF NoLine
      <4>2. \A j \in 1..(Len(v) - 1) : v[j].dot => ~v[j + 1].ok BY <4>1
      <4> QED BY <2>4, <4>1, <4>2, NoHeaderYet
    <3>2. CASE Stuck(t) /\ v # <<>>
      <4>1. 1 \in 1..Len(v) BY <2>4, <3>2, LastElement
      <4> QED BY <2>4, <3>2, <4>1 DEF Stuck
    <3>3. CASE Single(t) /\ Quiet(t)
      <4>1. NoLine(v) /\ \A j \in 1..Len(v) : ~v[j].dot
        <5>1. \A j \in 1..Len(v) : j \in DOMAIN t /\ v[j] = t[j] BY <2>4
        <5> QED BY <2>4, <3>3, <5>1 DEF Single, NoLine, Quiet
      <4>2. \A j \in 1..(Len(v) - 1) : v[j].dot => ~v[j + 1].ok BY <2>4, <4>1
      <4> QED BY <2>4, <4>1, <4>2, NoHeaderYet
    <3>4. CASE t = <<>>
      <4>1. v = <<>> BY <2>4, <3>4, EmptySeq
      <4> QED BY <3>1, <4>1
    <3>5. CASE \E o, n \in 0..Len(t) : HeaderAt(t, o, n)
      BY <2>4, <2>7, <3>5, HeaderBegins
    <3> QED BY <2>6, <3>1, <3>2, <3>3, <3>4, <3>5
  <2>9. TopOwed(v)' BY <1>10, <2>8 DEF TopOwed, HeaderAt, HeaderLine, All
  <2>10. v = input' \o s2c' BY <1>2, <1>10, <2>1, <2>3
  <2> QED BY <2>9, <2>10
<1>16. CASE pc \in {"open", "greeting"}
  <2>1. pc = "open" => a = <<>> BY <1>1 DEF Stream
  <2>2. pc = "greeting" => Single(a) BY <1>1 DEF Stream
  <2> QED BY <1>2, <1>5, <1>7, <1>10, <1>16, <2>1, <2>2 DEF Stream
<1>17. CASE pc \in {"USER", "PASS", "APOP", "STAT1", "STAT2"}
  BY <1>10, <1>11, <1>12, <1>17 DEF Stream
<1>18. CASE pc = "LIST" BY <1>10, <1>11, <1>13, <1>18 DEF Stream
<1>19. CASE pc = "TOP"
  <2>1. CASE waiting BY <1>10, <1>15, <1>19, <2>1 DEF Stream
  <2>2. CASE ~waiting BY <1>10, <1>14, <1>19, <2>2 DEF Stream
  <2> QED BY <2>1, <2>2
<1>20. CASE pc = "DELE"
  <2>1. Stuck(a) \/ a = <<>> BY <1>1, <1>20 DEF Stream
  <2>2. Stuck(u) \/ u = <<>> BY <1>5, <1>6, <2>1
  <2> QED BY <1>2, <1>10, <1>20, <2>2 DEF Stream
<1>21. CASE pc \in {"STAT3", "QUIT", "close"} \union Gone
  BY <1>10, <1>21 DEF Stream, Gone
<1> QED BY <1>16, <1>17, <1>18, <1>19, <1>20, <1>21 DEF TypeOK

\* The session ends without QUIT: the marks are forgotten, no message is lost.
LEMMA EndSessionStep ==
    ASSUME Core, server \in {"auth", "trans"}, EndSession, peer' \in {"fin", "err"}, c2s' = <<>>,
           NEW k \in 0..Len(s2c), s2c' = SubSeq(s2c, 1, k), UNCHANGED <<configuration, clientVars>>
    PROVE  Core'
<1>0. TypeOK /\ Bounds /\ Progress /\ Deletion /\ OwnHeader /\ Stream BY DEF Core
<1>1. /\ UNCHANGED <<pc, waiting, msg, num_messages, size, input, msg_ids, messages,
                     mailbox_status, result, judged, mailbox>>
      /\ cfg' = cfg /\ drop' = drop /\ All' = All /\ server' = "closed" /\ marked' = {}
  BY DEF clientVars, configuration, All, EndSession
<1>2. PICK u : u = s2c' OBVIOUS
<1>3. u \in Seq(Segment)
  <2>1. s2c \in Seq(Segment) BY <1>0 DEF TypeOK
  <2> QED BY <1>2, <2>1, PrefixFacts
<1>4. TypeOK'
  <2>1. <<>> \in Seq(Command) OBVIOUS
  <2>2. peer' \in {"up", "fin", "err", "rst"} OBVIOUS
  <2>3. s2c' \in Seq(Segment) /\ c2s' \in Seq(Command) BY <1>2, <1>3, <2>1
  <2> QED BY <1>0, <1>1, <2>2, <2>3 DEF TypeOK
<1>5. Bounds' BY <1>0, <1>1 DEF Bounds
<1>6. Progress' BY <1>0, <1>1 DEF Progress
<1>7. OwnHeader' /\ Doomed' = Doomed
  <2>1. UNCHANGED configuration /\ UNCHANGED judged BY <1>1 DEF configuration
  <2> QED BY <1>0, <2>1, SameJudged
<1>8. Deletion'
  <2>1. pc # "open" BY <1>0 DEF Deletion
  <2>2. DOMAIN c2s' = {} OBVIOUS
  <2> QED BY <1>0, <1>1, <1>7, <2>1, <2>2 DEF Deletion
<1>9. Stream' BY <1>0, CutStream
<1> QED BY <1>4, <1>5, <1>6, <1>7, <1>8, <1>9 DEF Core

\* Nothing is cut off.
LEMMA WholeStream ==
    ASSUME TypeOK
    PROVE  Len(s2c) \in 0..Len(s2c) /\ s2c = SubSeq(s2c, 1, Len(s2c))
<1>1. s2c \in Seq(Segment) BY DEF TypeOK
<1> QED BY <1>1, SubSeqFull

\* The server or the network ends the session.
LEMMA ServerEndsStep ==
    ASSUME Core, ServerClose \/ ServerAbort \/ ServerEof \/ CloseResets PROVE Core'
<1>0. TypeOK BY DEF Core
<1>1. /\ server \in {"auth", "trans"} /\ EndSession /\ UNCHANGED <<configuration, clientVars>>
      /\ peer' \in {"fin", "err"} /\ c2s' = <<>>
  BY DEF ServerClose, ServerAbort, ServerEof, CloseResets
<1>2. PICK k \in 0..Len(s2c) : s2c' = SubSeq(s2c, 1, k)
  <2>1. CASE s2c' = s2c BY <1>0, <2>1, WholeStream
  <2>2. CASE \E k \in 0..Len(s2c) : s2c' = SubSeq(s2c, 1, k) BY <2>2
  <2> QED BY <2>1, <2>2 DEF ServerClose, ServerAbort, ServerEof, CloseResets
<1> QED BY <1>1, <1>2, EndSessionStep

\* A step that changes nothing.
LEMMA StutterStep ==
    ASSUME Core, UNCHANGED vars PROVE Core'
<1>1. UNCHANGED <<cfg, drop, pc, waiting, msg, num_messages, size, input, msg_ids, messages,
                  mailbox_status, result, judged, c2s, s2c, peer, server, marked, mailbox>>
  BY DEF vars, configuration, clientVars, connVars, serverVars
<1>2. TypeOK' BY <1>1 DEF Core, TypeOK, All
<1>3. Bounds' BY <1>1 DEF Core, Bounds
<1>4. Progress' BY <1>1 DEF Core, Progress
<1>5. OwnHeader' /\ Doomed' = Doomed /\ All' = All
  <2>1. UNCHANGED configuration /\ UNCHANGED judged BY <1>1 DEF configuration
  <2> QED BY <2>1, SameJudged DEF Core
<1>6. Deletion' BY <1>1, <1>5 DEF Core, Deletion
<1>7. Stream'
  <2>1. Stream BY DEF Core
  <2>2. OneOwed => OneOwed' BY <1>1 DEF OneOwed
  <2>3. TwoOwed => TwoOwed' BY <1>1 DEF TwoOwed
  <2>4. ListOwed => ListOwed' BY <1>1 DEF ListOwed
  <2>5. TopAhead => TopAhead' BY <1>1 DEF TopAhead
  <2>6. PICK t : t = input \o s2c OBVIOUS
  <2>7. TopOwed(t) => TopOwed(t)' BY <1>1 DEF TopOwed, HeaderAt, HeaderLine, All
  <2>8. TopOwed(input \o s2c) => TopOwed(input \o s2c)'
    <3>1. t = input' \o s2c' BY <1>1, <2>6
    <3> QED BY <2>6, <2>7, <3>1
  <2> QED BY <1>1, <2>1, <2>2, <2>3, <2>4, <2>5, <2>8 DEF Stream
<1> QED BY <1>2, <1>3, <1>4, <1>5, <1>6, <1>7 DEF Core

-----------------------------------------------------------------------------
\* The number of messages POP3::scan believes in.

\* Segments and the number a client reads there when only the front of a stream changes.
LEMMA SuffixCounts ==
    ASSUME NEW s \in Seq(Segment), NEW k \in 1..Len(s), NEW j \in {1, 2}, Counting(s, 2)
    PROVE  Counting(SubSeq(s, k + 1, Len(s)), j)
<1>1. PICK r : r = SubSeq(s, k + 1, Len(s)) OBVIOUS
<1>2. r \in Seq(Segment) /\ Len(r) = Len(s) - k /\ \A i \in 1..(Len(s) - k) : r[i] = s[k + i]
  BY <1>1, SuffixFacts
<1>3. SUFFICES ASSUME NEW i \in DOMAIN r, r[i].ok PROVE CountAt(r, i)
  BY <1>1 DEF Counting
<1>4. i \in 1..(Len(s) - k) /\ r[i] = s[k + i] /\ k + i \in DOMAIN s /\ 2 <= k + i
  BY <1>2
<1>5. CountAt(s, k + i) BY <1>3, <1>4 DEF Counting
<1>6. ASSUME i < Len(r) PROVE r[i + 1] = s[(k + i) + 1] /\ k + i < Len(s)
  <2>1. PICK l \in Nat : l = Len(s) OBVIOUS
  <2>2. i \in 1..(l - k) /\ k \in 1..l /\ i < l - k BY <1>2, <1>4, <1>6, <2>1
  <2>4. i + 1 \in 1..(l - k) /\ k + (i + 1) = (k + i) + 1 /\ k + i < l BY <2>2
  <2>3. r[i + 1] = s[k + (i + 1)] BY <1>2, <2>1, <2>4
  <2> QED BY <2>1, <2>3, <2>4
<1> QED BY <1>4, <1>5, <1>6 DEF CountAt

\* What the client leaves unread ends as before.
LEMMA SuffixEnds ==
    ASSUME NEW s \in Seq(Segment), NEW k \in 1..Len(s), SubSeq(s, k + 1, Len(s)) # <<>>
    PROVE  LET r == SubSeq(s, k + 1, Len(s)) IN s # <<>> /\ r[Len(r)] = s[Len(s)]
<1>1. PICK r : r = SubSeq(s, k + 1, Len(s)) OBVIOUS
<1>2. r \in Seq(Segment) /\ Len(r) = Len(s) - k /\ \A i \in 1..(Len(s) - k) : r[i] = s[k + i]
  BY <1>1, SuffixFacts
<1>3. Len(r) \in Nat \ {0} BY <1>1, <1>2, LastElement
<1>4. Len(r) \in 1..(Len(s) - k) /\ k + Len(r) = Len(s) BY <1>2, <1>3
<1>5. r[Len(r)] = s[Len(s)]
  <2>1. r[Len(r)] = s[k + Len(r)] BY <1>2, <1>4
  <2> QED BY <1>4, <2>1
<1>6. s # <<>> OBVIOUS
<1> QED BY <1>1, <1>5, <1>6

\* Steps of the client that read nothing and are not about a STAT.
LEMMA QuietCounts ==
    ASSUME Counts, UNCHANGED server, s2c' \in {s2c, <<>>},
           pc' # "STAT2", pc' # "STAT1" \/ ~waiting'
    PROVE  Counts'
BY DEF Counts

\* Steps that read something else than the first POP3::status.
LEMMA ReceiveCounts ==
    ASSUME TypeOK, Counts, UNCHANGED server, NEW k \in 1..Len(s2c), Receive(k),
           pc' # "STAT2", pc' # "STAT1" \/ ~waiting'
    PROVE  Counts'
<1>1. s2c \in Seq(Segment) BY DEF TypeOK
<1>2. PICK r : r = s2c' OBVIOUS
<1>3. r = SubSeq(s2c, k + 1, Len(s2c)) BY <1>2 DEF Receive
<1>4. r # <<>> => s2c # <<>> /\ r[Len(r)] = s2c[Len(s2c)] BY <1>1, <1>3, SuffixEnds
<1> QED BY <1>2, <1>4 DEF Counts

\* The first POP3::status reads the answer owed before its own, or its own.
LEMMA StatusCounts ==
    ASSUME Core, Counts, ReadStatus PROVE Counts'
<1>0. TypeOK /\ Stream BY DEF Core
<1>1. PICK k \in 1..Len(s2c) :
        /\ Receive(k)
        /\ \/ Positive(Received(k)) /\ pc' = "STAT2" /\ waiting' = FALSE
           \/ pc' \in {"QUIT", "close"}
  BY DEF ReadStatus, Goto, Fail
<1>2. pc = "STAT1" /\ UNCHANGED <<c2s, server, configuration>> BY DEF ReadStatus, serverVars
<1>3. CASE pc' \in {"QUIT", "close"} BY <1>0, <1>1, <1>2, <1>3, ReceiveCounts
<1>4. CASE Positive(Received(k)) /\ pc' = "STAT2" /\ waiting' = FALSE
  <2>1. waiting /\ s2c # <<>> /\ s2c[1].ok /\ s2c \in Seq(Segment) /\ c2s \in Seq(Command)
    BY <1>0, <1>1, <1>4, ReadFacts DEF Positive, TypeOK
  <2>2. ~Stuck(s2c) /\ TwoOwed BY <1>0, <1>2, <2>1 DEF Stuck, Stream
  <2>3. (c2s # <<>> => c2s[Len(c2s)].verb = "STAT") /\ Counting(s2c, 2)
    BY <1>2, <2>1, <2>2 DEF Counts
  <2>4. c2s = <<>> \/ Len(c2s) = 1 BY <2>1, <2>2 DEF TwoOwed
  <2>5. \A i \in DOMAIN c2s : c2s[i].verb = "STAT"
    <3> TAKE i \in DOMAIN c2s
    <3>1. i = 1 /\ Len(c2s) = 1 BY <2>1, <2>4
    <3>2. c2s # <<>> BY <3>1
    <3> QED BY <2>3, <3>1, <3>2
  <2>6. PICK r : r = s2c' OBVIOUS
  <2>7. r = SubSeq(s2c, k + 1, Len(s2c)) BY <1>1, <2>6 DEF Receive
  <2>8. Counting(r, 1) BY <2>1, <2>3, <2>7, SuffixCounts
  <2>9. r # <<>> => r[Len(r)] = s2c[Len(s2c)] BY <2>1, <2>7, SuffixEnds
  <2>10. Len(drop)' = Len(drop) BY <1>2 DEF configuration
  <2>11. Counting(r, 1)' BY <2>8, <2>10 DEF Counting, CountAt
  <2>12. Counting(s2c, 1)' BY <2>6, <2>11 DEF Counting, CountAt
  <2> QED BY <1>2, <1>4, <2>1, <2>5, <2>6, <2>9, <2>12 DEF Counts
<1> QED BY <1>1, <1>3, <1>4

\* A STAT is written behind what is owed.
LEMMA AskCounts ==
    ASSUME Core, Counts, Ask PROVE Counts'
<1>0. TypeOK /\ Stream /\ Deletion BY DEF Core
<1>1. /\ pc \in Asking /\ ~waiting /\ UNCHANGED <<configuration, s2c, server, pc>>
      /\ Written(CommandAt(pc))
  BY DEF Ask, Goto, serverVars
<1>2. drop' = drop BY <1>1 DEF configuration
<1>3. CASE pc \notin {"STAT1", "STAT2"} BY <1>1, <1>3, QuietCounts
<1>4. CASE pc \in {"STAT1", "STAT2"}
  <2>1. PICK c \in Command : c = CommandAt(pc) /\ c.verb = "STAT"
    <3>1. CommandAt(pc) = Cmd("STAT", 0) BY <1>4 DEF CommandAt
    <3>2. Cmd("STAT", 0) \in Command /\ Cmd("STAT", 0).verb = "STAT" BY DEF Cmd, Command, Verb
    <3> QED BY <3>1, <3>2
  <2>2. c2s \in Seq(Command) BY <1>0 DEF TypeOK
  <2>3. c2s' = Append(c2s, c) \/ (c2s = <<>> /\ c2s' = <<>>)
    <3>1. pc \notin {"close", "done", "killed"} BY <1>4
    <3> QED BY <1>0, <1>1, <2>1, <3>1 DEF Written, Deletion
  <2>4. PICK n : n = c2s' OBVIOUS
  <2>5. /\ n # <<>> => n[Len(n)].verb = "STAT"
        /\ \A i \in DOMAIN n : n[i] = c \/ (i \in DOMAIN c2s /\ n[i] = c2s[i])
    <3>1. CASE n = Append(c2s, c) BY <2>1, <2>2, <3>1, AppendFacts
    <3>2. CASE c2s = <<>> /\ n = <<>> BY <3>2
    <3> QED BY <2>3, <2>4, <3>1, <3>2
  <2>6. Counting(s2c, 2) => Counting(s2c, 2)' BY <1>1, <1>2 DEF Counting, CountAt
  <2>7. Counting(s2c, 1) => Counting(s2c, 1)' BY <1>1, <1>2 DEF Counting, CountAt
  <2>8. CASE pc = "STAT1"
    <3>1. OneOwed BY <1>0, <1>1, <2>8 DEF Stream
    <3>2. Stuck(s2c) \/ Single(s2c) \/ s2c = <<>> BY <3>1 DEF OneOwed
    <3>3. Stuck(s2c) \/ Counting(s2c, 2)
      <4>1. s2c \in Seq(Segment) /\ DOMAIN s2c \subseteq Nat BY <1>0 DEF TypeOK
      <4> QED BY <3>2, <4>1 DEF Counting, Single, Starts
    <3> QED BY <1>1, <2>4, <2>5, <2>6, <2>8, <3>3 DEF Counts
  <2>9. CASE pc = "STAT2"
    <3>1. Stuck(s2c) \/ ((\A i \in DOMAIN c2s : c2s[i].verb = "STAT") /\ Counting(s2c, 1))
      BY <2>9 DEF Counts
    <3> QED BY <1>1, <2>1, <2>4, <2>5, <2>7, <2>9, <3>1 DEF Counts
  <2> QED BY <1>4, <2>8, <2>9
<1> QED BY <1>3, <1>4

\* The answer to a STAT arrives behind what is unread.
LEMMA CountBehind ==
    ASSUME NEW a \in Seq(Segment), NEW r, NEW c, IsAnswer(c, r), NEW j \in {1, 2},
           Counting(a, j), a # <<>> => a[Len(a)].kind # "front",
           c.verb = "STAT" \/ (j = 2 /\ a = <<>>)
    PROVE  Counting(a \o r, j)
<1>1. PICK u : u = a \o r OBVIOUS
<1>2. r \in Seq(Segment) /\ \A k \in DOMAIN r : k > 1 => ~r[k].ok BY AnswerType
<1>3. /\ u \in Seq(Segment) /\ DOMAIN u = 1..Len(u) /\ Len(u) = Len(a) + Len(r)
      /\ DOMAIN a = 1..Len(a) /\ DOMAIN r = 1..Len(r) /\ Len(a) \in Nat /\ Len(r) \in Nat
      /\ \A i \in 1..Len(a) : u[i] = a[i]
      /\ \A i \in 1..Len(r) : u[Len(a) + i] = r[i]
      /\ \A i \in 1..Len(u) : i \in 1..Len(a) \/ (i > Len(a) /\ i - Len(a) \in 1..Len(r) /\ u[i] = r[i - Len(a)])
  BY <1>1, <1>2, ConcatFacts
<1>4. SUFFICES ASSUME NEW k \in DOMAIN u, j <= k, u[k].ok PROVE CountAt(u, k)
  BY <1>1 DEF Counting
<1>5. CASE k \in 1..Len(a)
  <2>1. CountAt(a, k) BY <1>3, <1>4, <1>5 DEF Counting
  <2>2. k < Len(a) => k + 1 \in 1..Len(a) /\ u[k + 1] = a[k + 1] BY <1>3, <1>5
  <2>3. k = Len(a) => a[k].kind # "front"
    <3>1. a # <<>> BY <1>3, <1>5
    <3> QED BY <3>1
  <2>4. k < Len(a) \/ k = Len(a) BY <1>3, <1>5
  <2> QED BY <1>3, <1>5, <2>1, <2>2, <2>3, <2>4 DEF CountAt
<1>6. CASE k > Len(a) /\ k - Len(a) \in 1..Len(r) /\ u[k] = r[k - Len(a)]
  <2>1. k - Len(a) = 1
    <3>1. ~(k - Len(a) > 1) BY <1>2, <1>3, <1>4, <1>6
    <3> QED BY <1>3, <1>6, <3>1
  <2>2. r[1].ok /\ u[k] = r[1] BY <1>4, <1>6, <2>1
  <2>3. c.verb = "STAT"
    <3>1. ASSUME j = 2, a = <<>> PROVE FALSE
      <4>1. Len(a) = 0 BY <3>1
      <4> QED BY <1>3, <1>4, <2>1, <3>1, <4>1
    <3> QED BY <3>1
  <2>4. PICK n \in Nat, d \in BOOLEAN : IsReply(r, TRUE, n, d) /\ n <= Len(drop)
    <3>1. ~(\E n \in Nat, d \in BOOLEAN : IsReply(r, FALSE, n, d)) BY <2>2 DEF IsReply
    <3>2. c.verb # "TOP" BY <2>3
    <3>3. \E n \in Nat, d \in BOOLEAN : /\ IsReply(r, TRUE, n, d)
                                     /\ (c.verb = "STAT" => n <= Len(drop))
                                     /\ (c.verb = "LIST" => ~d)
      BY <3>1, <3>2 DEF IsAnswer
    <3> QED BY <2>3, <3>3
  <2>5. \A i \in 1..Len(r) : r[i].second <= Len(drop)
    <3>1. \A i \in 1..Len(r) : r[i].second \in Nat /\ r[i].second <= n BY <2>4 DEF IsReply
    <3>2. Len(drop) \in Nat \/ Len(drop) \notin Nat OBVIOUS
    <3> QED BY <2>4, <3>1
  <2>6. k < Len(u) => 2 \in 1..Len(r) /\ u[k + 1] = r[2]
    <3>1. k = Len(a) + 1 BY <1>3, <2>1
    <3>2. k < Len(u) => 2 \in 1..Len(r) /\ k + 1 = Len(a) + 2 BY <1>3, <3>1
    <3> QED BY <1>3, <3>2
  <2> QED BY <1>6, <2>1, <2>2, <2>5, <2>6 DEF CountAt
<1> QED BY <1>3, <1>4, <1>5, <1>6

\* The server's answers while POP3::status waits.
LEMMA ServeCounts ==
    ASSUME Core, Counts, ServeRead \/ ServeDele \/ ServeQuit \/ Refuse PROVE Counts'
<1>0. TypeOK /\ Stream BY DEF Core
<1>1. /\ pc' = pc /\ waiting' = waiting /\ drop' = drop
      /\ server \in {"auth", "trans"}
  BY DEF ServeRead, ServeDele, ServeQuit, Refuse, Serving, clientVars, configuration
<1>2. c2s # <<>> /\ c2s' = Tail(c2s) /\ c2s \in Seq(Command) BY <1>0, ServeFacts DEF TypeOK
<1>3. PICK r : IsAnswer(Head(c2s), r) /\ s2c' = IF pc \in Gone THEN <<>> ELSE s2c \o r
  BY <1>0, ServeFacts
<1>4. CASE pc \in Gone
  <2>1. s2c' = <<>> BY <1>3, <1>4
  <2> QED BY <1>1, <1>4, <2>1 DEF Counts, Gone
<1>5. CASE pc \notin Gone
  <2>1. PICK a \in Seq(Segment) : a = s2c BY <1>0 DEF TypeOK
  <2>2. PICK u : u = a \o r OBVIOUS
  <2>3. s2c' = u BY <1>3, <1>5, <2>1, <2>2
  <2>4. r \in Seq(Segment) /\ r # <<>> /\ Len(r) \in DOMAIN r /\ r[Len(r)].kind # "front"
    BY <1>3, AnswerType
  <2>5. u[Len(u)].kind # "front"
    <3>1. /\ Len(u) = Len(a) + Len(r) /\ DOMAIN r = 1..Len(r)
          /\ \A i \in 1..Len(r) : u[Len(a) + i] = r[i]
      BY <2>2, <2>4, ConcatFacts
    <3> QED BY <2>4, <3>1
  <2>6. a # <<>> => a[Len(a)].kind # "front" BY <1>1, <2>1 DEF Counts
  <2>7. Stuck(a) => Stuck(u) BY <2>2, <2>4, StuckStays
  <2>8. /\ Head(c2s) = c2s[1] /\ Len(c2s) \in Nat \ {0}
        /\ \A i \in DOMAIN c2s' : i + 1 \in DOMAIN c2s /\ c2s'[i] = c2s[i + 1]
        /\ Len(c2s) = 1 => c2s' = <<>>
        /\ Len(c2s) = 2 => Len(c2s') = 1 /\ c2s'[1] = c2s[2]
    BY <1>2, HeadFacts
  <2>9. ASSUME NEW j \in {1, 2}, Counting(u, j) PROVE Counting(s2c, j)'
    <3>1. Counting(u, j)' BY <1>1, <2>9 DEF Counting, CountAt
    <3> QED BY <2>3, <3>1 DEF Counting, CountAt
  <2>10. CASE pc = "STAT1" /\ waiting
    <3>1. Stuck(a) \/ (c2s[Len(c2s)].verb = "STAT" /\ Counting(a, 2))
      BY <1>2, <2>1, <2>10 DEF Counts
    <3>2. Stuck(a) \/ Len(c2s) = 1 \/ (Len(c2s) = 2 /\ a = <<>>)
      BY <1>0, <1>2, <2>1, <2>10 DEF Stream, TwoOwed
    <3>3. Stuck(u) \/ ((c2s' # <<>> => c2s'[Len(c2s')].verb = "STAT") /\ Counting(u, 2))
      <4>1. CASE Stuck(a) BY <2>7, <4>1
      <4>2. CASE Len(c2s) = 1 /\ c2s[Len(c2s)].verb = "STAT" /\ Counting(a, 2)
        <5>1. Head(c2s).verb = "STAT" /\ c2s' = <<>> BY <2>8, <4>2
        <5>2. Counting(u, 2) BY <1>3, <2>2, <2>6, <4>2, <5>1, CountBehind
        <5> QED BY <5>1, <5>2
      <4>3. CASE Len(c2s) = 2 /\ a = <<>> /\ c2s[Len(c2s)].verb = "STAT" /\ Counting(a, 2)
        <5>1. Counting(u, 2) BY <1>3, <2>2, <4>3, CountBehind
        <5> QED BY <2>8, <4>3, <5>1
      <4> QED BY <3>1, <3>2, <4>1, <4>2, <4>3
    <3>4. Counting(u, 2) => Counting(s2c, 2)' BY <2>9
    <3> QED BY <1>1, <2>3, <2>5, <2>10, <3>3, <3>4 DEF Counts
  <2>11. CASE pc = "STAT2"
    <3>1. Stuck(a) \/ ((\A k \in DOMAIN c2s : c2s[k].verb = "STAT") /\ Counting(a, 1))
      BY <2>1, <2>11 DEF Counts
    <3>2. Stuck(u) \/ ((\A k \in DOMAIN c2s' : c2s'[k].verb = "STAT") /\ Counting(u, 1))
      <4>1. CASE Stuck(a) BY <2>7, <4>1
      <4>2. CASE (\A k \in DOMAIN c2s : c2s[k].verb = "STAT") /\ Counting(a, 1)
        <5>1. 1 \in DOMAIN c2s BY <1>2, LastElement
        <5>2. Head(c2s).verb = "STAT" BY <2>8, <4>2, <5>1
        <5>3. Counting(u, 1) BY <1>3, <2>2, <2>6, <4>2, <5>2, CountBehind
        <5> QED BY <2>8, <4>2, <5>3
      <4> QED BY <3>1, <4>1, <4>2
    <3>3. Counting(u, 1) => Counting(s2c, 1)' BY <2>9
    <3> QED BY <1>1, <2>3, <2>5, <2>11, <3>2, <3>3 DEF Counts
  <2>12. CASE pc # "STAT2" /\ ~(pc = "STAT1" /\ waiting)
    BY <1>1, <2>3, <2>5, <2>12 DEF Counts
  <2> QED BY <2>10, <2>11, <2>12
<1> QED BY <1>4, <1>5

\* A session that ends leaves a beginning of what was sent.
LEMMA EndCounts ==
    ASSUME TypeOK, Counts, ServerClose \/ ServerAbort \/ ServerEof \/ CloseResets PROVE Counts'
<1>1. /\ server' = "closed" /\ c2s' = <<>> /\ pc' = pc /\ waiting' = waiting /\ drop' = drop
  BY DEF ServerClose, ServerAbort, ServerEof, CloseResets, EndSession, clientVars, configuration
<1>2. PICK k \in 0..Len(s2c) : s2c' = SubSeq(s2c, 1, k)
  <2>1. CASE s2c' = s2c BY <2>1, WholeStream
  <2>2. CASE \E k \in 0..Len(s2c) : s2c' = SubSeq(s2c, 1, k) BY <2>2
  <2> QED BY <2>1, <2>2 DEF ServerClose, ServerAbort, ServerEof, CloseResets
<1>3. PICK a \in Seq(Segment) : a = s2c BY DEF TypeOK
<1>4. PICK u : u = s2c' OBVIOUS
<1>5. /\ u \in Seq(Segment) /\ Len(u) = k /\ k \in Nat /\ DOMAIN u = 1..k
      /\ DOMAIN a = 1..Len(a) /\ Len(a) \in Nat /\ k <= Len(a)
      /\ \A i \in 1..k : u[i] = a[i]
  BY <1>2, <1>3, <1>4, PrefixFacts
<1>6. Stuck(a) => u = <<>> \/ Stuck(u)
  <2>1. u # <<>> => 1 \in 1..k BY <1>5, LastElement
  <2> QED BY <1>5, <2>1 DEF Stuck
<1>7. ASSUME NEW j \in {1, 2}, Counting(a, j) \/ u = <<>> PROVE Counting(s2c, j)'
  <2>1. ASSUME NEW i \in DOMAIN u, j <= i, u[i].ok PROVE CountAt(u, i)
    <3>1. Counting(a, j)
      <4>1. u # <<>> BY <1>5, <2>1
      <4> QED BY <1>7, <4>1
    <3>2. i \in 1..Len(a) /\ u[i] = a[i] BY <1>5, <2>1
    <3>3. CountAt(a, i) BY <1>5, <2>1, <3>1, <3>2 DEF Counting
    <3>4. i < Len(u) => i < Len(a) /\ u[i + 1] = a[i + 1] BY <1>5, <2>1
    <3> QED BY <3>2, <3>3, <3>4 DEF CountAt
  <2>2. Counting(u, j) BY <2>1 DEF Counting
  <2>3. Counting(u, j)' BY <1>1, <2>2 DEF Counting, CountAt
  <2> QED BY <1>4, <2>3 DEF Counting, CountAt
<1>8. DOMAIN c2s' = {} BY <1>1
<1>9. pc = "STAT1" /\ waiting => Stuck(a) \/ Counting(a, 2) BY <1>3 DEF Counts
<1>10. pc = "STAT2" => Stuck(a) \/ Counting(a, 1) BY <1>3 DEF Counts
<1>11. pc = "STAT1" /\ waiting => Stuck(s2c)' \/ Counting(s2c, 2)' BY <1>4, <1>6, <1>7, <1>9
<1>12. pc = "STAT2" => Stuck(s2c)' \/ Counting(s2c, 1)' BY <1>4, <1>6, <1>7, <1>10
<1> QED BY <1>1, <1>8, <1>11, <1>12 DEF Counts

\* Every step keeps the count within the mailbox.
LEMMA NextCounts ==
    ASSUME Core, Counts, [Next]_vars PROVE Counts'
<1>0. TypeOK /\ Progress BY DEF Core
<1>1. CASE Open
  <2>1. PICK ok \in BOOLEAN : s2c' \in Free(ok, Dot) BY <1>1 DEF Open
  <2>2. PICK r : r = s2c' OBVIOUS
  <2>3. Dot \in SUBSET BOOLEAN BY DEF Dot
  <2>4. \E n \in Nat, d \in BOOLEAN : IsReply(r, ok, n, d) BY <2>1, <2>2, <2>3, FreeFacts
  <2>5. r[Len(r)].kind # "front" BY <2>4 DEF IsReply
  <2> QED BY <1>1, <2>2, <2>5 DEF Open, Goto, Counts
<1>2. CASE Ask BY <1>2, AskCounts
<1>3. CASE ReadStatus BY <1>3, StatusCounts
<1>4. CASE ReadGreeting \/ ReadLogin \/ ReadCount \/ ReadRemaining \/ ReadList \/ ReadHeader
  <2>1. PICK k \in 1..Len(s2c) : Receive(k)
    BY <1>4 DEF ReadGreeting, ReadLogin, ReadCount, ReadRemaining, ReadList, ReadHeader
  <2>2. pc' # "STAT2" /\ (pc' # "STAT1" \/ ~waiting') /\ UNCHANGED server
    BY <1>4 DEF ReadGreeting, ReadLogin, ReadCount, ReadRemaining, ReadList, ReadHeader,
       Goto, Fail, EndScan, serverVars
  <2> QED BY <1>0, <2>1, <2>2, ReceiveCounts
<1>5. CASE AskFails \/ SigPipe \/ ReadNothing \/ ScanFails \/ ParserExits \/ Weed \/ RemoveMsg
           \/ Logout \/ Close \/ OpenFails \/ ReadTimeout \/ SslFails \/ SigInt
  <2>1. UNCHANGED server /\ s2c' \in {s2c, <<>>}
    BY <1>5 DEF AskFails, SigPipe, ReadNothing, ScanFails, ParserExits, Weed, RemoveMsg,
       Logout, Close, OpenFails, ReadTimeout, SslFails, SigInt, Exit, connVars, serverVars
  <2>2. pc' # "STAT2" /\ pc' # "STAT1"
    BY <1>5 DEF AskFails, SigPipe, ReadNothing, ScanFails, ParserExits, Weed, RemoveMsg,
       Logout, Close, OpenFails, ReadTimeout, SslFails, SigInt, Exit, Goto, Fail, NextMessage, EndScan
  <2> QED BY <2>1, <2>2, QuietCounts
<1>6. CASE ServeRead \/ ServeDele \/ ServeQuit \/ Refuse BY <1>6, ServeCounts
<1>7. CASE ServerClose \/ ServerAbort \/ ServerEof \/ CloseResets BY <1>0, <1>7, EndCounts
<1>8. CASE UNCHANGED vars
  <2>1. UNCHANGED <<pc, waiting, drop, c2s, s2c, server>>
    BY <1>8 DEF vars, configuration, clientVars, connVars, serverVars
  <2> QED BY <2>1 DEF Counts, Stuck, Counting, CountAt
<1> QED BY <1>1, <1>2, <1>3, <1>4, <1>5, <1>6, <1>7, <1>8
        DEF Next, ClientNext, ServerNext, FaultNext, NetworkNext, Spin, Terminated

----------------------------------------------------------------------------
\* The invariant holds before the program connects ...
LEMMA FreshIInv == Fresh => IInv
<1> SUFFICES ASSUME Fresh PROVE IInv
  OBVIOUS
<1>1. drop \in Seq(Header) /\ cfg \in Configs /\ drop \in Maildrops
  BY SessionAssumption DEF Fresh
<1>2. DOMAIN drop = 1..Len(drop) /\ Len(drop) \in Nat BY <1>1
<1>3. /\ <<>> \in Seq(Segment) /\ <<>> \in Seq(Command)
      /\ <<>> \in Seq([header : Header, weed : {0, 1}])
  OBVIOUS
<1>4. TypeOK BY <1>1, <1>3 DEF Fresh, TypeOK, All
<1>5. Bounds BY <1>2 DEF Fresh, Bounds
<1>6. Progress BY DEF Fresh, Progress
<1>7. Deletion BY DEF Fresh, Deletion
<1>8. OwnHeader BY DEF Fresh, OwnHeader
<1>9. Stream BY DEF Fresh, Stream
<1>10. Counts BY DEF Fresh, Counts
<1> QED BY <1>4, <1>5, <1>6, <1>7, <1>8, <1>9, <1>10 DEF IInv, Core

\* The invariant holds when the connection is about to be opened.
LEMMA InitIInv == Init => IInv
BY FreshIInv DEF Init, Fresh, All

\* ... and every step of client, server and network preserves it.
LEMMA NextIInv == IInv /\ [Next]_vars => IInv'
<1> SUFFICES ASSUME IInv, [Next]_vars PROVE IInv'
  OBVIOUS
<1>0. Core /\ Counts BY DEF IInv
<1>1. CASE ClientNext
  <2>1. Core'
    BY <1>0, <1>1, OpenStep, AskStep, AskFailsStep, SigPipeStep, ReadGreetingStep, ReadLoginStep,
       ReadStatusStep, ReadCountStep, ReadRemainingStep, ReadListStep, ReadHeaderStep,
       ReadNothingStep, ScanFailsStep, ParserExitsStep, WeedStep, RemoveMsgStep, LogoutStep,
       CloseStep DEF ClientNext
  <2> QED BY <1>0, <2>1, NextCounts DEF IInv
<1>2. CASE ServerNext
  <2>1. Core'
    BY <1>0, <1>2, ServeReadStep, ServeDeleStep, ServeQuitStep, ServerEndsStep DEF ServerNext
  <2> QED BY <1>0, <2>1, NextCounts DEF IInv
<1>3. CASE FaultNext
  <2>1. Core'
    BY <1>0, <1>3, OpenFailsStep, ReadTimeoutStep, SslFailsStep, SigIntStep, ServerEndsStep
       DEF FaultNext, NetworkNext
  <2> QED BY <1>0, <2>1, NextCounts DEF IInv
<1>4. CASE UNCHANGED vars
  <2>1. Core' BY <1>0, <1>4, StutterStep
  <2> QED BY <1>0, <2>1, NextCounts DEF IInv
<1> QED BY <1>1, <1>2, <1>3, <1>4 DEF Next, Spin, Terminated

\* IInv is an invariant of every session.
THEOREM Invariance == Spec => []IInv
<1>1. Init => IInv BY InitIInv
<1>2. IInv /\ [Next]_vars => IInv' BY NextIInv
<1> QED BY <1>1, <1>2, PTL DEF Spec

\* The state of a session has its types: what the parser hands to is_weed is a
\* header, and no message is marked or removed that the mailbox never held.
THEOREM TypeCorrect == Spec => []TypeOK
<1>1. IInv => TypeOK BY DEF IInv, Core
<1> QED BY <1>1, Invariance, PTL

\* However the answers are delayed, cut, refused or left unread, POP3::scan never
\* judges message k by another message's header, and so its DELE hits the message
\* that was judged.
THEOREM OwnHeaderJudged == Spec => []OwnHeader
<1>1. IInv => OwnHeader BY DEF IInv, Core
<1> QED BY <1>1, Invariance, PTL

\* Whatever fails, a message disappears from the mailbox only if is_weed condemned it,
\* and none does in test mode.
THEOREM LossesCondemned == Spec => []OnlyCondemnedLost
<1>1. IInv => OnlyCondemnedLost BY DEF IInv, Core, Deletion, OnlyCondemnedLost
<1> QED BY <1>1, Invariance, PTL
=============================================================================
