------------------------------- MODULE Session -------------------------------
(***************************************************************************)
(* One run of Account::check (src/src/account.cc): the login, the scan of a  *)
(* POP3 mailbox message by message, the deletion of what the weeder condemns  *)
(* and the logout, over a Socket that cuts the server's answers wherever the  *)
(* network cuts them.                                                        *)
(*                                                                         *)
(*   client  Account::check, POP3 and APOP, Socket::c_open, c_read, c_write  *)
(*   server  a POP3 server as this client uses it (RFC 1939): it answers the  *)
(*           commands in order, marks messages on DELE, removes the marked   *)
(*           messages on QUIT and forgets the marks when the session ends    *)
(*           without one.  It is not part of this repository.                *)
(*                                                                         *)
(* The bytes of an answer are a sequence of segments: a status line, the     *)
(* lines of a header, the closing ".".  Socket::c_read without read_header    *)
(* returns whatever has arrived, any non-empty prefix of what was sent; with  *)
(* read_header it goes on reading until its input ends in ".\r\n".            *)
(***************************************************************************)
EXTENDS WeedRules

CONSTANTS
    Configs,      \* what a session is run with, see Config
    Maildrops,    \* mailboxes a session may find
    MaildropOctets, \* the size of the mailbox in the answer to STAT
    Phrases,      \* numbers in the texts RFC 1939 leaves to the server, see Texts
    DottedLines,  \* lines that end in "."
    BadIdLines,   \* Message-Id lines Header::rfc822_valid_msgid refuses
    FatalLines    \* lines on which the parser calls rfcerror, which exits

Fault == {"connect",   \* no connection: DNS, connect, SSL or a time out in c_open
          "refuse",    \* the server answers -ERR
          "close",     \* the server closes the connection
          "abort",     \* the server resets the connection
          "timeout",   \* select times out before the answer arrives
          "split",     \* a status line arrives in two pieces
          "dots",      \* the text of a status line ends in "."
          "numbers",   \* the text of a status line has numbers where others have words
          "sslempty",  \* SSL_read returns without data (SSL_ERROR_WANT_READ)
          "sigint",    \* the user presses ^C
          "reset"}     \* the client's close resets what the server has not read

\* apop, ssl: PROTOCOL; stamp: the greeting carries a timestamp; faults: what may
\* go wrong in this session.
Config == [prefs : Preferences, test_mode : BOOLEAN, return_status : BOOLEAN,
           apop : BOOLEAN, ssl : BOOLEAN, stamp : BOOLEAN, faults : SUBSET Fault]

ASSUME SessionAssumption ==
    /\ Configs \subseteq Config
    /\ Maildrops \subseteq Seq(Header)
    /\ MaildropOctets \in Nat
    /\ Phrases \subseteq [second : Nat, last : Nat]
    /\ DottedLines \subseteq Entry
    /\ BadIdLines \subseteq Entry
    /\ FatalLines \subseteq Entry

VARIABLES
    cfg, drop,        \* chosen once: the configuration, the initial mailbox
    pc, waiting,      \* the command at hand; waiting: written, not yet answered
    msg, num_messages,\* POP3::scan: i and num_messages
    size,             \* msg_header->size ()
    input,            \* Socket::c_read (true): what it has read so far
    msg_ids,          \* Weeder::msg_ids
    messages,         \* Account::check: messages
    mailbox_status,   \* the global of mailfilter.cc
    result,           \* what Account::check returns: 0 ("ok") or -1 ("error")
    judged,           \* history: the headers given to is_weed, with its answers
    c2s, s2c, peer,   \* the connection
    server, marked,   \* the server's session and the messages marked by DELE
    mailbox           \* the numbers of the messages left in the mailbox

configuration == <<cfg, drop>>
clientVars == <<pc, waiting, msg, num_messages, size, input, msg_ids,
                messages, mailbox_status, result, judged>>
serverVars == <<server, marked, mailbox>>
connVars   == <<c2s, s2c, peer>>
vars == <<configuration, clientVars, connVars, serverVars>>

----------------------------------------------------------------------------
\* Commands of the client.
Verb == {"USER", "PASS", "APOP", "STAT", "LIST", "TOP", "DELE", "QUIT"}
Command == [verb : Verb, no : Nat]
Cmd(v, n) == [verb |-> v, no |-> n]

(***************************************************************************)
(* Segments of the server's answers.  A status line: does it start with '+', *)
(* the number in its second word (POP3::status), the number after its last   *)
(* blank (POP3::scan, LIST), does it end in ".".  A header line: its message  *)
(* and its place in that message's header.  "front" and "back" are the two   *)
(* pieces of a status line cut before its first number.                      *)
(***************************************************************************)
Segment == [kind : {"status", "front", "back", "line", "end"}, ok : BOOLEAN,
            second : Nat, last : Nat, dot : BOOLEAN, no : Nat, at : Nat]

Status(ok, second, last, dot) ==
    [kind |-> "status", ok |-> ok, second |-> second, last |-> last,
     dot |-> dot, no |-> 0, at |-> 0]
FrontOf(s) == [s EXCEPT !.kind = "front", !.second = 0, !.last = 0, !.dot = FALSE]
BackOf(s)  == [s EXCEPT !.kind = "back", !.ok = FALSE]
HeaderLine(m, k) ==
    [kind |-> "line", ok |-> FALSE, second |-> 0, last |-> 0,
     dot |-> drop[m].entries[k] \in DottedLines, no |-> m, at |-> k]
End == [kind |-> "end", ok |-> FALSE, second |-> 0, last |-> 0,
        dot |-> TRUE, no |-> 0, at |-> 0]

\* A status line as it travels: whole, or cut in two.
Cuts(s) == {<<s>>} \union (IF "split" \in cfg.faults THEN {<<FrontOf(s), BackOf(s)>>} ELSE {})
Dot == IF "dots" \in cfg.faults THEN BOOLEAN ELSE {FALSE}

All == DOMAIN drop
Gone == {"done", "killed"}

TypeOK ==
    /\ cfg \in Configs /\ drop \in Maildrops
    /\ pc \in {"open", "greeting", "USER", "PASS", "APOP", "STAT1", "STAT2", "LIST",
               "TOP", "DELE", "STAT3", "QUIT", "close"} \union Gone
    /\ waiting \in BOOLEAN
    /\ msg \in Nat /\ num_messages \in Nat /\ size \in Nat
    /\ input \in Seq(Segment)
    /\ msg_ids \subseteq Body
    /\ messages \in Nat /\ mailbox_status \in Nat
    /\ result \in {"none", "ok", "error"}
    /\ judged \in Seq([header : Header, weed : {0, 1}])
    /\ c2s \in Seq(Command) /\ s2c \in Seq(Segment)
    /\ peer \in {"up", "fin", "err", "rst"}
    /\ server \in {"listen", "auth", "trans", "closed"}
    /\ marked \subseteq All /\ mailbox \subseteq All

Init ==
    /\ cfg \in Configs /\ drop \in Maildrops
    /\ pc = "open" /\ waiting = FALSE
    /\ msg = 0 /\ num_messages = 0 /\ size = 0
    /\ input = <<>> /\ msg_ids = {} /\ messages = 0 /\ mailbox_status = 0
    /\ result = "none" /\ judged = <<>>
    /\ c2s = <<>> /\ s2c = <<>> /\ peer = "up"
    /\ server = "listen" /\ marked = {} /\ mailbox = DOMAIN drop
----------------------------------------------------------------------------
(***************************************************************************)
(* The server.                                                              *)
(***************************************************************************)
Left == mailbox \ marked

Granted(c) ==
    \/ c.verb \in {"USER", "PASS"} /\ server = "auth"
    \/ c.verb = "APOP" /\ server = "auth" /\ cfg.stamp
    \/ c.verb = "STAT" /\ server = "trans"
    \/ c.verb \in {"LIST", "TOP", "DELE"} /\ server = "trans" /\ c.no \in Left
    \/ c.verb = "QUIT"

HeaderLines(m) == [k \in DOMAIN drop[m].entries |-> HeaderLine(m, k)]

(***************************************************************************)
(* Only the answers to STAT and LIST have a form.  All others, refusals and   *)
(* the greeting included, are "+OK" or "-ERR" and a text of the server's: it  *)
(* has numbers in the places the client looks at ("+OK 2 messages"), or atoi  *)
(* makes 0 of what stands there.                                             *)
(***************************************************************************)
Texts == {[second |-> 0, last |-> 0]}
             \union (IF "numbers" \in cfg.faults THEN Phrases ELSE {})
Free(ok, dots) == UNION {Cuts(Status(ok, t.second, t.last, d)) : t \in Texts, d \in dots}

Answers(c) ==
    CASE c.verb = "STAT" -> Cuts(Status(TRUE, Cardinality(Left), MaildropOctets, FALSE))
      [] c.verb = "LIST" -> Cuts(Status(TRUE, c.no, drop[c.no].size, FALSE))
      [] c.verb = "TOP"  -> {s \o HeaderLines(c.no) \o <<End>> : s \in Free(TRUE, Dot)}
      [] OTHER           -> Free(TRUE, Dot)

Refusals == Free(FALSE, BOOLEAN)

\* What is sent to a client that has closed its socket is thrown away.
Transmit(s) == s2c' = IF pc \in Gone THEN <<>> ELSE s2c \o s

Serving == server \in {"auth", "trans"} /\ c2s # <<>> /\ c2s' = Tail(c2s)

ServeRead ==
    /\ Serving
    /\ Granted(Head(c2s))
    /\ Head(c2s).verb \notin {"DELE", "QUIT"}
    /\ \E s \in Answers(Head(c2s)) : Transmit(s)
    /\ server' = IF Head(c2s).verb \in {"PASS", "APOP"} THEN "trans" ELSE server
    /\ UNCHANGED <<configuration, clientVars, peer, marked, mailbox>>

ServeDele ==
    /\ Serving
    /\ Granted(Head(c2s))
    /\ Head(c2s).verb = "DELE"
    /\ marked' = marked \union {Head(c2s).no}
    /\ \E s \in Answers(Head(c2s)) : Transmit(s)
    /\ UNCHANGED <<configuration, clientVars, peer, server, mailbox>>

\* QUIT removes the marked messages and ends the connection.
ServeQuit ==
    /\ Serving
    /\ Head(c2s).verb = "QUIT"
    /\ mailbox' = mailbox \ marked
    /\ marked' = {}
    /\ server' = "closed"
    /\ peer' = "fin"
    /\ \E s \in Answers(Head(c2s)) : Transmit(s)
    /\ UNCHANGED <<configuration, clientVars>>

Refuse ==
    /\ Serving
    /\ \/ ~Granted(Head(c2s))
       \/ "refuse" \in cfg.faults /\ Head(c2s).verb # "QUIT"
    /\ \E s \in Refusals : Transmit(s)
    /\ UNCHANGED <<configuration, clientVars, peer, serverVars>>

\* The session ends without QUIT: nothing is removed.
EndSession == server' = "closed" /\ marked' = {} /\ UNCHANGED mailbox

ServerClose ==
    /\ "close" \in cfg.faults
    /\ server \in {"auth", "trans"}
    /\ EndSession
    /\ peer' = "fin" /\ c2s' = <<>>
    /\ UNCHANGED <<configuration, clientVars, s2c>>

\* A reset may overtake answers that have not arrived yet.
ServerAbort ==
    /\ "abort" \in cfg.faults
    /\ server \in {"auth", "trans"}
    /\ EndSession
    /\ peer' = "err" /\ c2s' = <<>>
    /\ \E k \in 0..Len(s2c) : s2c' = SubSeq(s2c, 1, k)
    /\ UNCHANGED <<configuration, clientVars>>

\* The client is gone and everything it wrote has been served.
ServerEof ==
    /\ pc \in Gone
    /\ server \in {"auth", "trans"} /\ c2s = <<>>
    /\ EndSession
    /\ peer' = "fin"
    /\ UNCHANGED <<configuration, clientVars, c2s, s2c>>

\* close (2) with unread answers resets the connection: what the server has
\* not read yet, be it QUIT, is lost.
CloseResets ==
    /\ "reset" \in cfg.faults
    /\ pc \in Gone
    /\ server \in {"auth", "trans"} /\ c2s # <<>>
    /\ EndSession
    /\ peer' = "fin" /\ c2s' = <<>>
    /\ UNCHANGED <<configuration, clientVars, s2c>>

ServerNext == ServeRead \/ ServeDele \/ ServeQuit \/ Refuse \/ ServerEof
NetworkNext == ServerClose \/ ServerAbort \/ CloseResets

----------------------------------------------------------------------------
(***************************************************************************)
(* The client.  Goto names the command that follows and whether its answer   *)
(* is awaited already.                                                      *)
(***************************************************************************)
Goto(p, w) == pc' = p /\ waiting' = w

\* A failed login is followed by c_close, a later failure by logout and c_close.
Fail ==
    /\ result' = "error"
    /\ Goto(IF pc \in {"greeting", "USER", "PASS", "APOP"} THEN "close" ELSE "QUIT", FALSE)

\* exit (-1) or a deadly signal: the kernel closes the socket, QUIT is not sent.
Exit == Goto("killed", FALSE) /\ s2c' = <<>>

\* Socket::c_open.
Open ==
    /\ pc = "open"
    /\ server' = "auth"
    /\ \E ok \in {TRUE, "refuse" \notin cfg.faults} : s2c' \in Free(ok, Dot)
    /\ Goto("greeting", TRUE)
    /\ UNCHANGED <<configuration, msg, num_messages, size, input, msg_ids, messages,
                   mailbox_status, result, judged, c2s, peer, marked, mailbox>>

OpenFails ==
    /\ pc = "open"
    /\ "connect" \in cfg.faults
    /\ result' = "error"
    /\ Goto("done", FALSE)
    /\ UNCHANGED <<configuration, msg, num_messages, size, input, msg_ids, messages,
                   mailbox_status, judged, connVars, serverVars>>

(***************************************************************************)
(* Socket::c_write.  After the server has closed, a write is lost and may be  *)
(* answered by a reset; on a connection known to be reset it raises SIGPIPE,  *)
(* which nothing in the program handles.  With SSL c_close writes, too        *)
(* (SSL_shutdown).                                                           *)
(***************************************************************************)
Written(c) ==
    \/ peer = "up" /\ c2s' = Append(c2s, c) /\ UNCHANGED peer
    \/ peer = "fin" /\ peer' \in {"fin", "rst"} /\ UNCHANGED c2s

NotWritten == peer = "err" /\ peer' = "rst" /\ UNCHANGED c2s

Asking == {"USER", "PASS", "APOP", "STAT1", "STAT2", "LIST", "TOP", "STAT3"}

\* Mutants of CommandAt: DELE names the message before; QUIT precedes the last STAT.
DeleOffByOne(p) ==
    IF p \in {"STAT1", "STAT2", "STAT3"} THEN Cmd("STAT", 0)
    ELSE Cmd(p, IF p = "DELE" THEN msg - 1 ELSE IF p \in {"LIST", "TOP"} THEN msg ELSE 0)
QuitBeforeStat(p) ==
    IF p = "STAT3" THEN Cmd("QUIT", 0)
    ELSE IF p \in {"STAT1", "STAT2"} THEN Cmd("STAT", 0)
    ELSE Cmd(p, IF p \in {"LIST", "TOP", "DELE"} THEN msg ELSE 0)

CommandAt(p) ==
    IF p \in {"STAT1", "STAT2", "STAT3"} THEN Cmd("STAT", 0)
    ELSE Cmd(p, IF p \in {"LIST", "TOP", "DELE"} THEN msg ELSE 0)

Ask ==
    /\ pc \in Asking /\ ~waiting
    /\ Written(CommandAt(pc))
    /\ Goto(pc, TRUE)
    /\ UNCHANGED <<configuration, msg, num_messages, size, input, msg_ids, messages,
                   mailbox_status, result, judged, s2c, serverVars>>

AskFails ==
    /\ pc \in Asking /\ ~waiting
    /\ NotWritten
    /\ Fail
    /\ UNCHANGED <<configuration, msg, num_messages, size, input, msg_ids, messages,
                   mailbox_status, judged, s2c, serverVars>>

SigPipe ==
    /\ pc \in Asking \union {"DELE", "QUIT", "close"} /\ ~waiting
    /\ pc = "DELE" => ~cfg.test_mode
    /\ pc = "close" => cfg.ssl
    /\ peer = "rst"
    /\ Exit
    /\ UNCHANGED <<configuration, msg, num_messages, size, input, msg_ids, messages,
                   mailbox_status, result, judged, c2s, peer, serverVars>>

(***************************************************************************)
(* Socket::c_read (): what has arrived of s2c, at least one segment.         *)
(***************************************************************************)
Receive(k) == waiting /\ s2c' = SubSeq(s2c, k + 1, Len(s2c))
Received(k) == SubSeq(s2c, 1, k)

\* Mutant of Positive: any answer is taken for a positive one.
AnyReply(reply) == reply # <<>>

\* REPLY_OK and HEADER_OK.
Positive(reply) == reply[1].ok

\* The status line the reply starts with was read to its end.
Complete(reply) == reply[1].kind = "status" \/ (reply[1].kind = "front" /\ Len(reply) > 1)

\* Mutant of SecondWord: messages are counted from 0.
SecondWordLessOne(reply) == reply[1].second - 1

\* POP3::status: the second word of the reply; a reply that ends before its
\* second word counts as 0.
SecondWord(reply) ==
    IF reply[1].kind = "front" /\ Len(reply) > 1 THEN reply[2].second ELSE reply[1].second

\* Mutant of LastWord: find_first_of in place of find_last_of.
FirstNumber(reply) == reply[Len(reply)].second

\* POP3::scan: the number behind the last blank of everything that was read.
LastWord(reply) == reply[Len(reply)].last

\* POP3::login, APOP::login: the greeting.  APOP looks for its timestamp only.
ReadGreeting ==
    /\ pc = "greeting"
    /\ \E k \in 1..Len(s2c) :
          /\ Receive(k)
          /\ \/ ~cfg.apop /\ Goto("USER", FALSE) /\ UNCHANGED result
             \/ cfg.apop /\ cfg.stamp /\ Complete(Received(k)) /\ Goto("APOP", FALSE)
                /\ UNCHANGED result
             \/ cfg.apop /\ ~(cfg.stamp /\ Complete(Received(k))) /\ Fail
    /\ UNCHANGED <<configuration, msg, num_messages, size, input, msg_ids, messages,
                   mailbox_status, judged, c2s, peer, serverVars>>

\* The answers to USER, PASS and APOP.
ReadLogin ==
    /\ pc \in {"USER", "PASS", "APOP"}
    /\ \E k \in 1..Len(s2c) :
          /\ Receive(k)
          /\ \/ Positive(Received(k)) /\ UNCHANGED result
                /\ Goto(IF pc = "USER" THEN "PASS" ELSE "STAT1", FALSE)
             \/ ~Positive(Received(k)) /\ Fail
    /\ UNCHANGED <<configuration, msg, num_messages, size, input, msg_ids, messages,
                   mailbox_status, judged, c2s, peer, serverVars>>

\* What follows the scan in Account::check.
EndScan ==
    IF cfg.return_status
    THEN Goto("STAT3", FALSE) /\ UNCHANGED mailbox_status
    ELSE Goto("QUIT", FALSE) /\ mailbox_status' = mailbox_status + messages

\* POP3::status called by Account::check, before the scan.
ReadStatus ==
    /\ pc = "STAT1"
    /\ \E k \in 1..Len(s2c) :
          /\ Receive(k)
          /\ \/ Positive(Received(k)) /\ Goto("STAT2", FALSE)
                /\ messages' = SecondWord(Received(k)) /\ UNCHANGED result
             \/ ~Positive(Received(k)) /\ Fail /\ UNCHANGED messages
    /\ UNCHANGED <<configuration, msg, num_messages, size, input, msg_ids,
                   mailbox_status, judged, c2s, peer, serverVars>>

\* POP3::status called by POP3::scan: how many messages the loop examines.
ReadCount ==
    /\ pc = "STAT2"
    /\ \E k \in 1..Len(s2c) :
          /\ Receive(k)
          /\ \/ /\ Positive(Received(k))
                /\ num_messages' = SecondWord(Received(k))
                /\ msg' = 1
                /\ IF num_messages' > 0
                   THEN Goto("LIST", FALSE) /\ UNCHANGED mailbox_status
                   ELSE EndScan
                /\ UNCHANGED result
             \/ /\ ~Positive(Received(k)) /\ Fail
                /\ UNCHANGED <<msg, num_messages, mailbox_status>>
    /\ UNCHANGED <<configuration, size, input, msg_ids, messages, judged,
                   c2s, peer, serverVars>>

\* POP3::status called by Account::check after the scan, for the exit status.
ReadRemaining ==
    /\ pc = "STAT3"
    /\ \E k \in 1..Len(s2c) :
          /\ Receive(k)
          /\ \/ /\ Positive(Received(k))
                /\ messages' = SecondWord(Received(k))
                /\ mailbox_status' = mailbox_status + messages'
                /\ Goto("QUIT", FALSE) /\ UNCHANGED result
             \/ ~Positive(Received(k)) /\ Fail /\ UNCHANGED <<messages, mailbox_status>>
    /\ UNCHANGED <<configuration, msg, num_messages, size, input, msg_ids, judged,
                   c2s, peer, serverVars>>

\* POP3::scan: the answer to LIST.
ReadList ==
    /\ pc = "LIST"
    /\ \E k \in 1..Len(s2c) :
          /\ Receive(k)
          /\ \/ Positive(Received(k)) /\ Goto("TOP", FALSE)
                /\ size' = LastWord(Received(k)) /\ UNCHANGED result
             \/ ~Positive(Received(k)) /\ Fail /\ UNCHANGED size
    /\ UNCHANGED <<configuration, msg, num_messages, input, msg_ids, messages,
                   mailbox_status, judged, c2s, peer, serverVars>>

(***************************************************************************)
(* c_read () returns without data: recv finds the end of the stream or an     *)
(* error; SSL_read finds close_notify or has no data yet.  Only POP3::login   *)
(* takes an empty greeting.                                                  *)
(***************************************************************************)
ReadNothing ==
    /\ waiting /\ pc # "TOP"
    /\ \/ s2c = <<>> /\ peer # "up" /\ (cfg.ssl => peer = "fin")
       \/ "sslempty" \in cfg.faults /\ cfg.ssl
    /\ IF pc = "greeting" /\ ~cfg.apop
       THEN Goto("USER", FALSE) /\ UNCHANGED result
       ELSE Fail
    /\ peer' = IF peer = "err" /\ ~cfg.ssl THEN "rst" ELSE peer
    /\ UNCHANGED <<configuration, msg, num_messages, size, input, msg_ids, messages,
                   mailbox_status, judged, c2s, s2c, serverVars>>

\* Any other error of SSL_read, a stream that ends without close_notify included, makes
\* c_read fail wherever it is; what it has read so far is lost.
SslFails ==
    /\ waiting /\ cfg.ssl /\ peer # "up"
    /\ Fail
    /\ input' = <<>> /\ s2c' = <<>>
    /\ peer' = IF peer = "err" THEN "rst" ELSE peer
    /\ UNCHANGED <<configuration, msg, num_messages, size, msg_ids, messages,
                   mailbox_status, judged, c2s, serverVars>>

\* select times out.  c_read (true) calls it once, before the first byte.
ReadTimeout ==
    /\ "timeout" \in cfg.faults
    /\ waiting
    /\ pc = "TOP" => input = <<>>
    /\ Fail
    /\ UNCHANGED <<configuration, msg, num_messages, size, input, msg_ids, messages,
                   mailbox_status, judged, connVars, serverVars>>

\* One turn of the loop of c_read (true) that finds data.
ReadHeader ==
    /\ pc = "TOP"
    /\ \E k \in 1..Len(s2c) : Receive(k) /\ input' = input \o Received(k)
    /\ UNCHANGED <<configuration, pc, waiting, msg, num_messages, size, msg_ids,
                   messages, mailbox_status, result, judged, c2s, peer, serverVars>>

\* Turns that find none while input does not end in ".\r\n": the loop goes on,
\* also at the end of the stream.
EndedOffByOne == Len(input) > 1 /\ input[Len(input) - 1].dot    \* mutant of Ended
Ended == input # <<>> /\ input[Len(input)].dot
Spin ==
    /\ pc = "TOP" /\ waiting
    /\ s2c = <<>> /\ ~Ended
    /\ UNCHANGED vars

(***************************************************************************)
(* invoke_msg_parser: the lines of the input that are header fields, in       *)
(* order.  What is not one, a status line of an earlier answer included, is   *)
(* skipped by the scanner.                                                   *)
(***************************************************************************)
LinesRead == {k \in DOMAIN input : input[k].kind = "line"}

Parsed ==
    IF LinesRead = {} THEN <<>>
    ELSE [k \in 1..(Max(LinesRead) - Min(LinesRead) + 1) |->
            LET s == input[Min(LinesRead) + k - 1] IN drop[s.no].entries[s.at]]

\* The first line the parser cannot get past.
BadId == \E k \in DOMAIN Parsed :
            /\ Parsed[k] \in BadIdLines
            /\ \A j \in 1..k : Parsed[j] \notin FatalLines
Fatal == ~BadId /\ \E k \in DOMAIN Parsed : Parsed[k] \in FatalLines

EndHeader == pc = "TOP" /\ waiting /\ Ended

\* HEADER_OK is false, or invoke_msg_parser caught WrongMessageIDException.
ScanFails ==
    /\ EndHeader
    /\ ~Positive(input) \/ BadId
    /\ Fail
    /\ input' = <<>>
    /\ UNCHANGED <<configuration, msg, num_messages, size, msg_ids, messages,
                   mailbox_status, judged, connVars, serverVars>>

\* A line the grammar has no rule for: rfcerror.
ParserExits ==
    /\ EndHeader
    /\ Positive(input) /\ Fatal
    /\ Exit
    /\ UNCHANGED <<configuration, msg, num_messages, size, input, msg_ids, messages,
                   mailbox_status, result, judged, c2s, peer, serverVars>>

\* Mutant of NextMessage: the last message is not examined.
NextMessageOffByOne ==
    /\ msg' = msg + 1
    /\ IF msg + 1 < num_messages
       THEN Goto("LIST", FALSE) /\ UNCHANGED mailbox_status
       ELSE EndScan

NextMessage ==
    /\ msg' = msg + 1
    /\ IF msg < num_messages
       THEN Goto("LIST", FALSE) /\ UNCHANGED mailbox_status
       ELSE EndScan

\* Weeder::is_weed of the header just parsed.
Weed ==
    /\ EndHeader
    /\ Positive(input) /\ ~BadId /\ ~Fatal
    /\ LET h == [entries |-> Parsed, size |-> size]
           w == is_weed(cfg.prefs, msg_ids, h)
       IN  /\ judged' = Append(judged, [header |-> h, weed |-> w])
           /\ msg_ids' = Remember(cfg.prefs, msg_ids, h)
           /\ IF w = 1
              THEN Goto("DELE", FALSE) /\ UNCHANGED <<msg, mailbox_status>>
              ELSE NextMessage
    /\ input' = <<>>
    /\ UNCHANGED <<configuration, num_messages, size, messages, result,
                   connVars, serverVars>>

\* Mutants of RemoveMsg: the last message is kept; every deletion is committed at
\* once.
RemoveMsgButLast ==
    /\ pc = "DELE"
    /\ \/ (cfg.test_mode \/ msg = num_messages) /\ UNCHANGED <<c2s, peer>>
       \/ ~cfg.test_mode /\ msg # num_messages /\ (Written(CommandAt("DELE")) \/ NotWritten)
    /\ NextMessage
    /\ UNCHANGED <<configuration, num_messages, size, input, msg_ids, messages,
                   result, judged, s2c, serverVars>>
RemoveMsgAtOnce ==
    /\ pc = "DELE"
    /\ peer = "up"
    /\ c2s' = c2s \o <<CommandAt("DELE"), Cmd("QUIT", 0)>>
    /\ NextMessage
    /\ UNCHANGED <<configuration, num_messages, size, input, msg_ids, messages,
                   result, judged, s2c, peer, serverVars>>

\* POP3::remove_msg: nobody looks at its result and nobody reads its answer.
RemoveMsg ==
    /\ pc = "DELE"
    /\ \/ cfg.test_mode /\ UNCHANGED <<c2s, peer>>
       \/ ~cfg.test_mode /\ (Written(CommandAt("DELE")) \/ NotWritten)
    /\ NextMessage
    /\ UNCHANGED <<configuration, num_messages, size, input, msg_ids, messages,
                   result, judged, s2c, serverVars>>

\* POP3::logout: QUIT is written, its answer is not read.  The last line of
\* Account::check calls c_close only if that succeeds, its error paths always.
Logout ==
    /\ pc = "QUIT"
    /\ \/ Written(Cmd("QUIT", 0)) /\ Goto("close", FALSE) /\ UNCHANGED result
       \/ NotWritten /\ Goto(IF result = "none" THEN "done" ELSE "close", FALSE)
          /\ result' = "error"
    /\ UNCHANGED <<configuration, msg, num_messages, size, input, msg_ids, messages,
                   mailbox_status, judged, s2c, serverVars>>

\* Socket::c_close, and the return of Account::check.
Close ==
    /\ pc = "close"
    /\ result' = IF result = "none" THEN "ok" ELSE result
    /\ Goto("done", FALSE)
    /\ s2c' = <<>>
    /\ UNCHANGED <<configuration, msg, num_messages, size, input, msg_ids, messages,
                   mailbox_status, judged, c2s, peer, serverVars>>

\* connect_sigint (mailfilter.cc).
SigInt ==
    /\ "sigint" \in cfg.faults
    /\ pc \notin Gone
    /\ Exit
    /\ UNCHANGED <<configuration, msg, num_messages, size, input, msg_ids, messages,
                   mailbox_status, result, judged, c2s, peer, serverVars>>

Terminated == pc \in Gone /\ server \in {"listen", "closed"} /\ UNCHANGED vars

ClientNext ==
    \/ Open \/ Ask \/ AskFails \/ SigPipe
    \/ ReadGreeting \/ ReadLogin \/ ReadStatus \/ ReadCount \/ ReadRemaining
    \/ ReadList \/ ReadHeader \/ ReadNothing \/ ScanFails \/ ParserExits
    \/ Weed \/ RemoveMsg \/ Logout \/ Close

FaultNext == OpenFails \/ ReadTimeout \/ SslFails \/ SigInt \/ NetworkNext

Next == ClientNext \/ ServerNext \/ FaultNext \/ Spin \/ Terminated

Spec == Init /\ [][Next]_vars

\* The client runs as long as it can, and so does the server: neither waits for
\* the user or for anything but the other.
FairSpec == Spec /\ WF_vars(ClientNext) /\ WF_vars(ServerNext)

----------------------------------------------------------------------------
(***************************************************************************)
(* Properties.                                                              *)
(***************************************************************************)
\* The messages POP3::scan wants to be removed.
Condemned == {k \in DOMAIN judged : judged[k].weed = 1}
Doomed == IF cfg.test_mode THEN {} ELSE Condemned

\* Whatever answers are still unread, the header examined as message k is the
\* beginning of message k's own header: DELE never hits the message before or
\* behind the one that was judged.
OwnHeader ==
    \A k \in DOMAIN judged :
        /\ k \in All
        /\ judged[k].header.entries =
              SubSeq(drop[k].entries, 1, Len(judged[k].header.entries))

\* A message disappears from the mailbox only if is_weed condemned the header
\* read for it, and none does in test mode, whatever fails in between.
OnlyCondemnedLost == All \ mailbox \subseteq Doomed

\* Messages disappear only after the client has finished with the mailbox and said QUIT:
\* a lost connection or a signal before that keeps them all, and a program that dies in
\* the parser or of SIGPIPE, be it in c_close, has lost none.
NothingLostBeforeQuit ==
    mailbox # All =>
        \/ pc \in {"close", "done"}
        \/ pc = "killed" /\ "sigint" \in cfg.faults

\* The deletions of a session take effect together: either all the messages
\* condemned by it are gone, or none is (unless the server refused a DELE).
AllOrNothing == "refuse" \notin cfg.faults => mailbox \in {All, All \ Doomed}

\* Account::check returns 0 only if every message of the mailbox was examined, unless
\* the answer to STAT was cut or delayed.
Prompt == cfg.faults \intersect {"split", "sslempty"} = {}
AllExamined == result = "ok" => DOMAIN judged = All
ScanIsComplete == Prompt => AllExamined

\* The size the rules see is the message's own, or the message before was deleted: then
\* LIST may read the unread answer to that DELE instead of its own, and the size is the
\* number its text ends in, 0 if it ends in none.  Answers that come in pieces or not at
\* all (see Prompt) shift other numbers into its place.
SizeOwnOrStray ==
    Prompt => \A k \in DOMAIN judged \intersect All :
                  \/ judged[k].header.size = drop[k].size
                  \/ k - 1 \in Doomed /\ \E t \in Texts : judged[k].header.size = t.last

\* The client is at most one answer behind when it asks for the next message: a
\* leftover that would shift the answers further makes the next read fail.
Owed == Cardinality({k \in DOMAIN s2c : s2c[k].kind \in {"status", "front"}}) + Len(c2s)
AtMostOneBehind ==
    pc = "LIST" /\ ~waiting => \/ Owed <= 1
                               \/ s2c # <<>> /\ ~Positive(s2c)

\* The program comes to an end, and with a server that serves every command a
\* session that returns 0 leaves exactly the messages is_weed let pass: what it
\* condemned really goes, though no answer to DELE or QUIT is ever read.
EventuallyPurged ==
    <>[](/\ pc \in Gone
         /\ server \in {"listen", "closed"}
         /\ result = "ok" => mailbox = All \ Doomed)

(***************************************************************************)
(* Session implements Purge, whatever fails.  When headers arrive whole (no   *)
(* line of theirs and no status line ends in ".") and no rule looks at the    *)
(* size, the messages that may go are those the rules condemn by their own    *)
(* headers; otherwise any may.  A refused TOP may end in "." too and leave a  *)
(* header without lines, which a high_score of 0 would condemn.               *)
(***************************************************************************)
IdsBefore(k) ==
    IF cfg.prefs.del_duplicates
    THEN {ID(drop[j]) : j \in 1..(k - 1)} \ {NoText}
    ELSE {}

ArriveWhole(c, d) ==
    /\ "dots" \notin c.faults
    /\ \A k \in DOMAIN d : Lines(d[k]) \intersect DottedLines = {}
    /\ SizeBlind(c.prefs)
    /\ "refuse" \in c.faults => ~WeedByRules(c.prefs, [entries |-> <<>>, size |-> 0])
Whole == ArriveWhole(cfg, drop)

Wanted ==
    CASE cfg.test_mode -> {}
      [] ~cfg.test_mode /\ Whole ->
            {k \in All : is_weed(cfg.prefs, IdsBefore(k), drop[k]) = 1}
      [] ~cfg.test_mode /\ ~Whole -> All

Promise == INSTANCE Purge WITH
    Numbers <- Nat, wanted <- Wanted, mailbox <- mailbox, over <- (server = "closed")
PurgeSpec == Promise!Spec

----------------------------------------------------------------------------
(***************************************************************************)
(* What comments and documents say of the program.                          *)
(***************************************************************************)
\* man/mailfilterrc.5:162-164: MAXSIZE_DENY is "a general message size limit that
\* must not be exceeded. (Unless the incoming message matches an ALLOW rule.)"
MaxsizeDenyHonoured ==
    \A k \in DOMAIN judged :
        MaxsizeDenyExceeded(cfg.prefs, drop[k]) /\ check_allow_rules(cfg.prefs, drop[k]) = 2
            => judged[k].weed = 1

\* man/mailfilterrc.5:281-284: the server "has to respond to an issued command within a
\* given time span, otherwise Mailfilter will drop the connection".  Here: c_read does not
\* stay within a header for ever.
WithinHeader == waiting /\ \E k \in DOMAIN input : input[k].kind = "line"
TimeoutHonoured == WithinHeader ~> ~waiting

=============================================================================
