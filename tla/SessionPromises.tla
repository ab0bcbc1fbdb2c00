--------------------------- MODULE SessionPromises ---------------------------
(***************************************************************************)
(* What a session promises beyond the safety of single messages: all or       *)
(* nothing is deleted, a scan without an error is complete, sizes are not      *)
(* mixed up, the client stays at most one answer behind, and the session as a  *)
(* whole implements Purge.                                                   *)
(***************************************************************************)
EXTENDS SessionProofs

\* The actions other than those that serve commands, by what they leave alone.
Idle == AskFails \/ SigPipe \/ SigInt \/ ReadGreeting \/ ReadLogin \/ ReadStatus \/ ReadCount
          \/ ReadRemaining \/ ReadList \/ ReadHeader \/ ReadNothing \/ SslFails
          \/ ReadTimeout \/ ScanFails \/ ParserExits \/ Close \/ OpenFails
Serve == ServeRead \/ ServeDele \/ ServeQuit \/ Refuse
Ends  == ServerEof \/ ServerClose \/ ServerAbort \/ CloseResets

\* Every step is one of these.
LEMMA StepKinds ==
    ASSUME [Next]_vars
    PROVE  Idle \/ Open \/ Ask \/ Weed \/ RemoveMsg \/ Logout \/ Serve \/ Ends \/ UNCHANGED vars
BY DEF Next, ClientNext, ServerNext, FaultNext, NetworkNext, Spin, Terminated, Idle, Serve, Ends

\* What an idle step of the client leaves alone, and what it may do to its own place.
LEMMA IdleFacts ==
    ASSUME Idle
    PROVE  /\ UNCHANGED <<cfg, drop, judged, c2s, server, marked, mailbox, msg_ids>>
           /\ waiting' \in BOOLEAN
<1>1. CASE AskFails
  BY <1>1 DEF AskFails, NotWritten, Fail, Goto, configuration, serverVars
<1>2. CASE SigPipe \/ SigInt \/ ParserExits
  BY <1>2 DEF SigPipe, SigInt, ParserExits, Exit, Goto, configuration, serverVars
<1>3. CASE ReadGreeting
  BY <1>3 DEF ReadGreeting, Fail, Goto, configuration, serverVars
<1>4. CASE ReadLogin
  BY <1>4 DEF ReadLogin, Fail, Goto, configuration, serverVars
<1>5. CASE ReadStatus
  BY <1>5 DEF ReadStatus, Fail, Goto, configuration, serverVars
<1>6. CASE ReadCount
  BY <1>6 DEF ReadCount, EndScan, Fail, Goto, configuration, serverVars
<1>7. CASE ReadRemaining
  BY <1>7 DEF ReadRemaining, Fail, Goto, configuration, serverVars
<1>8. CASE ReadList
  BY <1>8 DEF ReadList, Fail, Goto, configuration, serverVars
<1>9. CASE ReadHeader
  BY <1>9 DEF ReadHeader, Receive, configuration, serverVars
<1>10. CASE ReadNothing
  BY <1>10 DEF ReadNothing, Fail, Goto, configuration, serverVars
<1>11. CASE ReadTimeout \/ ScanFails
  BY <1>11 DEF ReadTimeout, ScanFails, Fail, Goto, configuration, connVars, serverVars
<1>12. CASE Close \/ OpenFails
  BY <1>12 DEF Close, OpenFails, Goto, configuration, connVars, serverVars
<1>13. CASE SslFails
  BY <1>13 DEF SslFails, Fail, Goto, configuration, serverVars
<1> QED BY <1>1, <1>2, <1>3, <1>4, <1>5, <1>6, <1>7, <1>8, <1>9, <1>10, <1>11, <1>12, <1>13 DEF Idle

\* What the client does when it writes.
LEMMA WriteFacts ==
    ASSUME Core, Ask \/ RemoveMsg \/ Logout
    PROVE  /\ UNCHANGED <<cfg, drop, judged, server, marked, mailbox, s2c, msg_ids>>
           /\ server \in {"auth", "trans"} => peer' = "up"
BY DEF Ask, RemoveMsg, Logout, Written, NotWritten, configuration, serverVars, Core, Deletion

\* What the weeder's step changes on the connection: nothing.
LEMMA WeedFacts ==
    ASSUME Weed
    PROVE  /\ UNCHANGED <<cfg, drop, c2s, s2c, peer, server, marked, mailbox, size, num_messages>>
           /\ pc = "TOP" /\ waiting
BY DEF Weed, EndHeader, configuration, connVars, serverVars

\* What a step of the server leaves to the client.
LEMMA ServeFrame ==
    ASSUME Serve \/ Ends
    PROVE  /\ UNCHANGED <<cfg, drop, pc, waiting, msg, num_messages, size, input, msg_ids,
                          result, judged>>
           /\ server \in {"auth", "trans"}
BY DEF Serve, Ends, ServeRead, ServeDele, ServeQuit, Refuse, Serving, ServerEof, ServerClose,
       ServerAbort, CloseResets, configuration, clientVars

----------------------------------------------------------------------------
\* Where the client is before the login is written, and after.
NotYetIn == pc \in {"open", "greeting", "USER"} \/ (pc \in Login /\ ~waiting)
PastLogin == \/ pc \in {"STAT1", "STAT2", "LIST", "TOP", "DELE", "STAT3", "QUIT"}
             \/ pc \in Login /\ waiting

\* An idle step does not write the login, and leaves a DELE unwritten only by dying.
LEMMA IdleGoes ==
    ASSUME Core, Idle
    PROVE  /\ pc \notin Gone
           /\ (NotYetIn' => NotYetIn) /\ (PastLogin' => PastLogin)
           /\ pc' = "APOP" => pc = "APOP" \/ cfg.stamp
           /\ pc' # "DELE" /\ pc' # "open" /\ (pc = "DELE" => pc' = "killed")
           /\ pc' = "killed" => \/ "sigint" \in cfg.faults \/ pc \notin {"close", "done", "killed"}
                             \/ peer = "rst"
<1>0. pc \in {"open", "DELE", "QUIT", "close", "done", "killed"} => ~waiting
  BY DEF Core, Progress
<1>1. CASE AskFails
  BY <1>1 DEF AskFails, Fail, Goto, Asking, NotYetIn, PastLogin, Login, Gone
<1>2. CASE SigPipe \/ SigInt \/ ParserExits
  BY <1>2 DEF SigPipe, SigInt, ParserExits, EndHeader, Exit, Goto, Asking, NotYetIn, PastLogin, Login, Gone
<1>3. CASE ReadGreeting
  BY <1>0, <1>3 DEF ReadGreeting, Receive, Fail, Goto, NotYetIn, PastLogin, Login, Gone
<1>4. CASE ReadLogin
  BY <1>0, <1>4 DEF ReadLogin, Receive, Fail, Goto, NotYetIn, PastLogin, Login, Gone
<1>5. CASE ReadStatus
  BY <1>0, <1>5 DEF ReadStatus, Receive, Fail, Goto, NotYetIn, PastLogin, Login, Gone
<1>6. CASE ReadCount
  BY <1>0, <1>6 DEF ReadCount, EndScan, Receive, Fail, Goto, NotYetIn, PastLogin, Login, Gone
<1>7. CASE ReadRemaining
  BY <1>0, <1>7 DEF ReadRemaining, Receive, Fail, Goto, NotYetIn, PastLogin, Login, Gone
<1>8. CASE ReadList
  BY <1>0, <1>8 DEF ReadList, Receive, Fail, Goto, NotYetIn, PastLogin, Login, Gone
<1>9. CASE ReadHeader
  BY <1>0, <1>9 DEF ReadHeader, Receive, NotYetIn, PastLogin, Login, Gone
<1>10. CASE ReadNothing
  BY <1>0, <1>10 DEF ReadNothing, Fail, Goto, NotYetIn, PastLogin, Login, Gone, Core, TypeOK
<1>11. CASE ReadTimeout \/ ScanFails
  BY <1>0, <1>11 DEF ReadTimeout, ScanFails, EndHeader, Fail, Goto, NotYetIn, PastLogin, Login, Gone, Core, TypeOK
<1>12. CASE Close \/ OpenFails
  BY <1>12 DEF Close, OpenFails, Goto, NotYetIn, PastLogin, Login, Gone
<1>13. CASE SslFails
  BY <1>0, <1>13 DEF SslFails, Fail, Goto, NotYetIn, PastLogin, Login, Gone, Core, TypeOK
<1> QED BY <1>1, <1>2, <1>3, <1>4, <1>5, <1>6, <1>7, <1>8, <1>9, <1>10, <1>11, <1>12, <1>13 DEF Idle

\* The dialogue of a step of the client that writes nothing and judges nothing.
LEMMA DialogueIdle ==
    ASSUME Core, Dialogue, Idle PROVE Dialogue'
<1>1. UNCHANGED <<cfg, drop, judged, c2s, server, marked>> BY IdleFacts
<1>2. /\ pc \notin Gone
      /\ (NotYetIn' => NotYetIn) /\ (PastLogin' => PastLogin)
      /\ pc' = "APOP" => pc = "APOP" \/ cfg.stamp
      /\ pc' # "DELE" /\ pc' # "open" /\ (pc = "DELE" => pc' = "killed")
  BY IdleGoes
<1> SUFFICES ASSUME Obliging', Live' PROVE
        /\ pc' \in {"open", "greeting", "USER"} => ~LoggedIn'
        /\ pc' \in Login => (LoggedIn' <=> waiting')
        /\ pc' \in {"STAT1", "STAT2", "LIST", "TOP", "DELE", "STAT3", "QUIT"} => LoggedIn'
        /\ pc' = "APOP" => cfg.stamp
        /\ \A k \in DOMAIN c2s' : Grantable(k)'
        /\ pc' # "killed" \/ QuitSent' => (marked \union Pending)' = Due'
  BY <1>1, Zenon DEF Dialogue, Login
<1>3. Obliging /\ Live BY <1>1 DEF Obliging, Live
<1>4. waiting' \in BOOLEAN /\ waiting \in BOOLEAN BY IdleFacts DEF Core, TypeOK
<1>5. LoggedIn' = LoggedIn /\ QuitSent' = QuitSent /\ Pending' = Pending
      /\ Doomed' = Doomed /\ All' = All /\ marked' = marked
  BY <1>1 DEF LoggedIn, QuitSent, Pending, Doomed, Condemned, All, Login
<1>6. (NotYetIn => ~LoggedIn) /\ (PastLogin => LoggedIn)
  BY <1>3, <1>4 DEF Dialogue, NotYetIn, PastLogin, Login
<1>7. \A k \in DOMAIN c2s' : Grantable(k)'
  <2>1. \A k \in DOMAIN c2s : Grantable(k) BY <1>3 DEF Dialogue
  <2> QED BY <1>1, <1>5, <2>1 DEF Grantable, Login
<1>8. pc' # "killed" \/ QuitSent' => (marked \union Pending)' = Due'
  <2>1. pc = "DELE" => ~QuitSent BY DEF Core, Deletion, QuitSent
  <2> QED BY <1>2, <1>3, <1>5, <2>1 DEF Dialogue, Due, Gone
<1> QED BY <1>1, <1>2, <1>3, <1>4, <1>5, <1>6, <1>7, <1>8 DEF NotYetIn, PastLogin, Dialogue

\* The dialogue when the connection is made.
LEMMA DialogueOpen ==
    ASSUME Core, Open PROVE Dialogue'
<1>1. /\ pc = "open" /\ pc' = "greeting"
      /\ UNCHANGED <<cfg, drop, judged, c2s, marked>> /\ server' = "auth"
  BY DEF Open, Goto, configuration
<1>2. c2s = <<>> /\ judged = <<>> /\ marked \subseteq Doomed
  BY <1>1 DEF Core, Stream, Progress, Deletion
<1>3. Doomed = {} /\ Doomed' = {} BY <1>1, <1>2 DEF Doomed, Condemned
<1>4. DOMAIN c2s' = {} BY <1>1, <1>2
<1>5. ~LoggedIn' BY <1>1, <1>4 DEF LoggedIn
<1>6. Pending' = {} /\ marked' = {} BY <1>1, <1>2, <1>3, <1>4 DEF Pending
<1> QED BY <1>1, <1>3, <1>4, <1>5, <1>6 DEF Dialogue, Login, Due

\* Once a QUIT is under way the client only closes; before that the commands under way are
\* those of the login if it is not served.
LEMMA UnderWay ==
    ASSUME Core, Dialogue, Obliging, Live, ~LoggedIn, pc \notin {"close", "done", "killed"}
    PROVE  server = "auth" /\ \A k \in DOMAIN c2s : c2s[k].verb = "USER"
<1>1. server = "auth" BY DEF Live, LoggedIn
<1>2. c2s \in Seq(Command) BY DEF Core, TypeOK
<1>3. ASSUME NEW k \in DOMAIN c2s PROVE c2s[k].verb = "USER"
  <2>1. c2s[k].verb \in Verb
    <3>1. c2s[k] \in Command BY <1>2, ElementOfSeq
    <3> QED BY <3>1 DEF Command
  <2>2. Grantable(k) BY DEF Dialogue
  <2>3. \A j \in 1..(k - 1) : j \in DOMAIN c2s BY <1>2
  <2>4. c2s[k].verb \notin Login /\ \A j \in 1..(k - 1) : c2s[j].verb \notin Login
    BY <2>3 DEF LoggedIn
  <2>5. c2s[k].verb # "QUIT" BY DEF Core, Deletion
  <2> QED BY <1>1, <2>1, <2>2, <2>4, <2>5 DEF Grantable, Verb, Login
<1> QED BY <1>1, <1>3

\* The messages that are named in a DELE, served or not, are doomed.
LEMMA PendingDoomed ==
    ASSUME Core
    PROVE  marked \subseteq Doomed /\ Pending \subseteq Doomed
           /\ Doomed \subseteq 1..Len(judged) /\ Doomed \subseteq All
<1>1. judged \in Seq([header : Header, weed : {0, 1}]) BY DEF Core, TypeOK
<1>2. \A k \in DOMAIN judged : k \in All BY DEF Core, OwnHeader
<1>3. Condemned \subseteq 1..Len(judged) /\ Condemned \subseteq All
  BY <1>1, <1>2 DEF Condemned
<1>4. Doomed \subseteq 1..Len(judged) /\ Doomed \subseteq All BY <1>3 DEF Doomed
<1>5. marked \subseteq Doomed /\ \A k \in DOMAIN c2s : c2s[k].verb = "DELE" => c2s[k].no \in Doomed
  BY DEF Core, Deletion
<1>6. Pending \subseteq Doomed BY <1>5 DEF Pending
<1> QED BY <1>4, <1>5, <1>6

\* A command written behind those under way will be granted too.
LEMMA DialogueAppend ==
    ASSUME Core, Dialogue, Obliging, Live, NEW c \in Command, c2s' = Append(c2s, c),
           pc \notin {"close", "done", "killed"}, UNCHANGED <<cfg, drop, server, marked>>,
           c.verb = "APOP" => cfg.stamp,
           c.verb \in {"USER"} \union Login => ~LoggedIn,
           c.verb \in {"STAT", "LIST", "TOP", "DELE"} => LoggedIn,
           c.verb \in {"LIST", "TOP", "DELE"} => c.no \in All /\ c.no \notin marked \union Pending
    PROVE  /\ \A k \in DOMAIN c2s' : Grantable(k)'
           /\ LoggedIn' <=> LoggedIn \/ c.verb \in Login
           /\ Pending' = IF c.verb = "DELE" THEN Pending \union {c.no} ELSE Pending
           /\ QuitSent' <=> c.verb = "QUIT"
<1>1. PICK s \in Seq(Command) : s = c2s BY DEF Core, TypeOK
<1>2. PICK n : n = c2s' OBVIOUS
<1>3. /\ n \in Seq(Command) /\ Len(n) = Len(s) + 1 /\ Len(s) \in Nat
      /\ DOMAIN n = 1..(Len(s) + 1) /\ DOMAIN s = 1..Len(s)
      /\ \A i \in DOMAIN s : n[i] = s[i]
      /\ n[Len(s) + 1] = c
  BY <1>1, <1>2, AppendFacts
<1>4. \A k \in DOMAIN s : s[k].verb # "QUIT" BY <1>1 DEF Core, Deletion
<1>5. All' = All /\ cfg' = cfg /\ server' = server /\ marked' = marked BY DEF All
<1>6. ASSUME NEW k \in DOMAIN s PROVE Grantable(k)'
  <2>1. Grantable(k) BY <1>1 DEF Dialogue
  <2>2. \A j \in 1..k : j \in DOMAIN s /\ n[j] = s[j] BY <1>3
  <2>3. n[k] = s[k] /\ n[k].verb # "QUIT" /\ \A j \in 1..(k - 1) : n[j] = s[j]
    BY <1>3, <1>4, <2>2
  <2> QED BY <1>1, <1>2, <1>5, <2>1, <2>3 DEF Grantable
<1>7. Grantable(Len(s) + 1)'
  <2>1. \A j \in 1..((Len(s) + 1) - 1) : j \in DOMAIN s /\ n[j] = s[j] BY <1>3
  <2>2. c.verb \in {"USER"} \union Login => server = "auth" /\ \A j \in DOMAIN s : s[j].verb = "USER"
    BY <1>1, UnderWay
  <2>3. LoggedIn => server = "trans" \/ \E j \in 1..((Len(s) + 1) - 1) : s[j].verb \in Login
    BY <1>1, <1>3 DEF LoggedIn
  <2>4. c.verb \in {"LIST", "TOP", "DELE"} =>
           \A j \in DOMAIN s : s[j].verb = "DELE" => s[j].no # c.no
    BY <1>1 DEF Pending
  <2>5. c \in Command /\ c.verb \in Verb BY DEF Command
  <2>6. /\ c.verb \in {"USER"} \union Login =>
              server = "auth" /\ \A j \in 1..((Len(s) + 1) - 1) : n[j].verb = "USER"
        /\ c.verb \in {"STAT", "LIST", "TOP", "DELE"} =>
              server = "trans" \/ \E j \in 1..((Len(s) + 1) - 1) : n[j].verb \in Login
        /\ c.verb \in {"LIST", "TOP", "DELE"} =>
              /\ c.no \in All \ marked
              /\ \A j \in 1..((Len(s) + 1) - 1) : n[j].verb = "DELE" => n[j].no # c.no
    BY <2>1, <2>2, <2>3, <2>4
  <2> QED BY <1>2, <1>3, <1>5, <2>6 DEF Grantable
<1>8. \A k \in DOMAIN n : k \in DOMAIN s \/ k = Len(s) + 1 BY <1>3
<1>9. \A k \in DOMAIN c2s' : Grantable(k)' BY <1>2, <1>6, <1>7, <1>8
<1>10. LoggedIn' <=> LoggedIn \/ c.verb \in Login
  BY <1>1, <1>2, <1>3, <1>5, <1>8 DEF LoggedIn, Login
<1>11. Pending' = IF c.verb = "DELE" THEN Pending \union {c.no} ELSE Pending
  <2>1. \A x : x \in Pending' <=> \E k \in DOMAIN n : n[k].verb = "DELE" /\ x = n[k].no
    BY <1>2 DEF Pending
  <2>2. \A x : x \in Pending <=> \E k \in DOMAIN s : s[k].verb = "DELE" /\ x = s[k].no
    BY <1>1 DEF Pending
  <2>3. \A x : x \in Pending' <=> x \in Pending \/ (c.verb = "DELE" /\ x = c.no)
    BY <1>3, <1>8, <2>1, <2>2, SMTT(60)
  <2>4. PICK P, Q : P = Pending /\ Q = Pending' OBVIOUS
  <2>5. \A x : x \in Q <=> x \in P \/ (c.verb = "DELE" /\ x = c.no) BY <2>3, <2>4
  <2>6. c.verb = "DELE" => Q = P \union {c.no} BY <2>5
  <2>7. c.verb # "DELE" => Q = P BY <2>5
  <2> QED BY <2>4, <2>6, <2>7
<1>12. QuitSent' <=> c.verb = "QUIT"
  BY <1>2, <1>3, <1>4, <1>8 DEF QuitSent
<1> QED BY <1>9, <1>10, <1>11, <1>12

\* c_write of a command whose answer is read.
LEMMA DialogueAsk ==
    ASSUME Core, Dialogue, Ask PROVE Dialogue'
<1>1. /\ pc \in Asking /\ ~waiting /\ waiting' = TRUE /\ Written(CommandAt(pc))
      /\ UNCHANGED <<cfg, drop, pc, msg, judged, server, marked>>
  BY DEF Ask, Goto, configuration, serverVars
<1> SUFFICES ASSUME Obliging', Live' PROVE Dialogue'
  BY DEF Dialogue
<1>2. Obliging /\ Live BY <1>1 DEF Obliging, Live
<1>3. PICK c \in Command : c = CommandAt(pc)
  <2>1. TypeOK /\ pc \in Asking \union {"DELE"} BY <1>1 DEF Core
  <2> QED BY <2>1, CommandFacts
<1>4. c2s' = Append(c2s, c) BY <1>1, <1>2, <1>3 DEF Live, Written, Core, Deletion
<1>5. /\ c.verb \notin {"DELE", "QUIT"} /\ (c.verb \in Login <=> pc \in Login)
      /\ c.verb = "APOP" => pc = "APOP"
      /\ c.verb \in {"USER"} \union Login => pc \in {"USER"} \union Login
      /\ c.verb \in {"STAT", "LIST", "TOP"} => pc \in {"STAT1", "STAT2", "STAT3", "LIST", "TOP"}
      /\ c.verb \in {"LIST", "TOP"} => pc \in {"LIST", "TOP"} /\ c.no = msg
  BY <1>1, <1>3 DEF CommandAt, Cmd, Asking, Login
<1>6. ASSUME pc \in {"LIST", "TOP"} PROVE msg \in All /\ msg \notin marked \union Pending
  <2>1. msg \in All BY <1>6, MsgFacts DEF Core
  <2>2. Len(judged) = msg - 1 BY <1>6 DEF Core, Progress
  <2>3. msg \notin 1..Len(judged) BY <2>2 DEF Core, TypeOK
  <2> QED BY <2>1, <2>3, PendingDoomed
<1>7. /\ \A k \in DOMAIN c2s' : Grantable(k)'
      /\ LoggedIn' <=> LoggedIn \/ c.verb \in Login
      /\ Pending' = Pending /\ ~QuitSent'
  <2>1. pc \notin {"close", "done", "killed"} BY <1>1 DEF Asking
  <2>2. c.verb = "APOP" => cfg.stamp BY <1>2, <1>5 DEF Dialogue
  <2>3. c.verb \in {"USER"} \union Login => ~LoggedIn
    BY <1>1, <1>2, <1>5 DEF Dialogue
  <2>4. c.verb \in {"STAT", "LIST", "TOP", "DELE"} => LoggedIn
    BY <1>1, <1>2, <1>5 DEF Dialogue
  <2> QED BY <1>1, <1>2, <1>4, <1>5, <1>6, <2>1, <2>2, <2>3, <2>4, DialogueAppend
<1>8. marked' \union Pending' = Due'
  <2>1. Due' = Due BY <1>1 DEF Due, Doomed, Condemned
  <2> QED BY <1>1, <1>2, <1>7, <2>1 DEF Dialogue, Asking
<1> QED BY <1>1, <1>2, <1>5, <1>7, <1>8 DEF Dialogue, Asking, Login

\* POP3::remove_msg.
LEMMA DialogueRemoveMsg ==
    ASSUME Core, Dialogue, RemoveMsg PROVE Dialogue'
<1>1. /\ pc = "DELE" /\ NextMessage
      /\ UNCHANGED <<cfg, drop, judged, server, marked>>
  BY DEF RemoveMsg, configuration, serverVars
<1> SUFFICES ASSUME Obliging', Live' PROVE Dialogue'
  BY DEF Dialogue
<1>2. Obliging /\ Live BY <1>1 DEF Obliging, Live
<1>3. PICK c \in Command : c = CommandAt("DELE") /\ c.verb = "DELE" /\ c.no = msg
  BY <1>1, CommandFacts DEF Core
<1>4. IF cfg.test_mode THEN c2s' = c2s ELSE c2s' = Append(c2s, c)
  BY <1>1, <1>2, <1>3 DEF RemoveMsg, Live, Written, NotWritten, Core, Deletion
<1>5. pc' \in {"LIST", "STAT3", "QUIT"} /\ waiting' = FALSE
  BY <1>1, NextMessageFacts DEF Core
<1>6. Doomed' = Doomed /\ Due' = Doomed /\ Due = Doomed \ {msg}
  BY <1>1, <1>5 DEF Due, Doomed, Condemned
<1>7. LoggedIn /\ marked \union Pending = Due /\ \A k \in DOMAIN c2s : Grantable(k)
  BY <1>1, <1>2 DEF Dialogue
<1>8. msg \in All BY <1>1, MsgFacts DEF Core
<1>9. ~cfg.test_mode => msg \in Doomed
  <2>1. judged \in Seq([header : Header, weed : {0, 1}]) /\ msg \in Nat BY DEF Core, TypeOK
  <2>2. msg \in DOMAIN judged /\ judged[msg].weed = 1
    BY <1>1, <2>1 DEF Core, Progress, Bounds
  <2> QED BY <2>2 DEF Doomed, Condemned
<1>10. CASE cfg.test_mode
  <2>1. c2s' = c2s BY <1>4, <1>10
  <2>2. LoggedIn' /\ Pending' = Pending /\ Doomed = {}
    BY <1>1, <1>7, <1>10, <2>1 DEF LoggedIn, Pending, Doomed, Login
  <2>3. \A k \in DOMAIN c2s' : Grantable(k)' BY <1>1, <1>7, <2>1 DEF Grantable, All, Login
  <2>4. (marked \union Pending)' = Due' BY <1>1, <1>6, <1>7, <2>2
  <2> QED BY <1>5, <2>2, <2>3, <2>4 DEF Dialogue, Login
<1>11. CASE ~cfg.test_mode
  <2>1. c2s' = Append(c2s, c) BY <1>4, <1>11
  <2>2. c.no \in All /\ c.no \notin marked \union Pending BY <1>3, <1>6, <1>7, <1>8
  <2>3. /\ \A k \in DOMAIN c2s' : Grantable(k)'
        /\ LoggedIn' /\ Pending' = Pending \union {msg}
    <3>1. c.verb \notin {"USER"} \union Login /\ c.verb # "APOP" BY <1>3 DEF Login
    <3> QED BY <1>1, <1>2, <1>3, <1>7, <2>1, <2>2, <3>1, DialogueAppend
  <2>4. (marked \union Pending)' = Due' BY <1>1, <1>6, <1>7, <1>9, <1>11, <2>3
  <2> QED BY <1>5, <2>3, <2>4 DEF Dialogue, Login
<1> QED BY <1>10, <1>11

\* POP3::logout: QUIT comes behind every DELE.
LEMMA DialogueLogout ==
    ASSUME Core, Dialogue, Logout PROVE Dialogue'
<1>0. /\ pc = "QUIT" /\ UNCHANGED <<cfg, drop, judged, server, marked>>
      /\ (Written(Cmd("QUIT", 0)) /\ pc' = "close") \/ NotWritten
  BY DEF Logout, Goto, configuration, serverVars
<1> SUFFICES ASSUME Obliging', Live' PROVE Dialogue'
  BY DEF Dialogue
<1>2. Obliging /\ Live BY <1>0 DEF Obliging, Live
<1>1. /\ pc = "QUIT" /\ pc' = "close" /\ Written(Cmd("QUIT", 0))
      /\ UNCHANGED <<cfg, drop, judged, server, marked>>
  BY <1>0, <1>2 DEF Live, NotWritten, Core, Deletion
<1>3. PICK c \in Command : c = Cmd("QUIT", 0) /\ c.verb = "QUIT"
  <2>1. Cmd("QUIT", 0) \in Command /\ Cmd("QUIT", 0).verb = "QUIT" BY DEF Cmd, Command, Verb
  <2> QED BY <2>1
<1>4. c2s' = Append(c2s, c) BY <1>1, <1>2, <1>3 DEF Live, Written, Core, Deletion
<1>5. (\A k \in DOMAIN c2s' : Grantable(k)') /\ Pending' = Pending
  <2>1. c.verb \notin {"USER"} \union Login BY <1>3 DEF Login
  <2> QED BY <1>1, <1>2, <1>3, <1>4, <2>1, DialogueAppend
<1>6. (marked \union Pending)' = Due'
  <2>1. Due' = Due BY <1>1 DEF Due, Doomed, Condemned
  <2> QED BY <1>1, <1>2, <1>5, <2>1 DEF Dialogue
<1> QED BY <1>1, <1>5, <1>6 DEF Dialogue, Login

\* Weeder::is_weed: a message condemned now is not yet named in a DELE.
LEMMA DialogueWeed ==
    ASSUME Core, Core', Dialogue, Weed PROVE Dialogue'
<1>1. UNCHANGED <<cfg, drop, c2s, server, marked>> /\ pc = "TOP" /\ waiting BY WeedFacts
<1> SUFFICES ASSUME Obliging', Live' PROVE Dialogue'
  BY DEF Dialogue
<1>2. Obliging /\ Live BY <1>1 DEF Obliging, Live
<1>3. LoggedIn /\ marked \union Pending = Doomed /\ \A k \in DOMAIN c2s : Grantable(k)
  BY <1>1, <1>2 DEF Dialogue, Due
<1>4. LoggedIn' /\ Pending' = Pending /\ All' = All
  BY <1>1, <1>3 DEF LoggedIn, Pending, Login, All
<1>5. \A k \in DOMAIN c2s' : Grantable(k)' BY <1>1, <1>3, <1>4 DEF Grantable
<1>6. PICK w : /\ judged' = Append(judged, w)
               /\ \/ w.weed = 1 /\ pc' = "DELE" /\ msg' = msg /\ ~waiting'
                  \/ w.weed # 1 /\ pc' \in {"LIST", "STAT3", "QUIT"} /\ ~waiting'
               /\ w.header = [entries |-> Parsed, size |-> size]
               /\ w \in [header : Header, weed : {0, 1}]
  <2>1. PICK h, v : h = [entries |-> Parsed, size |-> size] /\ v = is_weed(cfg.prefs, msg_ids, h)
    OBVIOUS
  <2>2. PICK w : w = [header |-> h, weed |-> v] OBVIOUS
  <2>3. judged' = Append(judged, w) BY <2>1, <2>2 DEF Weed
  <2>4. \/ v = 1 /\ pc' = "DELE" /\ msg' = msg /\ ~waiting'
        \/ v # 1 /\ pc' \in {"LIST", "STAT3", "QUIT"} /\ ~waiting'
    BY <2>1 DEF Weed, Goto, NextMessage, EndScan
  <2>5. h \in Header
    <3>1. Parsed \in Seq(Entry) BY ParsedFacts DEF Weed
    <3> QED BY <2>1, <3>1 DEF Header, Core, TypeOK
  <2>6. v \in {0, 1} BY <2>1, is_weedType
  <2> QED BY <2>1, <2>2, <2>3, <2>4, <2>5, <2>6
<1>7. judged \in Seq([header : Header, weed : {0, 1}]) /\ Len(judged) = msg - 1 /\ msg \in Nat
  BY <1>1 DEF Core, TypeOK, Progress
<1>8. /\ DOMAIN judged' = 1..msg /\ DOMAIN judged = 1..(msg - 1)
      /\ \A i \in DOMAIN judged : judged'[i] = judged[i]
      /\ judged'[msg] = w
  BY <1>6, <1>7, AppendFacts
<1>9. Condemned' = IF w.weed = 1 THEN Condemned \union {msg} ELSE Condemned
  <2>1. \A k \in 1..msg : k \in 1..(msg - 1) \/ k = msg BY <1>7
  <2>2. msg \in 1..msg
    BY <1>1, <1>7 DEF Core, Bounds
  <2>3. \A k : k \in Condemned' <=> k \in Condemned \/ (k = msg /\ w.weed = 1)
    BY <1>7, <1>8, <2>1, <2>2 DEF Condemned
  <2>4. PICK P, Q : P = Condemned /\ Q = Condemned' OBVIOUS
  <2>5. Q = IF w.weed = 1 THEN P \union {msg} ELSE P BY <2>3, <2>4
  <2> QED BY <2>4, <2>5
<1>10. msg \notin Doomed /\ Doomed' \ {msg} = Doomed /\ (w.weed # 1 => Doomed' = Doomed)
  <2>1. msg \notin 1..(msg - 1) BY <1>7
  <2>2. msg \notin Condemned BY <1>8, <2>1 DEF Condemned
  <2> QED BY <1>1, <1>9, <2>2 DEF Doomed
<1>11. (marked \union Pending)' = Due'
  <2>1. Due' = Doomed BY <1>6, <1>10 DEF Due
  <2> QED BY <1>1, <1>3, <1>4, <2>1
<1> QED BY <1>4, <1>5, <1>6, <1>11 DEF Dialogue, Login

\* An obliging server grants the command whose turn it is.
LEMMA NextGranted ==
    ASSUME Core, Dialogue, Obliging, Live, Settled, c2s # <<>>
    PROVE  Granted(c2s[1]) /\ 1 \in DOMAIN c2s /\ Grantable(1)
<1>1. c2s \in Seq(Command) BY DEF Core, TypeOK
<1>2. 1 \in DOMAIN c2s /\ c2s[1] \in Command BY <1>1, LastElement, ElementOfSeq
<1>3. Grantable(1) BY <1>2 DEF Dialogue
<1>4. \A j : j \notin 1..(1 - 1) OBVIOUS
<1>5. mailbox = All BY DEF Live, Settled
<1>6. c2s[1].verb \in Verb BY <1>2 DEF Command
<1>7. Granted(c2s[1])
  <2>1. c2s[1].verb \in {"USER"} \union Login => server = "auth" BY <1>3 DEF Grantable
  <2>2. c2s[1].verb \in {"STAT", "LIST", "TOP", "DELE"} => server = "trans"
    BY <1>3, <1>4 DEF Grantable
  <2>3. c2s[1].verb \in {"LIST", "TOP", "DELE"} => c2s[1].no \in Left
    BY <1>3, <1>5 DEF Grantable, Left
  <2>4. c2s[1].verb = "APOP" => cfg.stamp BY <1>3 DEF Grantable
  <2> QED BY <1>6, <2>1, <2>2, <2>3, <2>4 DEF Granted, Verb, Login
<1> QED BY <1>2, <1>3, <1>7

\* The dialogue when a command is served.
LEMMA DialogueServe ==
    ASSUME Core, Dialogue, Settled, Serve PROVE Dialogue'
<1>1. UNCHANGED <<cfg, drop, pc, waiting, msg, judged>> /\ Live BY ServeFrame DEF Live
<1> SUFFICES ASSUME Obliging', Live' PROVE Dialogue'
  BY DEF Dialogue
<1>2. Obliging BY <1>1 DEF Obliging
<1>3. c2s # <<>> /\ c2s' = Tail(c2s) /\ c2s \in Seq(Command)
  BY DEF Serve, ServeRead, ServeDele, ServeQuit, Refuse, Serving, Core, TypeOK
<1>4. PICK n : n = c2s' OBVIOUS
<1>5. PICK s \in Seq(Command) : s = c2s BY <1>3
<1>6. /\ n \in Seq(Command) /\ Len(n) = Len(s) - 1 /\ Len(s) \in Nat \ {0}
      /\ \A k \in DOMAIN n : k + 1 \in DOMAIN s /\ n[k] = s[k + 1]
      /\ Head(s) = s[1]
  BY <1>3, <1>4, <1>5, HeadFacts
<1>7. \A k \in DOMAIN s : k = 1 \/ (k - 1 \in DOMAIN n /\ s[k] = n[k - 1])
  <2> TAKE k \in DOMAIN s
  <2>1. CASE k # 1
    <3>1. k - 1 \in DOMAIN n /\ (k - 1) + 1 = k BY <1>6, <2>1
    <3> QED BY <1>6, <3>1
  <2> QED BY <2>1
<1>8. Granted(s[1]) /\ 1 \in DOMAIN s /\ Grantable(1) BY <1>1, <1>2, <1>3, <1>5, NextGranted
<1>9. /\ s[1].verb # "QUIT"
      /\ marked' = marked \union (IF s[1].verb = "DELE" THEN {s[1].no} ELSE {})
      /\ server' = IF s[1].verb \in Login THEN "trans" ELSE server
  <2>1. Head(c2s) = s[1] BY <1>5, <1>6
  <2>2. ~Refuse BY <1>2, <1>8, <2>1 DEF Refuse, Obliging
  <2>3. ~ServeQuit BY DEF ServeQuit, Live
  <2>4. CASE ServeRead BY <2>1, <2>4 DEF ServeRead, Login
  <2>5. CASE ServeDele BY <2>1, <2>5 DEF ServeDele, Login
  <2> QED BY <2>2, <2>3, <2>4, <2>5 DEF Serve
<1>10. LoggedIn' <=> LoggedIn
  <2>1. LoggedIn => LoggedIn'
    <3>1. CASE server = "trans" BY <1>9, <3>1 DEF LoggedIn
    <3>2. CASE \E k \in DOMAIN s : s[k].verb \in Login
      BY <1>4, <1>7, <1>9, <3>2 DEF LoggedIn
    <3> QED BY <1>5, <3>1, <3>2 DEF LoggedIn
  <2>2. LoggedIn' => LoggedIn
    <3>1. CASE server' = "trans" BY <1>5, <1>8, <1>9, <3>1 DEF LoggedIn
    <3>2. CASE \E k \in DOMAIN n : n[k].verb \in Login
      BY <1>5, <1>6, <3>2 DEF LoggedIn
    <3> QED BY <1>4, <3>1, <3>2 DEF LoggedIn
  <2> QED BY <2>1, <2>2
<1>11. QuitSent' <=> QuitSent
  BY <1>4, <1>5, <1>6, <1>7, <1>9 DEF QuitSent
<1>12. (marked \union Pending)' = marked \union Pending
  <2>1. \A x : x \in Pending' <=> \E k \in DOMAIN n : n[k].verb = "DELE" /\ x = n[k].no
    BY <1>4 DEF Pending
  <2>2. \A x : x \in Pending <=> \E k \in DOMAIN s : s[k].verb = "DELE" /\ x = s[k].no
    BY <1>5 DEF Pending
  <2>3. ASSUME NEW x
        PROVE  x \in Pending <=> x \in Pending' \/ (s[1].verb = "DELE" /\ x = s[1].no)
    <3>1. ASSUME NEW k \in DOMAIN s, s[k].verb = "DELE", x = s[k].no
          PROVE  x \in Pending' \/ (s[1].verb = "DELE" /\ x = s[1].no)
      BY <1>7, <2>1, <3>1
    <3>2. ASSUME NEW k \in DOMAIN n, n[k].verb = "DELE", x = n[k].no PROVE x \in Pending
      BY <1>6, <2>2, <3>2
    <3>3. s[1].verb = "DELE" /\ x = s[1].no => x \in Pending BY <1>8, <2>2
    <3> QED BY <2>1, <2>2, <3>1, <3>2, <3>3
  <2>4. \A x : x \in marked' <=> x \in marked \/ (s[1].verb = "DELE" /\ x = s[1].no)
    BY <1>9
  <2> QED BY <2>3, <2>4
<1>13. Due' = Due /\ All' = All BY <1>1 DEF Due, Doomed, Condemned, All
<1>14. ASSUME NEW k \in DOMAIN n PROVE Grantable(k)'
  <2>1. k + 1 \in DOMAIN s /\ n[k] = s[k + 1] /\ k \in Nat \ {0} BY <1>6
  <2>2. Grantable(k + 1) BY <1>1, <1>2, <1>5, <2>1 DEF Dialogue
  <2>3. (k + 1) - 1 = k /\ 1 \in 1..k BY <2>1
  <2>4. \A j \in 1..(k - 1) : n[j] = s[j + 1] /\ j + 1 \in 1..k
    <3> TAKE j \in 1..(k - 1)
    <3>1. j \in DOMAIN n BY <1>6
    <3> QED BY <1>6, <3>1
  <2>5. \A j \in 1..k : j = 1 \/ (j - 1 \in 1..(k - 1) /\ n[j - 1] = s[j])
    <3> TAKE j \in 1..k
    <3>1. CASE j # 1
      <4>1. j - 1 \in 1..(k - 1) /\ (j - 1) + 1 = j BY <2>1, <3>1
      <4> QED BY <2>4, <4>1
    <3> QED BY <3>1
  <2>6. n[k].verb = "APOP" => cfg.stamp BY <1>5, <2>1, <2>2 DEF Grantable
  <2>7. n[k].verb \in {"USER"} \union Login =>
           server' = "auth" /\ \A j \in 1..(k - 1) : n[j].verb = "USER"
    <3> SUFFICES ASSUME n[k].verb \in {"USER"} \union Login
                 PROVE  server' = "auth" /\ \A j \in 1..(k - 1) : n[j].verb = "USER"
      OBVIOUS
    <3>1. server = "auth" /\ \A j \in 1..k : s[j].verb = "USER"
      BY <1>5, <2>1, <2>2, <2>3 DEF Grantable
    <3>2. s[1].verb = "USER" BY <2>3, <3>1
    <3> QED BY <1>9, <2>4, <3>1, <3>2 DEF Login
  <2>8. n[k].verb \in {"STAT", "LIST", "TOP", "DELE"} =>
           server' = "trans" \/ \E j \in 1..(k - 1) : n[j].verb \in Login
    <3> SUFFICES ASSUME n[k].verb \in {"STAT", "LIST", "TOP", "DELE"}
                 PROVE  server' = "trans" \/ \E j \in 1..(k - 1) : n[j].verb \in Login
      OBVIOUS
    <3>1. server = "trans" \/ \E j \in 1..k : s[j].verb \in Login
      BY <1>5, <2>1, <2>2, <2>3 DEF Grantable
    <3> QED BY <1>9, <2>5, <3>1
  <2>9. n[k].verb \in {"LIST", "TOP", "DELE"} =>
           /\ n[k].no \in All \ marked'
           /\ \A j \in 1..(k - 1) : n[j].verb = "DELE" => n[j].no # n[k].no
    <3> SUFFICES ASSUME n[k].verb \in {"LIST", "TOP", "DELE"}
                 PROVE  /\ n[k].no \in All \ marked'
                        /\ \A j \in 1..(k - 1) : n[j].verb = "DELE" => n[j].no # n[k].no
      OBVIOUS
    <3>1. /\ n[k].no \in All \ marked
          /\ \A j \in 1..k : s[j].verb = "DELE" => s[j].no # n[k].no
      BY <1>5, <2>1, <2>2, <2>3 DEF Grantable
    <3>2. s[1].verb = "DELE" => s[1].no # n[k].no BY <2>3, <3>1
    <3> QED BY <1>9, <2>4, <3>1, <3>2
  <2>10. n[k].verb = "QUIT" => k = Len(n) BY <1>5, <1>6, <2>1, <2>2 DEF Grantable
  <2> QED BY <1>1, <1>4, <1>13, <2>6, <2>7, <2>8, <2>9, <2>10 DEF Grantable
<1>15. pc # "killed" \/ QuitSent' => (marked \union Pending)' = Due'
  BY <1>1, <1>2, <1>11, <1>12, <1>13 DEF Dialogue
<1> QED BY <1>1, <1>2, <1>4, <1>10, <1>14, <1>15 DEF Dialogue, Login

\* The server is left without a session, or nothing happens.
LEMMA DialogueEnds ==
    ASSUME Ends PROVE Dialogue'
BY DEF Ends, ServerEof, ServerClose, ServerAbort, CloseResets, EndSession, Dialogue, Live

\* A stuttering step leaves the dialogue as it was.
LEMMA DialogueStutter ==
    ASSUME Dialogue, UNCHANGED vars PROVE Dialogue'
<1>1. UNCHANGED <<cfg, drop, pc, waiting, msg, judged, c2s, server, marked>>
  BY DEF vars, configuration, clientVars, connVars, serverVars
<1>2. \A k : Grantable(k) => Grantable(k)' BY <1>1 DEF Grantable, All
<1>3. LoggedIn' = LoggedIn /\ QuitSent' = QuitSent /\ Pending' = Pending /\ Due' = Due
  BY <1>1 DEF LoggedIn, QuitSent, Pending, Due, Doomed, Condemned
<1> QED BY <1>1, <1>2, <1>3 DEF Dialogue, Obliging, Live

\* Every step keeps the dialogue in order.
LEMMA NextDialogue ==
    ASSUME Core, Core', Dialogue, Settled, [Next]_vars PROVE Dialogue'
BY StepKinds, DialogueIdle, DialogueOpen, DialogueAsk, DialogueWeed, DialogueRemoveMsg,
   DialogueLogout, DialogueServe, DialogueEnds, DialogueStutter

----------------------------------------------------------------------------
\* What QUIT removes: every message named in a DELE, all the doomed ones.
LEMMA QuitServed ==
    ASSUME Core, Dialogue, Settled, ServeQuit
    PROVE  /\ mailbox' = All \ marked /\ server' = "closed" /\ Doomed' = Doomed
           /\ pc \in {"close", "done", "killed"} /\ QuitSent
           /\ Obliging => marked = Doomed
<1>1. /\ mailbox' = mailbox \ marked /\ server' = "closed" /\ Live /\ c2s # <<>>
      /\ Head(c2s).verb = "QUIT"
  BY DEF ServeQuit, Serving, Live
<1>2. mailbox = All BY <1>1 DEF Live, Settled
<1>3. UNCHANGED <<cfg, judged>> BY ServeFrame DEF Serve
<1>4. Doomed' = Doomed BY <1>3 DEF Doomed, Condemned
<1>5. c2s \in Seq(Command) BY DEF Core, TypeOK
<1>6. 1 \in DOMAIN c2s /\ c2s[1].verb = "QUIT" BY <1>1, <1>5, HeadFacts, LastElement
<1>7. pc \in {"close", "done", "killed"} /\ QuitSent BY <1>6 DEF Core, Deletion, QuitSent
<1>8. ASSUME Obliging PROVE marked = Doomed
  <2>1. Grantable(1) BY <1>1, <1>8, NextGranted
  <2>2. Len(c2s) = 1 BY <1>6, <2>1 DEF Grantable
  <2>3. \A k \in DOMAIN c2s : k = 1 BY <1>5, <2>2
  <2>4. Pending = {} BY <1>6, <2>3 DEF Pending
  <2> QED BY <1>1, <1>7, <1>8, <2>4 DEF Dialogue, Due
<1> QED BY <1>1, <1>2, <1>4, <1>7, <1>8

\* All or nothing.
LEMMA NextSettled ==
    ASSUME Core, Dialogue, Settled, [Next]_vars PROVE Settled'
<1>1. drop' = drop /\ cfg' = cfg /\ All' = All /\ (Obliging' = Obliging)
  BY StepKinds, IdleFacts, WriteFacts, WeedFacts, ServeFrame
     DEF Open, vars, configuration, All, Obliging
<1>2. CASE ServeQuit
  <2>1. mailbox' = All \ marked /\ server' = "closed" /\ Doomed' = Doomed
        /\ (Obliging => marked = Doomed)
    BY <1>2, QuitServed
  <2> QED BY <1>1, <2>1 DEF Settled
<1>3. CASE Weed
  <2>1. UNCHANGED <<mailbox, server>> /\ pc = "TOP" BY <1>3, WeedFacts
  <2>2. mailbox = All BY <2>1 DEF Core, Deletion
  <2> QED BY <1>1, <2>1, <2>2 DEF Settled
<1>4. CASE ~ServeQuit /\ ~Weed
  <2>1. UNCHANGED <<mailbox, judged>>
    BY <1>4, StepKinds, IdleFacts, WriteFacts, ServeFrame
       DEF Open, Serve, ServeRead, ServeDele, Refuse, Ends, ServerEof, ServerClose, ServerAbort,
           CloseResets, EndSession, vars, clientVars, serverVars
  <2>2. server = "closed" => server' = "closed"
    <3>1. CASE Open BY <3>1 DEF Open, Core, Deletion
    <3>2. CASE Serve \/ Ends BY <3>2, ServeFrame
    <3>3. CASE UNCHANGED vars BY <3>3 DEF vars, serverVars
    <3> QED BY <1>4, <3>1, <3>2, <3>3, StepKinds, IdleFacts, WriteFacts
  <2>3. Doomed' = Doomed BY <1>1, <2>1 DEF Doomed, Condemned
  <2> QED BY <1>1, <2>1, <2>2, <2>3 DEF Settled
<1> QED BY <1>2, <1>3, <1>4

----------------------------------------------------------------------------
\* Where an idle step takes the client at the end of a session, and with which result.
LEMMA IdleEnds ==
    ASSUME Core, Idle
    PROVE  /\ pc' = "done" => result' # "none"
           /\ result' \in {result, "error"} \/ pc' = "done"
           /\ pc' \in {"close", "done"} /\ result' # "error" => pc = "close" /\ result # "error"
           /\ pc' \notin {"open", "close"} \union Gone => pc \notin {"open", "close"} \union Gone
<1>0. /\ pc \in {"open", "DELE", "QUIT", "close", "done", "killed"} => ~waiting
      /\ result \in {"none", "ok", "error"}
  BY DEF Core, Progress, TypeOK
<1>1. CASE AskFails
  BY <1>1 DEF AskFails, Fail, Goto, Asking, Gone
<1>2. CASE SigPipe \/ SigInt \/ ParserExits
  BY <1>2 DEF SigPipe, SigInt, ParserExits, EndHeader, Exit, Goto, Asking, Gone
<1>3. CASE ReadGreeting
  BY <1>0, <1>3 DEF ReadGreeting, Receive, Fail, Goto, Gone
<1>4. CASE ReadLogin
  BY <1>0, <1>4 DEF ReadLogin, Receive, Fail, Goto, Gone
<1>5. CASE ReadStatus
  BY <1>0, <1>5 DEF ReadStatus, Receive, Fail, Goto, Gone
<1>6. CASE ReadCount
  BY <1>0, <1>6 DEF ReadCount, EndScan, Receive, Fail, Goto, Gone
<1>7. CASE ReadRemaining
  BY <1>0, <1>7 DEF ReadRemaining, Receive, Fail, Goto, Gone
<1>8. CASE ReadList
  BY <1>0, <1>8 DEF ReadList, Receive, Fail, Goto, Gone
<1>9. CASE ReadHeader
  BY <1>0, <1>9 DEF ReadHeader, Receive, Gone
<1>10. CASE ReadNothing
  BY <1>0, <1>10 DEF ReadNothing, Fail, Goto, Gone
<1>11. CASE ReadTimeout \/ ScanFails
  BY <1>0, <1>11 DEF ReadTimeout, ScanFails, EndHeader, Fail, Goto, Gone
<1>12. CASE Close \/ OpenFails
  BY <1>0, <1>12 DEF Close, OpenFails, Goto, Gone
<1>13. CASE SslFails
  BY <1>0, <1>13 DEF SslFails, Fail, Goto, Gone
<1> QED BY <1>1, <1>2, <1>3, <1>4, <1>5, <1>6, <1>7, <1>8, <1>9, <1>10, <1>11, <1>12, <1>13 DEF Idle

\* Where the steps take the client that open the connection, write or judge.
LEMMA StepGoes ==
    ASSUME Core, Open \/ Ask \/ Weed \/ RemoveMsg \/ Logout
    PROVE  /\ result' = result \/ result' = "error"
           /\ IF Logout THEN pc = "QUIT" /\ (pc' = "close" \/ (pc' = "done" /\ result' = "error"))
                        ELSE pc' \notin {"open", "close", "done", "killed"}
           /\ Open \/ pc \notin {"open", "close", "done", "killed"}
<1>1. CASE Open BY <1>1 DEF Open, Logout, Goto
<1>2. CASE Ask BY <1>2 DEF Ask, Logout, Goto, Asking
<1>3. CASE Weed
  <2>1. pc' \in {"DELE", "LIST", "STAT3", "QUIT"} /\ result' = result
    BY <1>3 DEF Weed, NextMessage, EndScan, Goto
  <2> QED BY <1>3, <2>1, WeedFacts DEF Logout
<1>4. CASE RemoveMsg
  <2>1. pc' \in {"LIST", "STAT3", "QUIT"} /\ pc = "DELE" /\ result' = result
    BY <1>4 DEF RemoveMsg, NextMessage, EndScan, Goto
  <2> QED BY <2>1 DEF Logout
<1>5. CASE Logout BY <1>5 DEF Logout, Goto
<1> QED BY <1>1, <1>2, <1>3, <1>4, <1>5

\* What a step of the server leaves of the commands under way.
LEMMA ServeGoes ==
    ASSUME Core, Serve \/ Ends
    PROVE  /\ QuitSent' => QuitSent
           /\ ~ServeQuit => mailbox' = mailbox
           /\ Serve /\ ~ServeQuit => (QuitSent' <=> QuitSent) /\ server' # "closed" /\ server' # "listen"
           /\ ServeQuit => QuitSent
<1>1. c2s \in Seq(Command) BY DEF Core, TypeOK
<1>2. CASE Ends
  BY <1>2 DEF Ends, ServerEof, ServerClose, ServerAbort, CloseResets, EndSession, QuitSent, Serve,
              ServeRead, ServeDele, ServeQuit, Refuse, Serving, serverVars
<1>3. CASE Serve
  <2>1. c2s # <<>> /\ c2s' = Tail(c2s)
    BY <1>3 DEF Serve, ServeRead, ServeDele, ServeQuit, Refuse, Serving
  <2>2. PICK s \in Seq(Command) : s = c2s BY <1>1
  <2>3. PICK n : n = c2s' OBVIOUS
  <2>4. /\ n \in Seq(Command) /\ Len(s) \in Nat \ {0} /\ Len(n) = Len(s) - 1
        /\ \A k \in DOMAIN n : k + 1 \in DOMAIN s /\ n[k] = s[k + 1]
        /\ Head(c2s) = s[1] /\ 1 \in DOMAIN s
    BY <2>1, <2>2, <2>3, HeadFacts, LastElement
  <2>5. QuitSent' => QuitSent BY <2>2, <2>3, <2>4 DEF QuitSent
  <2>6. CASE ServeQuit BY <2>2, <2>4, <2>5, <2>6 DEF ServeQuit, QuitSent, Ends
  <2>7. CASE ~ServeQuit
    <3>1. /\ mailbox' = mailbox /\ server' # "closed" /\ server' # "listen"
          /\ s[1].verb # "QUIT"
      BY <1>3, <2>4, <2>7 DEF Serve, ServeRead, ServeDele, Refuse, Serving, serverVars, Granted
    <3>2. ASSUME NEW k \in DOMAIN s, s[k].verb = "QUIT" PROVE QuitSent'
      <4>1. k # 1 BY <3>1, <3>2
      <4>2. k - 1 \in DOMAIN n /\ (k - 1) + 1 = k BY <2>4, <4>1
      <4>3. n[k - 1].verb = "QUIT" BY <2>4, <3>2, <4>2
      <4> QED BY <2>3, <4>2, <4>3 DEF QuitSent
    <3>3. QuitSent => QuitSent' BY <2>2, <3>2 DEF QuitSent
    <3> QED BY <2>5, <2>7, <3>1, <3>3
  <2> QED BY <2>6, <2>7
<1> QED BY <1>2, <1>3

\* A program killed by anything but ^C has not said QUIT.
LEMMA NextKilledEarly ==
    ASSUME Core, KilledEarly, [Next]_vars PROVE KilledEarly'
<1>1. CASE Idle
  <2>1. UNCHANGED <<cfg, drop, c2s, mailbox>> BY <1>1, IdleFacts
  <2>2. pc' = "killed" /\ "sigint" \notin cfg.faults =>
           pc \notin {"close", "done", "killed"} \/ peer = "rst"
    BY <1>1, IdleGoes
  <2>3. pc \notin {"close", "done", "killed"} \/ peer = "rst" => mailbox = All /\ ~QuitSent
    BY DEF Core, Deletion, QuitSent
  <2> QED BY <2>1, <2>2, <2>3 DEF KilledEarly, QuitSent, All
<1>2. CASE Open \/ Ask \/ Weed \/ RemoveMsg \/ Logout
  <2>1. pc' # "killed" BY <1>2, StepGoes
  <2> QED BY <2>1 DEF KilledEarly
<1>3. CASE Serve \/ Ends
  <2>1. UNCHANGED <<cfg, drop, pc>> BY <1>3, ServeFrame
  <2> QED BY <1>3, <2>1, ServeGoes DEF KilledEarly, All
<1>4. CASE UNCHANGED vars
  BY <1>4 DEF vars, configuration, clientVars, connVars, serverVars, KilledEarly, QuitSent, All
<1> QED BY <1>1, <1>2, <1>3, <1>4, StepKinds

\* Account::check has a result exactly when it returns.
LEMMA NextReturns ==
    ASSUME Core, Returns, [Next]_vars PROVE Returns'
<1>1. CASE Idle BY <1>1, IdleEnds, IdleGoes DEF Returns, Gone
<1>2. CASE Open \/ Ask \/ Weed \/ RemoveMsg \/ Logout
  <2>1. /\ pc # "done" /\ (result' = result \/ result' = "error")
        /\ pc' # "done" \/ result' = "error"
    BY <1>2, StepGoes DEF Open
  <2> QED BY <2>1 DEF Returns
<1>3. CASE Serve \/ Ends BY <1>3, ServeFrame DEF Returns
<1>4. CASE UNCHANGED vars BY <1>4 DEF vars, clientVars, Returns
<1> QED BY <1>1, <1>2, <1>3, <1>4, StepKinds

\* A session that nobody disturbs keeps its server until QUIT is served.
LEMMA NextSuccess ==
    ASSUME Core, Dialogue, Settled, Success, [Next]_vars PROVE Success'
<1> SUFFICES ASSUME Undisturbed' PROVE Success'
  BY DEF Success
<1>1. cfg' = cfg /\ drop' = drop
  BY StepKinds, IdleFacts, WriteFacts, WeedFacts, ServeFrame DEF Open, vars, configuration
<1>2. Undisturbed /\ Obliging /\ All' = All BY <1>1 DEF Undisturbed, Obliging, All
<1>3. CASE Idle
  <2>1. UNCHANGED <<judged, c2s, server, mailbox>> BY <1>3, IdleFacts
  <2>2. Live' = Live /\ QuitSent' = QuitSent /\ Doomed' = Doomed
    BY <1>1, <2>1 DEF Live, QuitSent, Doomed, Condemned
  <2> QED BY <1>2, <1>3, <2>1, <2>2, IdleEnds DEF Success
<1>4. CASE Open
  <2>1. server' = "auth" /\ pc' = "greeting" BY <1>4 DEF Open, Goto
  <2> QED BY <2>1 DEF Success, Live
<1>5. CASE Ask \/ Weed \/ RemoveMsg
  <2>1. server' = server BY <1>5, WriteFacts, WeedFacts
  <2>2. /\ pc \notin {"open", "close", "done", "killed"}
        /\ pc' \notin {"open", "close", "done", "killed"}
    <3>1. ~Logout /\ ~Open
      BY <1>5, WeedFacts DEF Logout, Open, Ask, RemoveMsg, Asking
    <3> QED BY <1>5, <3>1, StepGoes
  <2> QED BY <1>2, <2>1, <2>2 DEF Success, Live, Gone
<1>6. CASE Logout
  <2>0. /\ pc = "QUIT" /\ server' = server
        /\ (Written(Cmd("QUIT", 0)) /\ pc' = "close") \/ NotWritten
    BY <1>6 DEF Logout, Goto, serverVars
  <2>2. Live BY <1>2, <2>0 DEF Success, Gone
  <2>1. /\ pc = "QUIT" /\ pc' = "close" /\ Written(Cmd("QUIT", 0)) /\ server' = server
    BY <2>0, <2>2 DEF Live, NotWritten, Core, Deletion
  <2>3. c2s' = Append(c2s, Cmd("QUIT", 0))
    BY <2>1, <2>2 DEF Live, Written, Core, Deletion
  <2>4. QuitSent'
    <3>1. c2s \in Seq(Command) /\ Cmd("QUIT", 0) \in Command /\ Cmd("QUIT", 0).verb = "QUIT"
      BY DEF Core, TypeOK, Cmd, Command, Verb
    <3>2. /\ c2s'[Len(c2s) + 1].verb = "QUIT" /\ Len(c2s) + 1 \in DOMAIN c2s'
      BY <2>3, <3>1, AppendFacts
    <3> QED BY <3>2 DEF QuitSent
  <2> QED BY <2>1, <2>2, <2>4 DEF Success, Live
<1>7. CASE ServeQuit
  <2>1. mailbox' = All \ Doomed /\ server' = "closed" /\ Doomed' = Doomed
        /\ pc \in {"close", "done", "killed"}
    BY <1>2, <1>7, QuitServed
  <2>2. pc' = pc BY <1>7, ServeFrame DEF Serve
  <2> QED BY <1>2, <2>1, <2>2 DEF Success, Live, Gone
<1>8. CASE Serve /\ ~ServeQuit
  <2>1. UNCHANGED <<pc, result>> /\ Live BY <1>8, ServeFrame DEF Live
  <2>2. (QuitSent' <=> QuitSent) /\ server' # "closed" /\ server' # "listen"
    BY <1>8, ServeGoes
  <2>3. Live' BY <1>8, <2>1, <2>2 DEF Serve, ServeRead, ServeDele, Refuse, serverVars, Live
  <2> QED BY <1>2, <2>1, <2>2, <2>3 DEF Success, Live
<1>9. CASE Ends
  <2>1. ServerEof \/ (CloseResets /\ FALSE)
    BY <1>2, <1>9 DEF Ends, ServerClose, ServerAbort, CloseResets, Undisturbed
  <2>2. pc \in Gone /\ c2s = <<>> /\ Live /\ pc' = pc /\ result' = result
    BY <2>1, ServeFrame DEF ServerEof, Live, Ends
  <2>3. ~QuitSent BY <2>2 DEF QuitSent
  <2> QED BY <1>2, <2>2, <2>3 DEF Success, Gone
<1>10. CASE UNCHANGED vars
  BY <1>2, <1>10 DEF vars, configuration, clientVars, connVars, serverVars, Success, Live, QuitSent, All,
                     Doomed, Condemned
<1> QED BY <1>3, <1>4, <1>5, <1>6, <1>7, <1>8, <1>9, <1>10, StepKinds DEF Serve

----------------------------------------------------------------------------

\* Where answers are counted.
LEMMA CountFacts ==
    ASSUME Core
    PROVE  /\ Len(c2s) \in Nat /\ Len(s2c) \in Nat /\ c2s \in Seq(Command) /\ s2c \in Seq(Segment)
           /\ AtMost(0) => c2s = <<>> /\ s2c = <<>>
           /\ AtMost(1) /\ s2c # <<>> => c2s = <<>> /\ Len(s2c) = 1
           /\ AtMost(1) /\ c2s # <<>> => s2c = <<>> /\ Len(c2s) = 1
<1>1. c2s \in Seq(Command) /\ s2c \in Seq(Segment) BY DEF Core, TypeOK
<1>2. PICK m, n : m = Len(c2s) /\ n = Len(s2c) OBVIOUS
<1>3. m \in Nat /\ n \in Nat BY <1>1, <1>2
<1>4. c2s # <<>> => m # 0 BY <1>1, <1>2, LastElement
<1>5. s2c # <<>> => n # 0 BY <1>1, <1>2, LastElement
<1>6. /\ m + n <= 0 => m = 0 /\ n = 0
      /\ m + n <= 1 /\ n # 0 => m = 0 /\ n = 1
      /\ m + n <= 1 /\ m # 0 => n = 0 /\ m = 1
  BY <1>3
<1> QED BY <1>1, <1>2, <1>3, <1>4, <1>5, <1>6 DEF AtMost

\* A client that leaves the scan without a result counts nothing any more.
LEMMA TimelyLeave ==
    ASSUME \/ pc' \in {"close", "QUIT", "done"} /\ result' = "error"
           \/ pc' = "killed"
    PROVE  Counted' /\ Measured'
BY DEF Counted, Measured

\* c_read of a reply that is the only one under way.
LEMMA ReadAlone ==
    ASSUME Core, AtMost(1), NEW k \in 1..Len(s2c), Receive(k), UNCHANGED c2s
    PROVE  /\ k = 1 /\ Len(s2c) = 1 /\ c2s = <<>> /\ c2s' = <<>> /\ s2c' = <<>> /\ AtMost(0)'
           /\ SecondWord(Received(k)) = s2c[1].second
<1>1. s2c # <<>> /\ s2c \in Seq(Segment)
  <2>1. TypeOK BY DEF Core
  <2> QED BY <2>1, CountFacts, ReadFacts
<1>2. Len(s2c) = 1 /\ c2s = <<>> /\ k = 1
  <2>1. Len(s2c) = 1 /\ c2s = <<>> BY <1>1, CountFacts
  <2> QED BY <2>1
<1>3. Len(s2c') = 0 /\ s2c' \in Seq(Segment) BY <1>1, <1>2, SuffixFacts DEF Receive
<1>4. s2c' = <<>> BY <1>3, EmptySeq
<1>5. PICK r : r = Received(k) OBVIOUS
<1>6. Len(r) = 1 /\ r[1] = s2c[1]
  BY <1>1, <1>2, <1>5, PrefixFacts DEF Received
<1>7. SecondWord(r) = s2c[1].second BY <1>6 DEF SecondWord
<1> QED BY <1>2, <1>3, <1>4, <1>5, <1>7 DEF AtMost

\* The texts a server may send stay the same.
LEMMA SameTexts ==
    ASSUME UNCHANGED cfg PROVE \A n : Worded(n)' = Worded(n)
BY DEF Worded, Texts

\* The reads of a session whose answers arrive in time and in one piece.
LEMMA TimelyIdle ==
    ASSUME Core, Prompt, Counted, Measured, Idle PROVE Counted' /\ Measured'
<1>0. /\ UNCHANGED <<cfg, drop, judged, c2s, server, marked, mailbox, msg_ids>>
      /\ pc \in {"open", "DELE", "QUIT", "close", "done", "killed"} => ~waiting
  BY IdleFacts DEF Core, Progress
<1>1. Doomed' = Doomed /\ \A n : Worded(n)' = Worded(n)
  BY <1>0, SameTexts DEF Doomed, Condemned
<1>2. CASE AskFails
  BY <1>2, TimelyLeave DEF AskFails, Fail, Goto
<1>3. CASE SigPipe \/ SigInt \/ ParserExits
  BY <1>3, TimelyLeave DEF SigPipe, SigInt, ParserExits, Exit, Goto
<1>4. CASE ReadTimeout \/ SslFails \/ ScanFails \/ OpenFails
  BY <1>4, TimelyLeave DEF ReadTimeout, SslFails, ScanFails, OpenFails, Fail, Goto
<1>5. CASE ReadGreeting
  <2>1. PICK k \in 1..Len(s2c) :
          /\ Receive(k)
          /\ (pc' \in {"USER", "APOP"} /\ waiting' = FALSE) \/ Fail
    BY <1>5 DEF ReadGreeting, Goto
  <2>2. AtMost(1) BY <1>5 DEF ReadGreeting, Counted
  <2>3. AtMost(0)' BY <1>0, <2>1, <2>2, ReadAlone
  <2>4. CASE Fail BY <2>4, TimelyLeave DEF Fail, Goto
  <2> QED BY <2>1, <2>3, <2>4 DEF Counted, Measured
<1>6. CASE ReadLogin
  <2>1. PICK k \in 1..Len(s2c) :
          /\ Receive(k)
          /\ (pc' \in {"PASS", "STAT1"} /\ waiting' = FALSE) \/ Fail
    BY <1>6 DEF ReadLogin, Goto
  <2>2. AtMost(1) BY <1>6, <2>1 DEF ReadLogin, Counted, Receive
  <2>3. AtMost(0)' BY <1>0, <2>1, <2>2, ReadAlone
  <2>4. CASE Fail BY <2>4, TimelyLeave DEF Fail, Goto
  <2> QED BY <2>1, <2>3, <2>4 DEF Counted, Measured
<1>7. CASE ReadStatus
  <2>1. PICK k \in 1..Len(s2c) : Receive(k) /\ ((pc' = "STAT2" /\ waiting' = FALSE) \/ Fail)
    BY <1>7 DEF ReadStatus, Goto
  <2>2. AtMost(1) BY <1>7, <2>1 DEF ReadStatus, Counted, Receive
  <2>3. AtMost(0)' /\ c2s' = <<>> /\ s2c' = <<>> BY <1>0, <2>1, <2>2, ReadAlone
  <2>4. CASE Fail BY <2>4, TimelyLeave DEF Fail, Goto
  <2> QED BY <2>1, <2>3, <2>4 DEF Counted, Measured
<1>8. CASE ReadCount
  <2>1. PICK k \in 1..Len(s2c) :
        /\ Receive(k)
        /\ \/ /\ Positive(Received(k)) /\ waiting' = FALSE
              /\ num_messages' = SecondWord(Received(k)) /\ msg' = 1
              /\ \/ num_messages' > 0 /\ pc' = "LIST"
                 \/ ~(num_messages' > 0) /\ pc' \in {"STAT3", "QUIT"}
           \/ Fail
    BY <1>8 DEF ReadCount, Goto, EndScan
  <2>2. AtMost(1) BY <1>8, <2>1 DEF ReadCount, Counted, Receive
  <2>3. /\ c2s' = <<>> /\ s2c' = <<>> /\ SecondWord(Received(k)) = s2c[1].second
        /\ 1 \in DOMAIN s2c
    BY <1>0, <2>1, <2>2, ReadAlone, CountFacts
  <2>4. CASE Fail BY <2>4, TimelyLeave DEF Fail, Goto
  <2>5. CASE /\ Positive(Received(k)) /\ waiting' = FALSE
             /\ num_messages' = SecondWord(Received(k)) /\ msg' = 1
             /\ \/ num_messages' > 0 /\ pc' = "LIST"
                \/ ~(num_messages' > 0) /\ pc' \in {"STAT3", "QUIT"}
    <3>1. s2c[1].ok /\ pc = "STAT2" BY <1>8, <2>1, <2>5, ReadFacts DEF Positive, ReadCount, Core
    <3>2. num_messages' = Len(drop) BY <2>3, <2>5, <3>1 DEF Counted
    <3>3. judged = <<>> /\ Len(judged) = 0 BY <3>1 DEF Core, Progress
    <3>4. Len(drop) \in Nat BY LeftFacts DEF Core
    <3>5. ~(num_messages' > 0) => Len(judged) = Len(drop) BY <3>2, <3>3, <3>4
    <3> QED BY <1>0, <2>3, <2>5, <3>2, <3>5 DEF Counted, Measured
  <2> QED BY <2>1, <2>4, <2>5
<1>9. CASE ReadRemaining
  <2>1. (pc' = "QUIT" /\ result' = result /\ pc = "STAT3") \/ Fail
    BY <1>9 DEF ReadRemaining, Goto
  <2>2. CASE Fail BY <2>2, TimelyLeave DEF Fail, Goto
  <2>3. CASE pc' = "QUIT" /\ result' = result /\ pc = "STAT3"
    BY <1>0, <2>3 DEF Counted, Measured
  <2> QED BY <2>1, <2>2, <2>3
<1>10. CASE ReadList
  <2>1. PICK k \in 1..Len(s2c) :
        /\ Receive(k)
        /\ \/ /\ Positive(Received(k)) /\ pc' = "TOP" /\ size' = LastWord(Received(k))
           \/ Fail
    BY <1>10 DEF ReadList, Goto
  <2>2. pc = "LIST" /\ UNCHANGED <<msg, num_messages>> BY <1>10 DEF ReadList
  <2>3. CASE Fail BY <2>2, <2>3, TimelyLeave DEF Fail, Goto
  <2>4. CASE /\ Positive(Received(k)) /\ pc' = "TOP" /\ size' = LastWord(Received(k))
    <3>1. waiting /\ s2c[1].ok /\ ~Stuck(s2c) /\ s2c \in Seq(Segment)
      BY <2>1, <2>4, ReadFacts, CountFacts DEF Positive, Stuck, Core
    <3>2. size' = s2c[k].last
      <4>1. PICK r : r = Received(k) OBVIOUS
      <4>2. Len(r) = k /\ r[k] = s2c[k]
        BY <3>1, <4>1, PrefixFacts DEF Received
      <4> QED BY <2>4, <4>1, <4>2 DEF LastWord
    <3>3. k \in DOMAIN s2c BY <3>1
    <3>4. OwnSize(size)' BY <1>0, <1>1, <2>2, <3>1, <3>2, <3>3 DEF Measured, OwnSize
    <3> QED BY <1>0, <2>2, <2>4, <3>4 DEF Counted, Measured
  <2> QED BY <2>1, <2>3, <2>4
<1>11. CASE ReadHeader
  <2>1. UNCHANGED <<pc, waiting, msg, num_messages, size, result>> /\ pc = "TOP"
    BY <1>11 DEF ReadHeader
  <2>2. OwnSize(size)' BY <1>0, <1>1, <2>1 DEF Measured, OwnSize
  <2> QED BY <1>0, <2>1, <2>2 DEF Counted, Measured
<1>12. CASE ReadNothing
  <2>1. CASE Fail BY <2>1, TimelyLeave DEF Fail, Goto
  <2>2. CASE ~Fail
    <3>1. pc = "greeting" /\ pc' = "USER" /\ ~waiting' /\ s2c = <<>> /\ s2c' = <<>>
      BY <1>12, <2>2 DEF ReadNothing, Goto, Prompt
    <3>2. c2s' = <<>> BY <1>0, <3>1 DEF Core, Stream
    <3> QED BY <3>1, <3>2 DEF Counted, Measured, AtMost
  <2> QED BY <2>1, <2>2
<1>13. CASE Close
  <2>1. pc = "close" /\ pc' = "done" /\ (result' # "error" => result # "error")
    BY <1>13 DEF Close, Goto
  <2> QED BY <1>0, <2>1 DEF Counted, Measured
<1> QED BY <1>2, <1>3, <1>4, <1>5, <1>6, <1>7, <1>8, <1>9, <1>10, <1>11, <1>12, <1>13 DEF Idle

----------------------------------------------------------------------------
\* The reply to a connection comes alone.
LEMMA TimelyOpen ==
    ASSUME Core, Prompt, Open PROVE Counted' /\ Measured'
<1>1. /\ pc = "open" /\ pc' = "greeting" /\ UNCHANGED <<cfg, c2s>>
      /\ \E ok \in BOOLEAN : s2c' \in Free(ok, Dot)
  BY DEF Open, Goto, configuration
<1>2. c2s' = <<>> BY <1>1 DEF Core, Stream
<1>3. PICK e : s2c' = <<e>>
  BY <1>1 DEF Free, Cuts, Prompt
<1>4. Len(s2c') = 1 /\ Len(c2s') = 0 BY <1>2, <1>3
<1> QED BY <1>1, <1>4 DEF Counted, Measured, AtMost

\* A command is written when nothing is under way, or the answer to DELE only.
LEMMA TimelyAsk ==
    ASSUME Core, Prompt, Counted, Measured, Ask PROVE Counted' /\ Measured'
<1>1. /\ pc \in Asking /\ ~waiting /\ waiting' = TRUE /\ Written(CommandAt(pc))
      /\ UNCHANGED <<cfg, drop, pc, msg, num_messages, size, judged, result, s2c>>
  BY DEF Ask, Goto, configuration
<1>2. Doomed' = Doomed /\ \A k : Worded(k)' = Worded(k)
  BY <1>1, SameTexts DEF Doomed, Condemned
<1>3. PICK c \in Command : /\ c = CommandAt(pc)
                           /\ pc = "STAT2" => c.verb = "STAT"
                           /\ pc = "LIST" => c = Cmd("LIST", msg)
  <2>1. TypeOK /\ pc \in Asking \union {"DELE"} BY <1>1 DEF Core
  <2> QED BY <2>1, CommandFacts DEF CommandAt, Cmd
<1>4. PICK s \in Seq(Command) : s = c2s BY CountFacts
<1>5. PICK n : n = c2s' OBVIOUS
<1>6. /\ Len(s) \in Nat /\ Len(n) \in Nat /\ Len(n) <= Len(s) + 1 /\ Len(s2c) \in Nat
      /\ \A k \in DOMAIN n : (k \in DOMAIN s /\ n[k] = s[k]) \/ n[k] = c
  <2>1. CASE n = Append(s, c) BY <1>4, <2>1, AppendFacts, CountFacts
  <2>2. CASE n = s BY <1>4, <2>2, CountFacts
  <2> QED BY <1>1, <1>3, <1>4, <1>5, <2>1, <2>2 DEF Written
<1>7. pc \in {"USER", "PASS", "APOP", "STAT1", "STAT2"} => AtMost(1)' /\ s = <<>> /\ s2c = <<>>
  <2> SUFFICES ASSUME pc \in {"USER", "PASS", "APOP", "STAT1", "STAT2"}
               PROVE  AtMost(1)' /\ s = <<>> /\ s2c = <<>>
    OBVIOUS
  <2>1. AtMost(0) BY <1>1 DEF Counted
  <2>2. s = <<>> /\ s2c = <<>> BY <1>4, <2>1, CountFacts
  <2>3. Len(s) = 0 /\ Len(s2c) = 0 BY <2>2
  <2> QED BY <1>1, <1>5, <1>6, <2>2, <2>3 DEF AtMost
<1>8. Counted'
  <2>1. pc = "STAT2" => \A k \in DOMAIN n : n[k].verb = "STAT" BY <1>3, <1>6, <1>7
  <2> QED BY <1>1, <1>5, <1>7, <2>1 DEF Counted, Asking
<1>9. ASSUME pc = "LIST", ~Stuck(s2c)
      PROVE  /\ \A k \in DOMAIN s2c' : OwnSize(s2c[k].last)'
             /\ \A k \in DOMAIN n : n[k] = Cmd("LIST", msg) \/ Deleted(n[k])'
             /\ n # <<>> => AtMost(1)' \/ msg - 1 \in Doomed
  <2>1. /\ \A k \in DOMAIN s2c : Worded(s2c[k].last) /\ msg - 1 \in Doomed
        /\ \A k \in DOMAIN s : Deleted(s[k])
    BY <1>1, <1>4, <1>9 DEF Measured
  <2>2. \A k \in DOMAIN s2c' : OwnSize(s2c[k].last)' BY <1>1, <1>2, <2>1 DEF OwnSize
  <2>3. \A k \in DOMAIN n : n[k] = Cmd("LIST", msg) \/ Deleted(n[k])'
    BY <1>1, <1>2, <1>3, <1>6, <1>9, <2>1 DEF Deleted
  <2>4. s # <<>> \/ s2c # <<>> => msg - 1 \in Doomed
    <3>1. s # <<>> => 1 \in DOMAIN s BY LastElement
    <3>2. s2c # <<>> => 1 \in DOMAIN s2c BY CountFacts, LastElement
    <3> QED BY <2>1, <3>1, <3>2 DEF Deleted
  <2>5. s = <<>> /\ s2c = <<>> => AtMost(1)'
    <3> SUFFICES ASSUME s = <<>> /\ s2c = <<>> PROVE AtMost(1)'
      OBVIOUS
    <3>1. Len(s) = 0 /\ Len(s2c) = 0 OBVIOUS
    <3> QED BY <1>1, <1>5, <1>6, <3>1 DEF AtMost
  <2> QED BY <2>2, <2>3, <2>4, <2>5
<1>10. pc = "TOP" => OwnSize(size)' BY <1>1, <1>2 DEF Measured, OwnSize
<1> QED BY <1>1, <1>2, <1>5, <1>8, <1>9, <1>10 DEF Measured

\* The message at hand, when it is condemned.
LEMMA CondemnedAtDele ==
    ASSUME Core, pc = "DELE" PROVE ~cfg.test_mode => msg \in Doomed
<1>1. judged \in Seq([header : Header, weed : {0, 1}]) /\ msg \in Nat BY DEF Core, TypeOK
<1>2. msg \in DOMAIN judged /\ judged[msg].weed = 1
  BY <1>1 DEF Core, Progress, Bounds
<1> QED BY <1>2 DEF Doomed, Condemned

\* POP3::remove_msg leaves its answer to the next LIST.
LEMMA TimelyRemoveMsg ==
    ASSUME Core, Prompt, Counted, RemoveMsg PROVE Counted' /\ Measured'
<1>1. /\ pc = "DELE" /\ NextMessage
      /\ \/ cfg.test_mode /\ c2s' = c2s
         \/ ~cfg.test_mode /\ (c2s' = c2s \/ c2s' = Append(c2s, CommandAt("DELE")))
      /\ UNCHANGED <<cfg, drop, num_messages, size, judged, result, s2c>>
  BY DEF RemoveMsg, Written, NotWritten, configuration
<1>2. Doomed' = Doomed BY <1>1 DEF Doomed, Condemned
<1>3. /\ pc' \in {"LIST", "STAT3", "QUIT"} /\ waiting' = FALSE /\ msg' = msg + 1
      /\ pc' # "LIST" => ~(msg < num_messages)
  BY <1>1, NextMessageFacts DEF Core, NextMessage, EndScan, Goto
<1>4. num_messages = Len(drop) /\ Len(judged) = msg /\ 1 <= msg /\ msg <= num_messages
  BY <1>1 DEF Counted, Core, Progress, Bounds
<1>5. msg \in Nat /\ num_messages \in Nat BY DEF Core, TypeOK
<1>6. pc' # "LIST" => Len(judged) = Len(drop)
  <2>1. pc' # "LIST" => ~(msg < num_messages)
    BY <1>1 DEF NextMessage, Goto
  <2> QED BY <1>4, <1>5, <2>1
<1>7. ASSUME ~Stuck(s2c)
      PROVE  s2c = <<>> /\ \A k \in DOMAIN c2s' : Deleted(c2s[k])'
  <2>1. c2s = <<>> /\ s2c = <<>> BY <1>1, <1>7 DEF Core, Stream
  <2>2. CASE c2s' = c2s BY <2>1, <2>2
  <2>3. CASE ~cfg.test_mode /\ c2s' = Append(c2s, CommandAt("DELE"))
    <3>0. CommandAt("DELE").verb = "DELE" BY DEF CommandAt, Cmd
    <3>1. PICK c : c = CommandAt("DELE") /\ c.verb = "DELE" BY <3>0
    <3>2. c2s' = <<c>> BY <2>1, <2>3, <3>1
    <3>3. DOMAIN c2s' = {1} /\ c2s'[1] = c BY <3>2
    <3>4. msg' - 1 = msg BY <1>3, <1>5
    <3>5. msg \in Doomed BY <1>1, <2>3, CondemnedAtDele
    <3> QED BY <1>2, <2>1, <3>1, <3>3, <3>4, <3>5 DEF Deleted
  <2> QED BY <1>1, <2>2, <2>3
<1>8. Counted' BY <1>1, <1>3, <1>4, <1>6 DEF Counted
<1>9. Measured'
  <2>1. pc' # "TOP" /\ ~waiting' BY <1>3
  <2>2. ~Stuck(s2c)' => /\ \A k \in DOMAIN s2c' : Worded(s2c[k].last)' /\ msg' - 1 \in Doomed'
                        /\ \A k \in DOMAIN c2s' : Deleted(c2s[k])'
    <3>1. s2c' = s2c BY <1>1
    <3>2. s2c = <<>> => DOMAIN s2c = {} OBVIOUS
    <3> QED BY <1>7, <3>1, <3>2
  <2> QED BY <2>1, <2>2 DEF Measured
<1> QED BY <1>8, <1>9

\* POP3::logout after the scan.
LEMMA TimelyLogout ==
    ASSUME Counted, Logout PROVE Counted' /\ Measured'
BY DEF Logout, Goto, Counted, Measured, configuration

\* What is_weed is asked about, and what becomes of its answer.
LEMMA WeedJudges ==
    ASSUME Core, Weed
    PROVE  /\ judged \in Seq([header : Header, weed : {0, 1}]) /\ Len(judged) = msg - 1
           /\ msg \in Nat \ {0} /\ msg <= num_messages /\ msg \in All
           /\ DOMAIN judged = 1..(msg - 1) /\ DOMAIN judged' = 1..msg
           /\ \A k \in 1..(msg - 1) : judged'[k] = judged[k]
           /\ LET h == [entries |-> Parsed, size |-> size]
              IN  judged'[msg] = [header |-> h, weed |-> is_weed(cfg.prefs, msg_ids, h)]
<1>1. pc = "TOP" /\ waiting BY WeedFacts
<1>2. /\ judged \in Seq([header : Header, weed : {0, 1}]) /\ Len(judged) = msg - 1
      /\ msg \in Nat \ {0} /\ msg <= num_messages
  BY <1>1 DEF Core, TypeOK, Progress, Bounds
<1>3. msg \in All BY <1>1, MsgFacts DEF Core
<1>4. PICK h : h = [entries |-> Parsed, size |-> size] OBVIOUS
<1>5. PICK w : w = [header |-> h, weed |-> is_weed(cfg.prefs, msg_ids, h)] OBVIOUS
<1>6. judged' = Append(judged, w) BY <1>4, <1>5 DEF Weed
<1>7. w \in [header : Header, weed : {0, 1}]
  <2>1. Parsed \in Seq(Entry) BY ParsedFacts DEF Weed
  <2>2. h \in Header BY <1>4, <2>1 DEF Header, Core, TypeOK
  <2>3. is_weed(cfg.prefs, msg_ids, h) \in {0, 1} BY is_weedType
  <2> QED BY <1>5, <2>2, <2>3
<1>8. /\ DOMAIN judged = 1..(msg - 1) /\ DOMAIN judged' = 1..msg
      /\ \A k \in 1..(msg - 1) : judged'[k] = judged[k]
      /\ judged'[msg] = w
  BY <1>2, <1>6, <1>7, AppendFacts
<1> QED BY <1>2, <1>3, <1>4, <1>5, <1>8

\* What becomes of the condemned.
LEMMA WeedDooms ==
    ASSUME Core, Weed
    PROVE  /\ Condemned \subseteq Condemned' /\ Condemned' \subseteq Condemned \union {msg}
           /\ Doomed \subseteq Doomed'
<1>1. Condemned \subseteq Condemned' /\ Condemned' \subseteq Condemned \union {msg}
  <2>1. /\ DOMAIN judged = 1..(msg - 1) /\ DOMAIN judged' = 1..msg /\ msg \in Nat \ {0}
        /\ \A k \in 1..(msg - 1) : judged'[k] = judged[k]
    BY WeedJudges
  <2>2. \A k \in 1..msg : k \in 1..(msg - 1) \/ k = msg BY <2>1
  <2>3. \A k \in 1..(msg - 1) : k \in 1..msg BY <2>1
  <2> QED BY <2>1, <2>2, <2>3 DEF Condemned
<1>2. cfg' = cfg BY WeedFacts
<1> QED BY <1>1, <1>2 DEF Doomed

\* The scan goes on with a clean connection, or one that will fail.
LEMMA TimelyWeed ==
    ASSUME Core, Prompt, Counted, Weed PROVE Counted' /\ Measured'
<1>1. /\ UNCHANGED <<cfg, drop, c2s, s2c, peer, num_messages>> /\ pc = "TOP" /\ result' = result
  BY WeedFacts DEF Weed
<1>2. /\ Len(judged) = msg - 1 /\ msg \in Nat \ {0} /\ msg <= num_messages
      /\ DOMAIN judged' = 1..msg
  BY WeedJudges
<1>3. num_messages = Len(drop) /\ num_messages \in Nat BY <1>1 DEF Counted, Core, TypeOK
<1>4. c2s = <<>> /\ (s2c = <<>> \/ Stuck(s2c)) BY EndHeaderFacts DEF Weed
<1>5. /\ pc' \in {"DELE", "LIST", "STAT3", "QUIT"} /\ waiting' = FALSE
      /\ pc' \in {"STAT3", "QUIT"} => ~(msg < num_messages)
  BY DEF Weed, NextMessage, EndScan, Goto
<1>6. pc' \in {"STAT3", "QUIT"} => Len(judged') = Len(drop)
  <2>1. judged' \in Seq([header : Header, weed : {0, 1}])
    BY WeedStep DEF Core, TypeOK
  <2>2. Len(judged') = msg BY <1>2, <2>1
  <2> QED BY <1>2, <1>3, <1>5, <2>2
<1>7. Counted' BY <1>1, <1>3, <1>5, <1>6 DEF Counted
<1>8. Measured'
  <2>1. DOMAIN c2s' = {} /\ (Stuck(s2c)' \/ DOMAIN s2c' = {}) BY <1>1, <1>4 DEF Stuck
  <2> QED BY <1>5, <2>1 DEF Measured
<1> QED BY <1>7, <1>8

\* The server is gone: what had been under way is less.
LEMMA TimelyEnds ==
    ASSUME Core, Prompt, Counted, Measured, Ends PROVE Counted' /\ Measured'
<1>1. /\ UNCHANGED <<cfg, drop, pc, waiting, msg, num_messages, size, result, judged>>
      /\ c2s' = <<>>
  BY ServeFrame DEF Ends, ServerEof, ServerClose, ServerAbort, CloseResets
<1>2. Doomed' = Doomed /\ \A n : Worded(n)' = Worded(n)
  BY <1>1, SameTexts DEF Doomed, Condemned
<1>3. PICK k \in 0..Len(s2c) : s2c' = SubSeq(s2c, 1, k)
  <2>1. CASE ServerAbort BY <2>1 DEF ServerAbort
  <2>2. CASE ~ServerAbort
    <3>1. s2c' = s2c BY <2>2 DEF Ends, ServerEof, ServerClose, CloseResets
    <3>2. Len(s2c) \in 0..Len(s2c) /\ s2c = SubSeq(s2c, 1, Len(s2c)) BY WholeStream DEF Core
    <3> QED BY <3>1, <3>2
  <2> QED BY <2>1, <2>2
<1>4. /\ s2c' \in Seq(Segment) /\ Len(s2c') = k /\ \A i \in 1..k : s2c'[i] = s2c[i]
      /\ s2c \in Seq(Segment) /\ k \in Nat /\ k <= Len(s2c) /\ Len(s2c) \in Nat /\ Len(c2s) \in Nat
  BY <1>3, PrefixFacts, CountFacts
<1>5. \A i \in DOMAIN s2c' : i \in DOMAIN s2c /\ s2c'[i] = s2c[i] BY <1>4
<1>6. \A n \in Nat : AtMost(n) => AtMost(n)'
  <2>1. Len(c2s') = 0 BY <1>1
  <2> QED BY <1>4, <2>1 DEF AtMost
<1>7. DOMAIN c2s' = {} BY <1>1
<1>8. ~Stuck(s2c)' => s2c' = <<>> \/ ~Stuck(s2c)
  <2>1. s2c' # <<>> => 1 \in DOMAIN s2c' BY <1>4, LastElement
  <2> QED BY <1>5, <2>1 DEF Stuck
<1>9. Counted'
  <2>1. \A n \in {0, 1} : AtMost(n) => AtMost(n)' BY <1>6
  <2> QED BY <1>1, <1>5, <1>7, <2>1 DEF Counted
<1>10. ~Stuck(s2c)' => DOMAIN s2c' = {} \/ ~Stuck(s2c)
  BY <1>8
<1>11. Measured'
  <2>1. \A n : OwnSize(n)' = OwnSize(n) BY <1>1, <1>2 DEF OwnSize
  <2> QED BY <1>1, <1>2, <1>5, <1>7, <1>10, <2>1 DEF Measured
<1> QED BY <1>9, <1>11

----------------------------------------------------------------------------
\* An answer in one piece, and the numbers it carries.
LEMMA PromptAnswer ==
    ASSUME Core, Prompt, Serve, pc \notin Gone, NEW c \in Command, c = Head(c2s), c.verb # "TOP"
    PROVE  \E e \in Segment :
              /\ s2c' = Append(s2c, e)
              /\ e.ok /\ c.verb = "STAT" => e.second = Cardinality(Left)
              /\ c.verb = "LIST" => (e.ok /\ e.last = drop[c.no].size) \/ (~e.ok /\ Worded(e.last))
              /\ c.verb \notin {"STAT", "LIST"} => Worded(e.last)
<1>1. ASSUME NEW ok \in BOOLEAN, NEW n \in Nat, NEW m \in Nat, NEW d \in BOOLEAN,
             NEW r \in Cuts(Status(ok, n, m, d)), Transmit(r)
      PROVE  \E e \in Segment : s2c' = Append(s2c, e) /\ e.ok = ok /\ e.second = n /\ e.last = m
  <2>1. r = <<Status(ok, n, m, d)>> BY DEF Cuts, Prompt
  <2>2. PICK e \in Segment : e = Status(ok, n, m, d) BY StatusType
  <2>3. e.ok = ok /\ e.second = n /\ e.last = m BY <2>2 DEF Status
  <2>4. s2c' = s2c \o <<e>> BY <1>1, <2>1, <2>2 DEF Transmit
  <2>5. s2c' = Append(s2c, e) BY <2>4, CountFacts, AppendIsConcat
  <2> QED BY <2>3, <2>5
<1>2. ASSUME NEW ok \in BOOLEAN, NEW D \in SUBSET BOOLEAN, NEW r \in Free(ok, D), Transmit(r)
      PROVE  \E e \in Segment : s2c' = Append(s2c, e) /\ e.ok = ok /\ Worded(e.last)
  <2>1. PICK t \in Texts, d \in D : r \in Cuts(Status(ok, t.second, t.last, d)) BY DEF Free
  <2>2. PICK n \in Nat, m \in Nat : n = t.second /\ m = t.last BY TextsFacts
  <2>3. r \in Cuts(Status(ok, n, m, d)) /\ d \in BOOLEAN BY <2>1, <2>2
  <2>4. PICK e \in Segment : s2c' = Append(s2c, e) /\ e.ok = ok /\ e.second = n /\ e.last = m
    <3>1. Transmit(r) /\ ok \in BOOLEAN /\ n \in Nat /\ m \in Nat BY <1>2
    <3> QED BY <1>1, <2>3, <3>1
  <2>5. \E x \in Texts : e.last = x.last BY <2>2, <2>4
  <2>6. Worded(e.last) BY <2>5, Zenon DEF Worded
  <2> QED BY <2>4, <2>6
<1>4. CASE Refuse
  <2>1. PICK r \in Refusals : Transmit(r) BY <1>4 DEF Refuse
  <2>2. r \in Free(FALSE, BOOLEAN) /\ BOOLEAN \in SUBSET BOOLEAN /\ FALSE \in BOOLEAN
    BY DEF Refusals
  <2>3. \E e \in Segment : s2c' = Append(s2c, e) /\ e.ok = FALSE /\ Worded(e.last)
    BY <1>2, <2>1, <2>2, Zenon
  <2> QED BY <2>3
<1>3. CASE ServeRead \/ ServeDele \/ ServeQuit
  <2>1. PICK r \in Answers(c) : Transmit(r)
    BY <1>3 DEF ServeRead, ServeDele, ServeQuit
  <2>2. CASE c.verb = "STAT"
    <3>1. Cardinality(Left) \in Nat /\ MaildropOctets \in Nat
      BY LeftFacts, SessionAssumption DEF Core
    <3>2. r \in Cuts(Status(TRUE, Cardinality(Left), MaildropOctets, FALSE))
      BY <2>1, <2>2 DEF Answers
    <3>3. PICK m \in Nat, o \in Nat : m = Cardinality(Left) /\ o = MaildropOctets BY <3>1
    <3>4. r \in Cuts(Status(TRUE, m, o, FALSE)) BY <3>2, <3>3
    <3>5. \E e \in Segment : s2c' = Append(s2c, e) /\ e.ok = TRUE /\ e.second = m /\ e.last = o
      BY <1>1, <2>1, <3>4, ZenonT(60)
    <3> QED BY <2>2, <3>3, <3>5
  <2>3. CASE c.verb = "LIST"
    <3>1. Granted(c) /\ c.no \in Left
      BY <1>3, <2>3 DEF ServeRead, ServeDele, ServeQuit, Granted
    <3>2. c.no \in All BY <3>1, LeftFacts DEF Core
    <3>3. drop \in Seq(Header) BY SessionAssumption DEF Core, TypeOK
    <3>4. drop[c.no] \in Header BY <3>2, <3>3, ElementOfSeq DEF All
    <3>5. c.no \in Nat /\ drop[c.no].size \in Nat BY <3>4 DEF Command, Header
    <3>6. r \in Cuts(Status(TRUE, c.no, drop[c.no].size, FALSE))
      BY <2>1, <2>3 DEF Answers
    <3>7. PICK m \in Nat, o \in Nat : m = c.no /\ o = drop[c.no].size BY <3>5
    <3>8. r \in Cuts(Status(TRUE, m, o, FALSE)) BY <3>6, <3>7
    <3>9. \E e \in Segment : s2c' = Append(s2c, e) /\ e.ok = TRUE /\ e.second = m /\ e.last = o
      BY <1>1, <2>1, <3>8, ZenonT(60)
    <3> QED BY <2>3, <3>7, <3>9
  <2>4. CASE c.verb \notin {"STAT", "LIST"}
    <3>1. r \in Free(TRUE, Dot) BY <2>1, <2>4 DEF Answers
    <3>2. Dot \in SUBSET BOOLEAN /\ TRUE \in BOOLEAN BY DEF Dot
    <3>3. \E e \in Segment : s2c' = Append(s2c, e) /\ e.ok = TRUE /\ Worded(e.last)
      BY <1>2, <2>1, <3>1, <3>2, Zenon
    <3> QED BY <2>4, <3>3
  <2> QED BY <2>2, <2>3, <2>4
<1> QED BY <1>3, <1>4 DEF Serve

\* Serving a command turns it into its answer.
LEMMA TimelyServe ==
    ASSUME Core, Core', Prompt, Counted, Measured, Serve PROVE Counted' /\ Measured'
<1>1. /\ UNCHANGED <<cfg, drop, pc, waiting, msg, num_messages, size, result, judged>>
      /\ c2s # <<>> /\ c2s' = Tail(c2s)
  BY ServeFrame DEF Serve, ServeRead, ServeDele, ServeQuit, Refuse, Serving
<1>2. Doomed' = Doomed /\ \A x : Worded(x)' = Worded(x)
  BY <1>1, SameTexts DEF Doomed, Condemned
<1>3. \A x : OwnSize(x)' = OwnSize(x) BY <1>1, <1>2 DEF OwnSize
<1>4. PICK s, n : s \in Seq(Command) /\ s = c2s /\ n = c2s' BY CountFacts
<1>5. PICK c \in Command : c = Head(c2s) BY <1>1, CountFacts, HeadFacts
<1>6. /\ n \in Seq(Command) /\ Len(s) \in Nat \ {0} /\ Len(n) = Len(s) - 1 /\ Len(s2c) \in Nat
      /\ \A k \in DOMAIN n : k + 1 \in DOMAIN s /\ n[k] = s[k + 1]
      /\ c = s[1] /\ 1 \in DOMAIN s /\ (Len(s) = 1 => n = <<>>)
  BY <1>1, <1>4, <1>5, HeadFacts, LastElement, CountFacts
<1>7. CASE pc \in {"USER", "PASS", "APOP", "STAT1", "STAT2"}
  <2>1. waiting
    <3>1. ~waiting => AtMost(0) BY <1>7 DEF Counted
    <3> QED BY <1>1, <3>1, CountFacts
  <2>2. s2c = <<>> /\ Len(s) = 1
    <3>1. AtMost(1) BY <1>7, <2>1 DEF Counted
    <3> QED BY <1>1, <1>4, <3>1, CountFacts
  <2>3. c.verb # "TOP" /\ (pc = "STAT2" => c.verb = "STAT")
    <3>1. TwoOwed BY <1>7, <2>1 DEF Core, Stream
    <3>2. Short(c)
      BY <1>4, <1>6, <2>2, <3>1 DEF TwoOwed, Stuck
    <3> QED BY <1>4, <1>6, <3>2 DEF Short, Counted
  <2>4. PICK e \in Segment : /\ s2c' = Append(s2c, e)
                             /\ e.ok /\ c.verb = "STAT" => e.second = Cardinality(Left)
    BY <1>5, <1>7, <2>3, PromptAnswer DEF Gone
  <2>5. s2c' = <<e>> /\ c2s' = <<>> BY <1>4, <1>6, <2>2, <2>4
  <2>6. AtMost(1)' BY <2>5 DEF AtMost
  <2>7. ASSUME pc = "STAT2" PROVE Cardinality(Left) = Len(drop)
    <3>1. judged = <<>> /\ mailbox = All /\ marked \subseteq Doomed
      BY <2>7 DEF Core, Progress, Deletion
    <3>2. Doomed = {} BY <3>1 DEF Doomed, Condemned
    <3>3. Left = 1..Len(drop) /\ Len(drop) \in Nat
      BY <3>1, <3>2, LeftFacts DEF Left, Core
    <3>4. Cardinality(Left) = IF 1 > Len(drop) THEN 0 ELSE Len(drop) - 1 + 1
      <4>1. 1 \in Int /\ Len(drop) \in Int BY <3>3
      <4> QED BY <3>3, <4>1, FS_Interval
    <3>5. CASE Len(drop) = 0 BY <3>4, <3>5
    <3>6. CASE Len(drop) # 0 BY <3>3, <3>4, <3>6
    <3> QED BY <3>5, <3>6
  <2>8. DOMAIN s2c' = {1} /\ s2c'[1] = e /\ DOMAIN c2s' = {} BY <2>5
  <2>9. pc = "STAT2" => \A k \in DOMAIN s2c' : s2c'[k].ok => s2c'[k].second = Len(drop)
    BY <2>3, <2>4, <2>7, <2>8
  <2> QED BY <1>1, <1>7, <2>1, <2>6, <2>8, <2>9 DEF Counted, Measured
<1>8. CASE pc = "greeting"
  BY <1>1, <1>8 DEF Core, Stream
<1>9. CASE pc \notin {"greeting", "USER", "PASS", "APOP", "STAT1", "STAT2", "LIST"}
  BY <1>1, <1>3, <1>9 DEF Counted, Measured
<1>10. CASE pc = "LIST"
  <2>1. Counted' BY <1>1, <1>10 DEF Counted
  <2> SUFFICES ASSUME ~Stuck(s2c)' PROVE Measured'
    BY <1>1, <1>10, <2>1 DEF Measured
  <2>2. \/ Stuck(s2c)
        \/ /\ c.verb # "TOP"
           /\ c = Cmd("LIST", msg) \/ Deleted(c)
           /\ ~waiting => Deleted(c) \/ Stuck(s2c)
    BY <1>4, <1>6, <1>10 DEF Measured, Deleted, Cmd
  <2>3. PICK r : s2c' = s2c \o r /\ r \in Seq(Segment)
    <3>1. TypeOK BY DEF Core
    <3> QED BY <1>10, <3>1, ServeFacts, AnswerType DEF Serve, Gone
  <2>4. ~Stuck(s2c) BY <2>3, StuckStays, CountFacts
  <2>5. PICK e \in Segment :
              /\ s2c' = Append(s2c, e)
              /\ c.verb = "LIST" => (e.ok /\ e.last = drop[c.no].size) \/ (~e.ok /\ Worded(e.last))
              /\ c.verb \notin {"STAT", "LIST"} => Worded(e.last)
    BY <1>5, <1>10, <2>2, <2>4, PromptAnswer DEF Gone
  <2>6. /\ \A k \in DOMAIN s2c' : (k \in DOMAIN s2c /\ s2c'[k] = s2c[k]) \/ s2c'[k] = e
        /\ s2c' \in Seq(Segment) /\ Len(s2c') = Len(s2c) + 1
    BY <2>5, AppendFacts, CountFacts
  <2>7. AtMost(1) => AtMost(1)' BY <1>4, <1>6, <2>6 DEF AtMost
  <2>8. CASE ~waiting
    <3>1. OneOwed BY <1>10, <2>8 DEF Core, Stream
    <3>2. Len(s) = 1 /\ n = <<>> /\ s2c = <<>> BY <1>1, <1>4, <1>6, <2>4, <3>1 DEF OneOwed
    <3>3. msg - 1 \in Doomed /\ Worded(e.last) BY <2>2, <2>4, <2>5, <2>8 DEF Deleted
    <3>4. \A k \in DOMAIN s2c' : Worded(s2c[k].last)' BY <1>2, <2>6, <3>2, <3>3
    <3>5. DOMAIN c2s' = {} BY <1>4, <3>2
    <3> QED BY <1>1, <1>2, <1>10, <2>8, <3>3, <3>4, <3>5 DEF Measured
  <2>9. CASE waiting
    <3>1. /\ \A k \in DOMAIN s2c : OwnSize(s2c[k].last)
          /\ \A k \in DOMAIN s : s[k] = Cmd("LIST", msg) \/ Deleted(s[k])
          /\ AtMost(1) \/ msg - 1 \in Doomed
      BY <1>1, <1>4, <1>10, <2>4, <2>9 DEF Measured
    <3>2. OwnSize(e.last)
      <4>1. CASE Deleted(c) BY <2>5, <4>1 DEF Deleted, OwnSize
      <4>2. CASE c = Cmd("LIST", msg)
        <5>1. c.verb = "LIST" /\ c.no = msg BY <4>2 DEF Cmd
        <5>2. CASE e.ok BY <2>5, <5>1, <5>2 DEF OwnSize
        <5>3. CASE ~e.ok /\ msg - 1 \in Doomed BY <2>5, <5>1, <5>3 DEF OwnSize
        <5>4. CASE ~e.ok /\ AtMost(1)
          <6>1. s2c = <<>> BY <1>1, <5>4, CountFacts
          <6>2. s2c' = <<e>> BY <2>5, <6>1
          <6>3. Stuck(s2c)' BY <5>4, <6>2 DEF Stuck
          <6> QED BY <6>3
        <5> QED BY <3>1, <5>2, <5>3, <5>4
      <4> QED BY <2>2, <2>4, <4>1, <4>2
    <3>3. \A k \in DOMAIN s2c' : OwnSize(s2c'[k].last) BY <2>6, <3>1, <3>2
    <3>4. \A k \in DOMAIN n : n[k] = Cmd("LIST", msg) \/ Deleted(n[k]) BY <1>6, <3>1
    <3>5. AtMost(1)' \/ msg - 1 \in Doomed BY <2>7, <3>1
    <3>6. /\ \A k \in DOMAIN s2c' : OwnSize(s2c[k].last)'
          /\ \A k \in DOMAIN c2s' : c2s'[k] = Cmd("LIST", msg) \/ Deleted(c2s[k])'
      BY <1>1, <1>2, <1>3, <1>4, <3>3, <3>4 DEF Deleted
    <3> QED BY <1>1, <1>2, <1>10, <2>9, <3>5, <3>6 DEF Measured
  <2> QED BY <2>8, <2>9
<1> QED BY <1>7, <1>8, <1>9, <1>10

\* When answers arrive in time and in one piece, the client keeps count.
LEMMA NextTimely ==
    ASSUME Core, Core', Timely, [Next]_vars PROVE Timely'
<1>1. cfg' = cfg /\ drop' = drop
  BY StepKinds, IdleFacts, WriteFacts, WeedFacts, ServeFrame DEF Open, vars, configuration
<1> SUFFICES ASSUME Prompt' PROVE Counted' /\ Measured' /\ SizeOwnOrStray'
  BY DEF Timely
<1>2. Prompt /\ Counted /\ Measured /\ SizeOwnOrStray BY <1>1 DEF Prompt, Timely
<1>3. CASE UNCHANGED vars
  <2>1. UNCHANGED <<cfg, drop, pc, waiting, msg, num_messages, size, judged, result, c2s, s2c>>
    BY <1>3 DEF vars, configuration, clientVars, connVars
  <2>2. Doomed' = Doomed BY <2>1 DEF Doomed, Condemned
  <2>3. Counted' BY <1>2, <2>1 DEF Counted, AtMost
  <2>4. Measured'
    <3>1. \A n : Worded(n)' = Worded(n) BY <2>1, SameTexts
    <3> QED BY <1>2, <2>1, <2>2, <3>1 DEF Measured, OwnSize, Deleted, Stuck, AtMost
  <2>5. SizeOwnOrStray'
    <3>1. Texts' = Texts BY <2>1 DEF Texts
    <3> QED BY <1>2, <2>1, <2>2, <3>1 DEF SizeOwnOrStray, All, Prompt
  <2> QED BY <2>3, <2>4, <2>5
<1>4. CASE ~UNCHANGED vars
  <2>1. Counted' /\ Measured'
    BY <1>2, <1>4, StepKinds, TimelyIdle, TimelyOpen, TimelyAsk, TimelyWeed, TimelyRemoveMsg,
       TimelyLogout, TimelyServe, TimelyEnds
  <2>2. SizeOwnOrStray'
    <3>1. CASE Weed
      <4>1. /\ DOMAIN judged = 1..(msg - 1) /\ DOMAIN judged' = 1..msg /\ msg \in Nat \ {0}
            /\ \A k \in 1..(msg - 1) : judged'[k] = judged[k]
            /\ judged'[msg].header.size = size
        BY <3>1, WeedJudges
      <4>2. Doomed \subseteq Doomed' BY <3>1, WeedDooms
      <4>3. OwnSize(size) BY <1>2, <3>1, WeedFacts DEF Measured
      <4>4. All' = All BY <1>1 DEF All
      <4>5. ASSUME NEW k \in 1..msg, k \in All
            PROVE  \/ judged'[k].header.size = drop[k].size
                   \/ k - 1 \in Doomed' /\ \E t \in Texts : judged'[k].header.size = t.last
        <5>1. CASE k = msg BY <4>1, <4>2, <4>3, <5>1 DEF OwnSize, Worded
        <5>2. CASE k # msg
          <6>1. k \in 1..(msg - 1) BY <4>1, <5>2
          <6> QED BY <1>2, <4>1, <4>2, <4>5, <6>1 DEF SizeOwnOrStray
        <5> QED BY <5>1, <5>2
      <4>6. Texts' = Texts BY <1>1 DEF Texts
      <4> QED BY <1>1, <4>1, <4>4, <4>5, <4>6 DEF SizeOwnOrStray
    <3>2. CASE ~Weed
      <4>1. judged' = judged
        BY <1>4, <3>2, StepKinds, IdleFacts, WriteFacts, ServeFrame DEF Open
      <4>2. Doomed' = Doomed BY <1>1, <4>1 DEF Doomed, Condemned
      <4>3. Texts' = Texts BY <1>1 DEF Texts
      <4> QED BY <1>1, <1>2, <4>1, <4>2, <4>3 DEF SizeOwnOrStray, All, Prompt
    <3> QED BY <3>1, <3>2
  <2> QED BY <2>1, <2>2
<1> QED BY <1>3, <1>4

----------------------------------------------------------------------------
\* The initial states.
LEMMA FreshPInv == Fresh => PInv
<1> SUFFICES ASSUME Fresh PROVE PInv
  OBVIOUS
<1>1. /\ pc = "open" /\ server = "listen" /\ mailbox = All /\ result = "none" /\ judged = <<>>
  BY DEF Fresh
<1>2. DOMAIN judged = {} BY <1>1
<1> QED BY <1>1, <1>2 DEF PInv, Dialogue, Live, Settled, KilledEarly, Returns, Success, Gone, Timely,
                          Counted, Measured, SizeOwnOrStray

\* The additional invariant holds when the connection is about to be opened.
LEMMA InitPInv == Init => PInv
BY FreshPInv DEF Init, Fresh, All

\* Every step.
LEMMA NextPInv == Core /\ Core' /\ PInv /\ [Next]_vars => PInv'
BY NextDialogue, NextSettled, NextKilledEarly, NextReturns, NextSuccess, NextTimely DEF PInv

\* The invariants on top of IInv are invariants of every session, for all values of the
\* constants.
THEOREM Promises == Spec => [](IInv /\ PInv)
<1>1. Init => IInv /\ PInv BY InitIInv, InitPInv
<1>2. IInv /\ PInv /\ [Next]_vars => (IInv /\ PInv)' BY NextIInv, NextPInv DEF IInv
<1> QED BY <1>1, <1>2, PTL DEF Spec

\* No message disappears before Account::check has written QUIT, and a program that is
\* killed, but by ^C, has removed nothing: exit in the parser and SIGPIPE come before QUIT.
THEOREM LossesAfterQuit == Spec => []NothingLostBeforeQuit
<1>1. IInv /\ PInv => NothingLostBeforeQuit
  BY DEF IInv, Core, Deletion, PInv, KilledEarly, NothingLostBeforeQuit
<1> QED BY <1>1, Promises, PTL

\* A session removes all the messages it condemned or none of them, as long as the server
\* grants what it can: every DELE arrives before QUIT, whatever is cut off.
THEOREM DeletionsTogether == Spec => []AllOrNothing
<1>1. IInv /\ PInv => AllOrNothing BY DEF PInv, Settled, AllOrNothing, Obliging
<1> QED BY <1>1, Promises, PTL

\* Without an error the scan has come to the last message.
LEMMA PromptExamines == IInv /\ PInv => ScanIsComplete
<1> SUFFICES ASSUME IInv, PInv, Prompt, result = "ok" PROVE DOMAIN judged = All
  BY DEF ScanIsComplete, AllExamined
<1>1. pc = "done" BY DEF PInv, Returns
<1>2. Len(judged) = Len(drop) BY <1>1 DEF PInv, Timely, Counted
<1>3. judged \in Seq([header : Header, weed : {0, 1}]) /\ drop \in Seq(Header)
  BY SessionAssumption DEF IInv, Core, TypeOK
<1> QED BY <1>2, <1>3 DEF All

\* A session without an error has examined every message of the mailbox, when no answer is
\* cut or late.
THEOREM ScansComplete == Spec => []ScanIsComplete
BY PromptExamines, Promises, PTL

\* When no answer is cut or late, the size the rules are given is the message's own, or, behind
\* a deleted message, the number a text of the server's ends in: POP3::scan may have taken
\* the answer to the DELE for the one to LIST.
THEOREM SizesOwnOrStray == Spec => []SizeOwnOrStray
<1>1. IInv /\ PInv => SizeOwnOrStray BY DEF PInv, Timely, SizeOwnOrStray
<1> QED BY <1>1, Promises, PTL

\* One answer owed is one segment that starts one.
THEOREM OneBehind == Spec => []AtMostOneBehind
<1>1. IInv => AtMostOneBehind
  <2> SUFFICES ASSUME Core, pc = "LIST", ~waiting, ~(s2c # <<>> /\ ~Positive(s2c)) PROVE Owed <= 1
    BY DEF AtMostOneBehind, IInv
  <2> DEFINE S == {k \in DOMAIN s2c : s2c[k].kind \in {"status", "front"}}
  <2>1. ~Stuck(s2c) /\ OneOwed BY DEF Positive, Stuck, Core, Stream
  <2>2. CASE c2s = <<>> /\ Single(s2c)
    <3>1. \A k \in S : k = 1
      <4>1. \A k \in DOMAIN s2c : k = 1 \/ k > 1
        <5>1. s2c \in Seq(Segment) BY CountFacts
        <5> QED BY <5>1
      <4> QED BY <2>2, <4>1 DEF Single, Starts
    <3>2. S \subseteq {1} BY <3>1
    <3>3. IsFiniteSet({1}) /\ Cardinality({1}) = 1 BY FS_Singleton
    <3>4. Cardinality(S) <= 1 /\ Cardinality(S) \in Nat
      <4> HIDE DEF S
      <4>1. IsFiniteSet(S) /\ Cardinality(S) <= Cardinality({1}) BY <3>2, <3>3, FS_Subset
      <4> QED BY <3>3, <4>1, FS_CardinalityType
    <3>5. Len(c2s) = 0 BY <2>2
    <3> QED BY <3>4, <3>5 DEF Owed
  <2>3. CASE s2c = <<>> /\ Len(c2s) = 1
    <3>1. S = {} BY <2>3
    <3>2. Cardinality(S) = 0 BY <3>1, FS_EmptySet
    <3> QED BY <2>3, <3>2 DEF Owed
  <2> QED BY <2>1, <2>2, <2>3 DEF OneOwed
<1> QED BY <1>1, Invariance, PTL

----------------------------------------------------------------------------
\* A header whose end was not mistaken has been parsed whole; the refusal of TOP has no line.
LEMMA WholeParsed ==
    ASSUME Core, EndHeader, Positive(input), Untruncated(input \o s2c)
    PROVE  Parsed = drop[msg].entries \/ (~Obliging /\ Parsed = <<>>)
<1>1. PICK t : t = input \o s2c OBVIOUS
<1>2. input \in Seq(Segment) /\ s2c \in Seq(Segment) /\ input # <<>> /\ input[Len(input)].dot
  BY DEF Core, TypeOK, EndHeader, Ended
<1>3. PICK p \in 0..Len(t), n \in 0..Len(t) : HeaderAt(t, p, n)
  BY <1>1, EndHeaderFacts
<1>4. PICK l \in Nat \ {0} : l = Len(input) BY <1>2, LastElement
<1>5. /\ t \in Seq(Segment) /\ Len(t) \in Nat /\ l <= Len(t)
      /\ DOMAIN input = 1..l /\ DOMAIN t = 1..Len(t)
      /\ \A i \in 1..l : t[i] = input[i]
  BY <1>1, <1>2, <1>4, ConcatFacts
<1>6. msg \in All /\ drop[msg] \in Header
  BY MsgFacts DEF Core, EndHeader
<1>7. PICK e \in Seq(Entry) : e = drop[msg].entries
  BY <1>6 DEF Header
<1>8. PICK m \in Nat : m = Len(e) OBVIOUS
<1>9. l \in DOMAIN t /\ t[l].dot BY <1>2, <1>4, <1>5
<1>10. LinesRead = {k \in 1..l : t[k].kind = "line"}
  BY <1>5 DEF LinesRead
<1>11. LinesRead = {} => Parsed = <<>> BY DEF Parsed
<1>12. CASE ~Obliging /\ NoLine(t)
  BY <1>5, <1>10, <1>11, <1>12 DEF NoLine
<1>13. CASE \E o \in 0..l : o + m < l /\ \A j \in 1..m : t[o + j].kind = "line"
  <2>1. PICK o \in 0..l : o + m < l /\ \A j \in 1..m : t[o + j].kind = "line" BY <1>13
  <2>2. /\ n > 0 => n <= m
        /\ \A k \in 1..Len(t) : t[k].kind = "line" <=> p + 1 <= k /\ k <= p + n
    BY <1>3, <1>5, <1>7, <1>8 DEF HeaderAt
  <2>3. CASE m = 0
    <3>1. n = 0 BY <1>5, <2>2, <2>3
    <3>2. LinesRead = {} BY <1>4, <1>5, <1>10, <2>2, <3>1
    <3>3. e = <<>> BY <1>8, <2>3, EmptySeq
    <3> QED BY <1>7, <1>11, <3>2, <3>3
  <2>4. CASE m # 0
    <3>1. /\ o + 1 \in 1..Len(t) /\ t[o + 1].kind = "line"
          /\ o + m \in 1..Len(t) /\ t[o + m].kind = "line"
      BY <1>4, <1>5, <1>8, <2>1, <2>4
    <3>2. p = o /\ n = m
      BY <1>5, <1>8, <2>2, <2>4, <3>1
    <3>3. LinesRead = (o + 1)..(o + m)
      BY <1>4, <1>5, <1>8, <1>10, <2>1, <2>2, <3>2
    <3>4. o + m \in LinesRead /\ o + 1 \in LinesRead
      BY <1>4, <1>8, <2>4, <3>3
    <3>5. Max(LinesRead) = o + m
      <4>1. \A y \in LinesRead : o + m >= y BY <3>3
      <4>2. \A x \in LinesRead : (\A y \in LinesRead : x >= y) => x = o + m
        BY <3>4, <4>1, <3>3
      <4> QED BY <3>4, <4>1, <4>2 DEF Max
    <3>6. Min(LinesRead) = o + 1
      <4>1. \A y \in LinesRead : o + 1 <= y BY <3>3
      <4>2. \A x \in LinesRead : (\A y \in LinesRead : x <= y) => x = o + 1
        BY <3>4, <4>1, <3>3
      <4> QED BY <3>4, <4>1, <4>2 DEF Min
    <3>7. DOMAIN Parsed = 1..m
      <4>1. (o + m) - (o + 1) + 1 = m BY <1>8
      <4> QED BY <3>4, <3>5, <3>6, <4>1 DEF Parsed
    <3>8. Parsed \in Seq(Entry) /\ Parsed = SubSeq(e, 1, Len(Parsed)) BY <1>7, ParsedFacts
    <3>9. Len(Parsed) = m BY <1>8, <3>7, <3>8
    <3>10. SubSeq(e, 1, Len(e)) = e BY SubSeqFull
    <3> QED BY <1>7, <1>8, <3>8, <3>9, <3>10
  <2> QED BY <2>3, <2>4
<1> QED BY <1>1, <1>7, <1>8, <1>9, <1>12, <1>13 DEF Untruncated

\* The beginning of a stream is as much of a header.
LEMMA UntruncatedBegins ==
    ASSUME NEW t \in Seq(Segment), NEW u \in Seq(Segment), Begins(u, t), Untruncated(t),
           Len(drop[msg].entries) \in Nat
    PROVE  Untruncated(u)
<1>1. PICK m \in Nat : m = Len(drop[msg].entries) OBVIOUS
<1>2. /\ Len(u) \in Nat /\ Len(t) \in Nat /\ Len(u) <= Len(t) /\ DOMAIN u = 1..Len(u) /\ DOMAIN t = 1..Len(t)
      /\ \A i \in 1..Len(u) : u[i] = t[i] /\ i \in 1..Len(t)
  BY DEF Begins
<1>3. ASSUME NEW k \in 1..Len(u), u[k].dot
      PROVE  \/ ~Obliging /\ NoLine(u)
             \/ \E o \in 0..k : o + m < k /\ \A j \in 1..m : u[o + j].kind = "line"
  <2>1. t[k].dot /\ k \in DOMAIN t BY <1>2, <1>3
  <2>2. CASE ~Obliging /\ NoLine(t) BY <1>2, <2>2 DEF NoLine
  <2>3. CASE \E o \in 0..k : o + m < k /\ \A j \in 1..m : t[o + j].kind = "line"
    <3>1. PICK o \in 0..k : o + m < k /\ \A j \in 1..m : t[o + j].kind = "line" BY <2>3
    <3>2. \A j \in 1..m : o + j \in 1..Len(u) BY <1>1, <1>2, <3>1
    <3>3. \A j \in 1..m : u[o + j].kind = "line" BY <1>2, <3>1, <3>2
    <3> QED BY <3>1, <3>3
  <2> QED BY <1>1, <2>1, <2>2, <2>3 DEF Untruncated
<1> QED BY <1>1, <1>2, <1>3 DEF Untruncated

\* A stream without a text that ends in ".".
LEMMA UntruncatedQuiet ==
    ASSUME NEW t, Quiet(t) PROVE Untruncated(t)
BY DEF Quiet, Untruncated

\* r is s followed by q; a name that keeps concatenations from being rewritten.
Joined(r, s, q) == r = s \o q

\* Concatenation is associative.
LEMMA Regrouped ==
    ASSUME NEW a \in Seq(Segment), NEW b \in Seq(Segment), NEW e \in Seq(Segment),
           NEW x, Joined(x, a, b), NEW y, Joined(y, b, e), NEW z, Joined(z, x, e)
    PROVE  Joined(z, a, y)
<1>1. (a \o b) \o e = a \o (b \o e) BY ConcatThree
<1> QED BY <1>1, Zenon DEF Joined

\* What a stream looks like to which an answer was added.
LEMMA JoinedFacts ==
    ASSUME NEW s \in Seq(Segment), NEW r \in Seq(Segment), NEW q, Joined(q, s, r)
    PROVE  /\ q \in Seq(Segment)
           /\ Len(q) = Len(s) + Len(r) /\ Len(s) \in Nat /\ Len(r) \in Nat
           /\ DOMAIN q = 1..(Len(s) + Len(r)) /\ DOMAIN s = 1..Len(s) /\ DOMAIN r = 1..Len(r)
           /\ \A i \in 1..Len(s) : q[i] = s[i]
           /\ \A i \in 1..Len(r) : q[Len(s) + i] = r[i]
<1>1. q = s \o r BY DEF Joined
<1>2. s \o r \in Seq(Segment) /\ Len(s \o r) = Len(s) + Len(r) /\ Len(s) \in Nat /\ Len(r) \in Nat
  BY ConcatFacts
<1>3. DOMAIN (s \o r) = 1..(Len(s) + Len(r)) /\ DOMAIN s = 1..Len(s) /\ DOMAIN r = 1..Len(r)
  BY ConcatFacts
<1>4. \A i \in 1..Len(s) : (s \o r)[i] = s[i] BY ConcatFacts
<1>5. \A i \in 1..Len(r) : (s \o r)[Len(s) + i] = r[i] BY ConcatFacts
<1> QED BY <1>1, <1>2, <1>3, <1>4, <1>5, Zenon

\* Two quiet streams make one.
LEMMA QuietConcat ==
    ASSUME NEW s \in Seq(Segment), NEW r \in Seq(Segment), Quiet(s), Quiet(r)
    PROVE  Quiet(s \o r)
<1>1. PICK q : q = s \o r OBVIOUS
<1>2. /\ DOMAIN q = 1..(Len(s) + Len(r)) /\ DOMAIN s = 1..Len(s) /\ DOMAIN r = 1..Len(r)
      /\ \A i \in 1..Len(s) : q[i] = s[i]
      /\ \A i \in 1..(Len(s) + Len(r)) :
            i \in 1..Len(s) \/ (i - Len(s) \in 1..Len(r) /\ q[i] = r[i - Len(s)])
  BY <1>1, ConcatFacts
<1>3. Quiet(q) BY <1>2 DEF Quiet
<1> QED BY <1>1, <1>3

\* A quiet stream, the lines of the header, and the closing ".".
LEMMA UntruncatedShape ==
    ASSUME NEW b \in Seq(Segment), NEW h \in Seq(Segment), NEW z \in Seq(Segment),
           NEW q \in Seq(Segment), Joined(q, b, h), Quiet(q), NEW u, Joined(u, q, z),
           \A k \in DOMAIN h : h[k].kind = "line", Len(z) \in {1},
           Len(h) = Len(drop[msg].entries)
    PROVE  Untruncated(u)
<1>2. /\ Len(q) = Len(b) + Len(h) /\ Len(b) \in Nat /\ Len(h) \in Nat
      /\ DOMAIN q = 1..Len(q) /\ DOMAIN h = 1..Len(h)
      /\ \A i \in 1..Len(h) : q[Len(b) + i] = h[i]
  BY JoinedFacts
<1>4. /\ DOMAIN u = 1..(Len(q) + 1)
      /\ \A i \in 1..Len(q) : u[i] = q[i]
  <2>1. q \in Seq(Segment) /\ z \in Seq(Segment) /\ Joined(u, q, z) OBVIOUS
  <2>2. DOMAIN u = 1..(Len(q) + Len(z)) /\ \A i \in 1..Len(q) : u[i] = q[i]
    BY <2>1, JoinedFacts
  <2>3. Len(z) = 1 OBVIOUS
  <2> QED BY <2>2, <2>3, Zenon
<1>5. PICK o \in Nat, m \in Nat, l \in Nat : o = Len(b) /\ m = Len(h) /\ l = Len(q) /\ l = o + m
  BY <1>2
<1>6. \A j \in 1..m : u[o + j].kind = "line"
  <2> TAKE j \in 1..m
  <2>1. o + j \in 1..l BY <1>5
  <2>2. u[o + j] = h[j] BY <1>2, <1>4, <1>5, <2>1
  <2> QED BY <1>2, <1>5, <2>2
<1>7. ASSUME NEW k \in DOMAIN u, u[k].dot
      PROVE  \E x \in 0..k : x + m < k /\ \A j \in 1..m : u[x + j].kind = "line"
  <2>1. k \in 1..(l + 1) BY <1>4, <1>5
  <2>2. k \notin 1..l BY <1>2, <1>4, <1>5, <1>7 DEF Quiet
  <2>3. o \in 0..k /\ o + m < k BY <1>5, <2>1, <2>2
  <2> QED BY <1>6, <2>3
<1> QED BY <1>5, <1>7 DEF Untruncated

\* The header of a message whose lines do not end in ".", behind quiet replies, or the
\* refusal of TOP.
LEMMA UntruncatedAnswer ==
    ASSUME Core, Whole, msg \in All, NEW t \in Seq(Segment), Quiet(t), NoLine(t),
           NEW c \in Command, c = Cmd("TOP", msg), Granted(c), NEW r \in Answers(c)
    PROVE  Untruncated(t \o r)
<1>1. drop \in Seq(Header) /\ msg \in DOMAIN drop /\ c.no = msg /\ c.verb = "TOP"
  BY SessionAssumption DEF Core, TypeOK, All, Cmd
<1>2. drop[msg] \in Header BY <1>1, ElementOfSeq
<1>3. PICK e \in Seq(Entry) : e = drop[msg].entries BY <1>2 DEF Header
<1>4. PICK m \in Nat : m = Len(e) OBVIOUS
<1>5. PICK a \in Seq(Segment), o \in {1, 2} :
         /\ r = a \o HeaderLines(msg) \o <<End>> /\ Len(a) = o /\ \A k \in 1..o : ~a[k].dot
  <2>1. Dot = {FALSE} BY DEF Whole, ArriveWhole, Dot
  <2>2. r \in {s \o HeaderLines(msg) \o <<End>> : s \in Free(TRUE, Dot)}
    BY <1>1 DEF Answers
  <2>3. PICK a \in Free(TRUE, Dot) : r = a \o HeaderLines(msg) \o <<End>>
    BY <2>2
  <2>4. PICK n \in Nat : IsReply(a, TRUE, n, FALSE)
    <3>1. TRUE \in BOOLEAN /\ {FALSE} \in SUBSET BOOLEAN /\ a \in Free(TRUE, {FALSE})
      BY <2>1, <2>3
    <3>2. \E n \in Nat, d \in {FALSE} : IsReply(a, TRUE, n, d) BY <3>1, FreeFacts
    <3> QED BY <3>2
  <2>5. a \in Seq(Segment) /\ Len(a) \in {1, 2} /\ \A k \in 1..Len(a) : ~a[k].dot
    BY <2>4 DEF IsReply
  <2> QED BY <2>3, <2>5
<1>6. PICK h \in Seq(Segment) : /\ h = HeaderLines(msg) /\ Len(h) = m
                               /\ \A k \in 1..m : h[k].kind = "line" /\ ~h[k].dot
  <2>1. DOMAIN e = 1..m BY <1>4
  <2>2. \A k \in 1..m : HeaderLine(msg, k) \in Segment
    BY <1>1, <1>3, <2>1, HeaderLineType DEF Core, All
  <2>3. HeaderLines(msg) = [k \in 1..m |-> HeaderLine(msg, k)] BY <1>3, <2>1 DEF HeaderLines
  <2>4. HeaderLines(msg) \in Seq(Segment) /\ Len(HeaderLines(msg)) = m BY <2>2, <2>3
  <2>5. \A k \in 1..m : HeaderLine(msg, k).kind = "line" /\ ~HeaderLine(msg, k).dot
    <3> TAKE k \in 1..m
    <3>1. e[k] \in Lines(drop[msg]) BY <1>3, <2>1 DEF Lines, ToSet
    <3>2. e[k] \notin DottedLines BY <1>1, <3>1 DEF Whole, ArriveWhole, All
    <3> QED BY <1>3, <3>2 DEF HeaderLine
  <2>6. \A k \in 1..m : HeaderLines(msg)[k] = HeaderLine(msg, k) BY <2>3
  <2>7. \A k \in 1..m : HeaderLines(msg)[k].kind = "line" /\ ~HeaderLines(msg)[k].dot
    BY <2>5, <2>6
  <2> QED BY <2>4, <2>7
<1>7. PICK z \in Seq(Segment) : z = <<End>> /\ Len(z) = 1
  <2>1. PICK x : x = End OBVIOUS
  <2>2. x \in Segment BY <2>1 DEF End, Segment
  <2>3. <<x>> \in Seq(Segment) /\ Len(<<x>>) = 1 BY <2>2
  <2> QED BY <2>1, <2>3
<1>8. a \in Seq(Segment) /\ Quiet(a) BY <1>5 DEF Quiet
<1>9. h \in Seq(Segment) /\ Quiet(h) /\ \A k \in DOMAIN h : h[k].kind = "line"
  <2>1. DOMAIN h = 1..m BY <1>6
  <2> QED BY <1>6, <2>1 DEF Quiet
<1>10. PICK b \in Seq(Segment) : Joined(b, t, a) /\ Quiet(b)
  <2>1. PICK b \in Seq(Segment) : b = t \o a BY <1>8, ConcatFacts, Zenon
  <2>2. Quiet(b) BY <1>8, <2>1, QuietConcat, Zenon
  <2> QED BY <2>1, <2>2, Zenon DEF Joined
<1>11. PICK q \in Seq(Segment) : Joined(q, b, h) BY <1>9, <1>10, ConcatFacts, Zenon DEF Joined
<1>12. PICK u \in Seq(Segment) : Joined(u, q, z) BY <1>7, <1>11, ConcatFacts, Zenon DEF Joined
<1>13. PICK v \in Seq(Segment) : Joined(v, a, h) BY <1>8, <1>9, ConcatFacts, Zenon DEF Joined
<1>14. Joined(r, v, z) BY <1>5, <1>6, <1>7, <1>13, Zenon DEF Joined
<1>15. Joined(u, t, r)
  <2>1. t \in Seq(Segment) /\ z \in Seq(Segment) BY <1>7
  <2>2. Joined(q, t, v) BY <1>8, <1>9, <1>10, <1>11, <1>13, <2>1, Regrouped, Zenon
  <2> QED BY <1>12, <1>13, <1>14, <2>1, <2>2, Regrouped, Zenon
<1>16. Quiet(q)
  <2>1. Quiet(b \o h) BY <1>9, <1>10, QuietConcat, Zenon
  <2> QED BY <1>11, <2>1, Zenon DEF Joined
<1>17. Len(h) = Len(drop[msg].entries) BY <1>3, <1>4, <1>6
<1>18. Untruncated(u)
  BY <1>7, <1>9, <1>11, <1>12, <1>16, <1>17, UntruncatedShape
<1> QED BY <1>15, <1>18, Zenon DEF Joined

\* What a step of the server puts behind what is unread.
LEMMA ServedNow ==
    ASSUME Core, Serve, pc \notin Gone
    PROVE  /\ c2s # <<>> /\ c2s \in Seq(Command) /\ c2s' = Tail(c2s) /\ Live
           /\ \E r \in Seq(Segment) :
                 /\ s2c' = s2c \o r
                 /\ \/ Granted(Head(c2s)) /\ r \in Answers(Head(c2s))
                    \/ NoLine(r) /\ (~Granted(Head(c2s)) \/ ~Obliging)
<1>1. /\ c2s # <<>> /\ c2s \in Seq(Command) /\ c2s' = Tail(c2s) /\ Live
  BY DEF Core, TypeOK, Serve, ServeRead, ServeDele, ServeQuit, Refuse, Serving, Live
<1>2. PICK c \in Command : c = Head(c2s) BY <1>1, HeadFacts
<1>3. CASE Refuse
  <2>1. PICK r \in Refusals : Transmit(r) BY <1>3 DEF Refuse
  <2>2. PICK n \in Nat, d \in BOOLEAN : IsReply(r, FALSE, n, d) BY RefusalFacts DEF Core
  <2>3. r \in Seq(Segment) /\ NoLine(r) BY <2>2 DEF IsReply, NoLine
  <2>4. ~Granted(c) \/ ~Obliging BY <1>2, <1>3 DEF Refuse, Obliging
  <2> QED BY <1>1, <1>2, <2>1, <2>3, <2>4 DEF Transmit
<1>4. CASE ServeRead \/ ServeDele \/ ServeQuit
  <2>1. Granted(c) BY <1>2, <1>4 DEF ServeRead, ServeDele, ServeQuit, Granted
  <2>2. PICK r \in Answers(c) : Transmit(r)
    BY <1>2, <1>4 DEF ServeRead, ServeDele, ServeQuit
  <2>3. r \in Seq(Segment)
    <3>1. IsAnswer(c, r)
      <4>1. CASE c.verb = "TOP" BY <2>1, <4>1, HeaderFacts DEF IsAnswer, Core
      <4>2. CASE c.verb # "TOP" BY <2>1, <4>2, ReplyFacts DEF IsAnswer, Core
      <4> QED BY <4>1, <4>2
    <3> QED BY <3>1, AnswerType
  <2> QED BY <1>1, <1>2, <2>1, <2>2, <2>3 DEF Transmit
<1> QED BY <1>3, <1>4 DEF Serve

\* The answer to TOP is the header, whole, or a refusal.
LEMMA UncutServe ==
    ASSUME Core, Core', Dialogue, Settled, Whole, Serve PROVE Uncut'
<1> SUFFICES ASSUME pc = "TOP", waiting, ~Stuck(input' \o s2c') PROVE Untruncated(input \o s2c)'
  BY ServeFrame DEF Uncut
<1>1. UNCHANGED <<cfg, drop, pc, waiting, msg, input>> BY ServeFrame
<1>2. /\ c2s # <<>> /\ c2s \in Seq(Command) /\ c2s' = Tail(c2s) /\ Live
      /\ \E r \in Seq(Segment) :
            /\ s2c' = s2c \o r
            /\ \/ Granted(Head(c2s)) /\ r \in Answers(Head(c2s))
               \/ NoLine(r) /\ (~Granted(Head(c2s)) \/ ~Obliging)
  BY ServedNow DEF Gone
<1>3. PICK r \in Seq(Segment) :
         /\ s2c' = s2c \o r
         /\ \/ Granted(Head(c2s)) /\ r \in Answers(Head(c2s))
            \/ NoLine(r) /\ (~Granted(Head(c2s)) \/ ~Obliging)
  BY <1>2
<1>4. PICK i \in Seq(Segment), s \in Seq(Segment) : i = input /\ s = s2c BY DEF Core, TypeOK
<1>5. PICK t \in Seq(Segment) : Joined(t, i, s) BY <1>4, ConcatFacts, Zenon DEF Joined
<1>6. PICK q \in Seq(Segment) : Joined(q, s, r) BY <1>4, ConcatFacts, Zenon DEF Joined
<1>7. PICK u \in Seq(Segment) : Joined(u, t, r) BY <1>5, ConcatFacts, Zenon DEF Joined
<1>8. u = input' \o s2c'
  <2>1. Joined(u, i, q) BY <1>3, <1>4, <1>5, <1>6, <1>7, Regrouped, Zenon
  <2>2. q = s2c' BY <1>3, <1>4, <1>6, Zenon DEF Joined
  <2> QED BY <1>1, <1>4, <2>1, <2>2, Zenon DEF Joined
<1>9. TopOwed(t)
  <2>1. TopOwed(input \o s2c) BY DEF Core, Stream
  <2>2. t = input \o s2c BY <1>4, <1>5, Zenon DEF Joined
  <2> QED BY <2>1, <2>2, Zenon
<1>10. ~Stuck(u) BY <1>8, Zenon
<1>11. Untruncated(u)
  <2>1. CASE Stuck(t)
    <3>1. Stuck(t \o r) BY <1>3, <1>5, <2>1, StuckStays
    <3> QED BY <1>7, <1>10, <3>1, Zenon DEF Joined
  <2>2. CASE c2s = <<Cmd("LIST", msg), Cmd("TOP", msg)>>
    <3>1. c2s' = <<Cmd("TOP", msg)>>
      <4>1. Len(c2s) = 2 /\ c2s[2] = Cmd("TOP", msg) BY <2>2
      <4> QED BY <1>2, <4>1, HeadFacts
    <3>2. Len(c2s') = 1 BY <3>1
    <3>3. TopOwed(u)'
      <4>1. TopOwed(input \o s2c)' BY <1>1 DEF Core, Stream
      <4> QED BY <1>8, <4>1, Zenon
    <3>4. c2s' # <<>> /\ c2s' # <<Cmd("LIST", msg), Cmd("TOP", msg)>>
      <4>1. c2s' # <<>> BY <3>1
      <4>2. Len(<<Cmd("LIST", msg), Cmd("TOP", msg)>>) = 2 OBVIOUS
      <4>3. c2s' # <<Cmd("LIST", msg), Cmd("TOP", msg)>>
        <5> SUFFICES ASSUME c2s' = <<Cmd("LIST", msg), Cmd("TOP", msg)>> PROVE FALSE
          OBVIOUS
        <5>1. Len(c2s') = 2 BY <4>2, Zenon
        <5> QED BY <3>2, <5>1
      <4> QED BY <4>1, <4>3
    <3>5. Stuck(u) \/ Quiet(u) BY <1>1, <3>3, <3>4 DEF TopOwed, Cmd
    <3> QED BY <1>10, <3>5, UntruncatedQuiet
  <2>3. CASE c2s = <<Cmd("TOP", msg)>> /\ Single(t) /\ Quiet(t)
    <3>1. PICK c \in Command : c = Head(c2s) BY <1>2, HeadFacts
    <3>2. c = Cmd("TOP", msg) /\ c = c2s[1] BY <2>3, <3>1
    <3>3. msg \in All BY MsgFacts DEF Core
    <3>4. NoLine(t) BY <2>3 DEF Single
    <3>5. CASE Granted(c) /\ r \in Answers(c)
      <4>1. Untruncated(t \o r)
        BY <1>5, <2>3, <3>2, <3>3, <3>4, <3>5, UntruncatedAnswer
      <4> QED BY <1>7, <4>1, Zenon DEF Joined
    <3>6. CASE NoLine(r) /\ (~Granted(c) \/ ~Obliging)
      <4>1. ~Obliging BY <1>2, <3>2, <3>6, NextGranted
      <4>2. NoLine(u)
        <5>1. /\ DOMAIN u = 1..(Len(t) + Len(r)) /\ DOMAIN t = 1..Len(t) /\ DOMAIN r = 1..Len(r)
              /\ Len(t) \in Nat /\ Len(r) \in Nat
              /\ \A n \in 1..Len(t) : u[n] = t[n]
              /\ \A n \in 1..Len(r) : u[Len(t) + n] = r[n]
          BY <1>3, <1>5, <1>7, JoinedFacts
        <5>2. \A k \in 1..(Len(t) + Len(r)) :
                 k \in 1..Len(t) \/ (k - Len(t) \in 1..Len(r) /\ k = Len(t) + (k - Len(t)))
          BY <5>1
        <5>3. \A k \in 1..(Len(t) + Len(r)) : u[k].kind # "line"
          <6> TAKE k \in 1..(Len(t) + Len(r))
          <6>1. CASE k \in 1..Len(t) BY <3>4, <5>1, <6>1 DEF NoLine
          <6>2. CASE k - Len(t) \in 1..Len(r) /\ k = Len(t) + (k - Len(t))
            BY <3>6, <5>1, <6>2 DEF NoLine
          <6> QED BY <5>2, <6>1, <6>2
        <5> QED BY <5>1, <5>3 DEF NoLine
      <4> QED BY <4>1, <4>2 DEF Untruncated
    <3> QED BY <1>3, <3>1, <3>5, <3>6
  <2> QED BY <1>2, <1>9, <2>1, <2>2, <2>3 DEF TopOwed
<1>12. Untruncated(u)' BY <1>1, <1>11 DEF Untruncated, Obliging
<1> QED BY <1>8, <1>12, Zenon

\* A header is read on, and nothing else brings the client to the answer of TOP.
LEMMA UncutIdle ==
    ASSUME Core, Uncut, Idle \/ Open \/ Weed \/ RemoveMsg \/ Logout PROVE Uncut'
<1>1. CASE ReadHeader
  <2>1. PICK k \in 1..Len(s2c) : Receive(k) /\ input' = input \o Received(k)
    BY <1>1 DEF ReadHeader
  <2>2. UNCHANGED <<cfg, drop, pc, waiting, msg>> BY <1>1 DEF ReadHeader, configuration
  <2>3. PICK i, s : i \in Seq(Segment) /\ s \in Seq(Segment) /\ i = input /\ s = s2c
    BY DEF Core, TypeOK
  <2>4. PICK r, q : r = SubSeq(s, 1, k) /\ q = SubSeq(s, k + 1, Len(s)) OBVIOUS
  <2>5. r \in Seq(Segment) /\ q \in Seq(Segment) /\ k \in 0..Len(s)
    <3>1. k \in 0..Len(s) BY <2>3
    <3> QED BY <2>3, <2>4, <3>1, PrefixFacts, SuffixFacts
  <2>6. r = Received(k) /\ q = s2c' BY <2>1, <2>3, <2>4 DEF Receive, Received
  <2>7. Joined(s, r, q)
    <3>1. 1 \in 1..(Len(s) + 1) /\ k \in (1 - 1)..Len(s) /\ Len(s) \in k..Len(s)
      BY <2>3
    <3>2. SubSeq(s, 1, k) \o SubSeq(s, k + 1, Len(s)) = SubSeq(s, 1, Len(s))
      BY <2>3, <3>1, ConcatAdjacentSubSeq
    <3>3. SubSeq(s, 1, Len(s)) = s BY <2>3, SubSeqFull
    <3> QED BY <2>4, <3>2, <3>3 DEF Joined
  <2>8. PICK x \in Seq(Segment) : Joined(x, i, r) BY <2>3, <2>5, ConcatFacts, Zenon DEF Joined
  <2>9. PICK t \in Seq(Segment) : Joined(t, x, q) BY <2>5, <2>8, ConcatFacts, Zenon DEF Joined
  <2>10. Joined(t, i, s) BY <2>3, <2>5, <2>7, <2>8, <2>9, Regrouped, Zenon
  <2>11. t = input \o s2c BY <2>3, <2>10, Zenon DEF Joined
  <2>12. x = input' BY <2>1, <2>3, <2>6, <2>8, Zenon DEF Joined
  <2>13. t = input' \o s2c' BY <2>6, <2>9, <2>12, Zenon DEF Joined
  <2>14. Untruncated(t)' <=> Untruncated(t) BY <2>2 DEF Untruncated, Obliging
  <2> SUFFICES ASSUME pc = "TOP", waiting, ~Stuck(t) PROVE Untruncated(t)'
    BY <2>2, <2>13, Zenon DEF Uncut
  <2>15. Untruncated(t) BY <2>11, Zenon DEF Uncut
  <2> QED BY <2>14, <2>15
<1>2. CASE ~ReadHeader
  <2>1. ~(pc' = "TOP" /\ waiting')
    <3>1. CASE AskFails \/ ReadTimeout \/ ScanFails \/ ReadNothing \/ SslFails
      BY <3>1 DEF AskFails, ReadTimeout, ScanFails, ReadNothing, SslFails, Fail, Goto
    <3>2. CASE SigPipe \/ SigInt \/ ParserExits \/ Close \/ OpenFails \/ Open \/ Logout
      BY <3>2 DEF SigPipe, SigInt, ParserExits, Close, OpenFails, Open, Logout, Exit, Goto
    <3>3. CASE ReadGreeting \/ ReadLogin
      BY <3>3 DEF ReadGreeting, ReadLogin, Fail, Goto
    <3>4. CASE ReadStatus \/ ReadCount
      BY <3>4 DEF ReadStatus, ReadCount, EndScan, Fail, Goto
    <3>5. CASE ReadRemaining \/ ReadList
      BY <3>5 DEF ReadRemaining, ReadList, Fail, Goto
    <3>6. CASE Weed \/ RemoveMsg
      BY <3>6 DEF Weed, RemoveMsg, NextMessage, EndScan, Goto
    <3> QED BY <1>2, <3>1, <3>2, <3>3, <3>4, <3>5, <3>6 DEF Idle
  <2> QED BY <2>1 DEF Uncut
<1> QED BY <1>1, <1>2

\* When TOP is written nothing ahead of its answer ends in ".".
LEMMA UncutAsk ==
    ASSUME Core, Ask PROVE Uncut'
<1>1. UNCHANGED <<cfg, drop, pc, msg, s2c, input>> /\ ~waiting
  BY DEF Ask, Goto, configuration
<1> SUFFICES ASSUME pc = "TOP", ~Stuck(input \o s2c) PROVE Untruncated(input \o s2c)'
  BY <1>1, Zenon DEF Uncut
<1>2. input = <<>> /\ s2c \in Seq(Segment) BY <1>1 DEF Core, Progress, TypeOK
<1>3. input \o s2c = s2c BY <1>2, ConcatEmptySeq
<1>4. ~Stuck(s2c) BY <1>3, Zenon
<1>5. TopAhead BY <1>1 DEF Core, Stream
<1>6. Quiet(s2c)
  <2>1. Quiet(<<>>) BY DEF Quiet
  <2> QED BY <1>4, <1>5, <2>1 DEF TopAhead
<1>7. Untruncated(s2c)' BY <1>1, <1>6 DEF Quiet, Untruncated
<1> QED BY <1>1, <1>3, <1>7, Zenon

\* What a reset leaves of a header is the beginning of one.
LEMMA UncutEnds ==
    ASSUME Core, Uncut, Ends PROVE Uncut'
<1>1. UNCHANGED <<cfg, drop, pc, waiting, msg, input>> BY ServeFrame
<1> SUFFICES ASSUME pc = "TOP", waiting, ~Stuck(input' \o s2c') PROVE Untruncated(input \o s2c)'
  BY <1>1, Zenon DEF Uncut
<1>2. PICK k \in 0..Len(s2c) : s2c' = SubSeq(s2c, 1, k)
  <2>1. TypeOK BY DEF Core
  <2>2. Len(s2c) \in 0..Len(s2c) /\ s2c = SubSeq(s2c, 1, Len(s2c)) BY <2>1, WholeStream
  <2> QED BY <2>2 DEF Ends, ServerEof, ServerClose, ServerAbort, CloseResets, Gone
<1>3. PICK i, s : i \in Seq(Segment) /\ s \in Seq(Segment) /\ i = input /\ s = s2c
  BY DEF Core, TypeOK
<1>4. PICK q : q \in Seq(Segment) /\ q = s2c' /\ Len(q) = k /\ \A n \in 1..k : q[n] = s[n]
  BY <1>2, <1>3, PrefixFacts
<1>5. PICK t \in Seq(Segment) : Joined(t, i, s) BY <1>3, ConcatFacts, Zenon DEF Joined
<1>6. PICK u \in Seq(Segment) : Joined(u, i, q) BY <1>3, <1>4, ConcatFacts, Zenon DEF Joined
<1>7. u = input' \o s2c' /\ t = input \o s2c
  BY <1>1, <1>3, <1>4, <1>5, <1>6, Zenon DEF Joined
<1>8. /\ Len(i) \in Nat /\ Len(s) \in Nat /\ Len(t) = Len(i) + Len(s) /\ DOMAIN t = 1..(Len(i) + Len(s))
      /\ \A n \in 1..Len(i) : t[n] = i[n]
      /\ \A n \in 1..Len(s) : t[Len(i) + n] = s[n]
  <2>1. i \in Seq(Segment) /\ s \in Seq(Segment) /\ Joined(t, i, s) BY <1>3, <1>5
  <2> QED BY <2>1, JoinedFacts
<1>9. /\ Len(u) = Len(i) + k /\ DOMAIN u = 1..(Len(i) + k)
      /\ \A n \in 1..Len(i) : u[n] = i[n]
      /\ \A n \in 1..k : u[Len(i) + n] = q[n]
  <2>1. i \in Seq(Segment) /\ q \in Seq(Segment) /\ Joined(u, i, q) BY <1>3, <1>4, <1>6
  <2>2. /\ Len(u) = Len(i) + Len(q) /\ DOMAIN u = 1..(Len(i) + Len(q))
        /\ \A n \in 1..Len(i) : u[n] = i[n]
        /\ \A n \in 1..Len(q) : u[Len(i) + n] = q[n]
    BY <2>1, JoinedFacts
  <2>3. Len(q) = k BY <1>4
  <2> QED BY <2>2, <2>3, Zenon
<1>10. k \in Nat /\ k <= Len(s) BY <1>3
<1>11. Begins(u, t)
  <2>1. ASSUME NEW n \in 1..(Len(i) + k) PROVE u[n] = t[n]
    <3>1. n \in 1..Len(i) \/ (n - Len(i) \in 1..k /\ n - Len(i) \in 1..Len(s) /\ n = Len(i) + (n - Len(i)))
      BY <1>8, <1>10
    <3>2. CASE n \in 1..Len(i) BY <1>8, <1>9, <3>2
    <3>3. CASE n - Len(i) \in 1..k /\ n - Len(i) \in 1..Len(s) /\ n = Len(i) + (n - Len(i))
      <4>1. PICK d : d = n - Len(i) OBVIOUS
      <4>2. u[Len(i) + d] = q[d] /\ t[Len(i) + d] = s[d] /\ q[d] = s[d]
        BY <1>4, <1>8, <1>9, <3>3, <4>1
      <4> QED BY <3>3, <4>1, <4>2
    <3> QED BY <3>1, <3>2, <3>3
  <2> QED BY <1>8, <1>9, <1>10, <2>1 DEF Begins
<1>12. Untruncated(u)
  <2>1. CASE Stuck(t)
    <3>1. u = <<>> \/ Stuck(u)
      <4>1. u # <<>> => 1 \in 1..Len(u) BY LastElement
      <4>2. u # <<>> => t # <<>> /\ u[1] = t[1] BY <1>11, <4>1, <2>1 DEF Begins, Stuck
      <4> QED BY <2>1, <4>2 DEF Stuck
    <3>2. Quiet(<<>>) BY DEF Quiet
    <3>3. ~Stuck(u) BY <1>7, Zenon
    <3> QED BY <3>1, <3>2, <3>3, UntruncatedQuiet
  <2>2. CASE ~Stuck(t)
    <3>1. Untruncated(t) BY <1>7, <2>2, Zenon DEF Uncut
    <3>2. drop[msg] \in Header BY MsgFacts DEF Core
    <3>3. Len(drop[msg].entries) \in Nat BY <3>2 DEF Header
    <3> QED BY <1>5, <1>6, <1>11, <3>1, <3>3, UntruncatedBegins
  <2> QED BY <2>1, <2>2
<1>13. Untruncated(u)' BY <1>1, <1>12 DEF Untruncated, Obliging
<1> QED BY <1>7, <1>13, Zenon

\* When headers arrive whole, what the weeder is given are the lines of the message itself,
\* or after a refusal none.
LEMMA ReadWhole ==
    ASSUME Core, Whole, Uncut, Weed
    PROVE  Parsed = drop[msg].entries \/ (~Obliging /\ Parsed = <<>>)
<1>0. EndHeader /\ Positive(input) BY DEF Weed
<1>1. PICK t : t = input \o s2c OBVIOUS
<1>2. input \in Seq(Segment) /\ s2c \in Seq(Segment) /\ input # <<>>
  BY <1>0 DEF EndHeader, Ended, Core, TypeOK
<1>3. 1 \in 1..Len(input) BY <1>2, LastElement
<1>4. t[1] = input[1] BY <1>1, <1>2, <1>3, ConcatFacts
<1>5. ~Stuck(t) BY <1>0, <1>4 DEF Stuck, Positive
<1>6. Untruncated(input \o s2c) BY <1>0, <1>1, <1>5, Zenon DEF Uncut, EndHeader
<1> QED BY <1>0, <1>6, WholeParsed

\* When headers arrive whole, the rules condemn what the weeder is given for what the message
\* is: its own lines, or after a refusal none, which then have no ID and are no weed.
LEMMA JudgedRightly ==
    ASSUME Core, Whole, Uncut, IdsSeen, Weed,
           NEW h, h = [entries |-> Parsed, size |-> size]
    PROVE  /\ Remember(cfg.prefs, msg_ids, h) \subseteq IdsBefore(msg + 1)
           /\ is_weed(cfg.prefs, msg_ids, h) = 1 => is_weed(cfg.prefs, IdsBefore(msg), drop[msg]) = 1
<1>1. EndHeader /\ Positive(input) BY DEF Weed
<1>2. msg \in Nat \ {0} /\ Len(judged) = msg - 1 BY WeedJudges
<1>3. msg_ids \subseteq IdsBefore(msg)
  <2>1. (msg - 1) + 1 = msg BY <1>2
  <2> QED BY <1>2, <2>1 DEF IdsSeen
<1>4. Parsed = drop[msg].entries \/ (~Obliging /\ Parsed = <<>>) BY ReadWhole
<1>5. IdsBefore(msg) \subseteq IdsBefore(msg + 1)
  <2>1. 1..(msg - 1) \subseteq 1..((msg + 1) - 1) BY <1>2
  <2> QED BY <2>1 DEF IdsBefore
<1>6. SizeBlind(cfg.prefs) BY DEF Whole, ArriveWhole
<1>7. CASE Parsed = drop[msg].entries
  <2>1. /\ ID(h) = ID(drop[msg])
        /\ \A ids : is_weed(cfg.prefs, ids, h) = is_weed(cfg.prefs, ids, drop[msg])
    <3>1. h.entries = drop[msg].entries BY <1>7
    <3> QED BY <1>6, <3>1, SameLines
  <2>2. Remember(cfg.prefs, msg_ids, h) \subseteq IdsBefore(msg + 1)
    <3>1. CASE cfg.prefs.del_duplicates /\ ID(h) # NoText
      <4>1. msg \in 1..((msg + 1) - 1) BY <1>2
      <4>2. ID(drop[msg]) \in IdsBefore(msg + 1) BY <2>1, <3>1, <4>1 DEF IdsBefore
      <4> QED BY <1>3, <1>5, <2>1, <4>2 DEF Remember
    <3>2. CASE ~(cfg.prefs.del_duplicates /\ ID(h) # NoText)
      BY <1>3, <1>5, <3>2, Zenon DEF Remember
    <3> QED BY <3>1, <3>2
  <2>3. is_weed(cfg.prefs, msg_ids, drop[msg]) = 1 => is_weed(cfg.prefs, IdsBefore(msg), drop[msg]) = 1
    BY <1>3 DEF is_weed, check_duplicates
  <2> QED BY <2>1, <2>2, <2>3
<1>8. CASE ~Obliging /\ Parsed = <<>>
  <2>1. h.entries = <<>> BY <1>8
  <2>2. ID(h) = NoText
    <3>1. {k \in DOMAIN h.entries : h.entries[k].tag \in {"Message-Id"}} = {} BY <2>1
    <3> QED BY <3>1 DEF ID, LastBody
  <2>3. PICK e : e = [entries |-> <<>>, size |-> 0] OBVIOUS
  <2>4. ~WeedByRules(cfg.prefs, h)
    <3>1. e.entries = <<>> BY <2>3
    <3>2. h.entries = e.entries BY <2>1, <3>1
    <3>3. WeedByRules(cfg.prefs, h) = WeedByRules(cfg.prefs, e) BY <1>6, <3>2, SameLines
    <3>4. ~WeedByRules(cfg.prefs, e) BY <1>8, <2>3, Zenon DEF Whole, ArriveWhole, Obliging
    <3> QED BY <3>3, <3>4, Zenon
  <2>5. Remember(cfg.prefs, msg_ids, h) \subseteq IdsBefore(msg + 1)
    BY <1>3, <1>5, <2>2, Zenon DEF Remember
  <2>6. is_weed(cfg.prefs, msg_ids, h) # 1
    <3>1. check_duplicates(cfg.prefs, msg_ids, h) # 1 BY <2>2 DEF check_duplicates
    <3>2. ~(check_duplicates(cfg.prefs, msg_ids, h) = 1 \/ WeedByRules(cfg.prefs, h))
      BY <2>4, <3>1, Zenon
    <3> QED BY <3>2 DEF is_weed
  <2> QED BY <2>5, <2>6
<1> QED BY <1>4, <1>7, <1>8

\* What was chosen once stays.
LEMMA Chosen ==
    ASSUME [Next]_vars PROVE UNCHANGED <<cfg, drop>>
BY StepKinds, IdleFacts, WeedFacts, ServeFrame
   DEF Ask, RemoveMsg, Logout, Open, vars, configuration

\* No header is cut short while it is read, when all of them arrive whole.
LEMMA NextUncut ==
    ASSUME Core, Core', Dialogue, Settled, Whole, Uncut, [Next]_vars PROVE Uncut'
<1>1. CASE Serve BY <1>1, UncutServe
<1>2. CASE Ends BY <1>2, UncutEnds
<1>3. CASE Ask BY <1>3, UncutAsk
<1>4. CASE Idle \/ Open \/ Weed \/ RemoveMsg \/ Logout BY <1>4, UncutIdle
<1>5. CASE UNCHANGED vars
  <2>1. UNCHANGED <<cfg, drop, pc, waiting, msg, input, s2c>>
    BY <1>5 DEF vars, configuration, clientVars, connVars
  <2>2. PICK t : t = input \o s2c OBVIOUS
  <2>3. t = input' \o s2c' BY <2>1, <2>2
  <2>4. Untruncated(t)' <=> Untruncated(t) BY <2>1 DEF Untruncated, Obliging
  <2> QED BY <2>1, <2>2, <2>3, <2>4, Zenon DEF Uncut
<1> QED BY <1>1, <1>2, <1>3, <1>4, <1>5, StepKinds

\* Every step keeps the verdicts faithful when headers arrive whole.
LEMMA NextFaithful ==
    ASSUME Core, Core', Dialogue, Settled, Faithful, [Next]_vars PROVE Faithful'
<1>1. UNCHANGED <<cfg, drop>> BY Chosen
<1>2. (Whole' <=> Whole) /\ All' = All BY <1>1 DEF Whole, ArriveWhole, All
<1> SUFFICES ASSUME Whole PROVE (Uncut /\ IdsSeen /\ Rightly)'
  BY <1>2 DEF Faithful
<1>3. Uncut /\ IdsSeen /\ Rightly BY DEF Faithful
<1>4. \A k : IdsBefore(k)' = IdsBefore(k) BY <1>1 DEF IdsBefore
<1>5. Uncut' BY <1>3, NextUncut
<1>6. CASE Weed
  <2>1. PICK h : h = [entries |-> Parsed, size |-> size] OBVIOUS
  <2>2. msg_ids' = Remember(cfg.prefs, msg_ids, h) BY <1>6, <2>1 DEF Weed
  <2>3. /\ Remember(cfg.prefs, msg_ids, h) \subseteq IdsBefore(msg + 1)
        /\ is_weed(cfg.prefs, msg_ids, h) = 1 => is_weed(cfg.prefs, IdsBefore(msg), drop[msg]) = 1
    BY <1>3, <1>6, <2>1, JudgedRightly
  <2>4. /\ msg \in Nat \ {0} /\ msg \in All /\ DOMAIN judged' = 1..msg /\ DOMAIN judged = 1..(msg - 1)
        /\ \A k \in 1..(msg - 1) : judged'[k] = judged[k]
        /\ judged'[msg] = [header |-> h, weed |-> is_weed(cfg.prefs, msg_ids, h)]
    BY <1>6, <2>1, WeedJudges
  <2>5. IdsSeen'
    <3>1. judged' \in Seq([header : Header, weed : {0, 1}]) BY DEF Core, TypeOK
    <3>2. Len(judged') = msg BY <2>4, <3>1
    <3>3. PICK n : n = msg + 1 OBVIOUS
    <3>4. msg_ids' \subseteq IdsBefore(n)' BY <1>4, <2>2, <2>3, <3>3
    <3>5. Len(judged') + 1 = n BY <3>2, <3>3
    <3> QED BY <3>4, <3>5, Zenon DEF IdsSeen
  <2>6. Rightly'
    <3>1. Condemned' \subseteq Condemned \union {msg} BY <1>6, WeedDooms
    <3>2. msg \in Condemned' => is_weed(cfg.prefs, msg_ids, h) = 1
      BY <2>4 DEF Condemned
    <3>3. \A k \in Condemned' : k \in All /\ is_weed(cfg.prefs, IdsBefore(k), drop[k]) = 1
      BY <1>3, <2>3, <2>4, <3>1, <3>2 DEF Rightly
    <3> QED BY <1>1, <1>2, <1>4, <3>3 DEF Rightly
  <2> QED BY <1>5, <2>5, <2>6
<1>7. CASE ~Weed
  <2>1. UNCHANGED <<msg_ids, judged>>
    BY <1>7, StepKinds, IdleFacts, WriteFacts, ServeFrame DEF Open, vars, clientVars
  <2>2. Condemned' = Condemned BY <2>1 DEF Condemned
  <2>3. IdsSeen' BY <1>3, <1>4, <2>1 DEF IdsSeen
  <2>4. Rightly' BY <1>1, <1>2, <1>3, <1>4, <2>2 DEF Rightly
  <2> QED BY <1>5, <2>3, <2>4
<1> QED BY <1>6, <1>7

\* No verdict has been given yet.
LEMMA InitFaithful == Init => Faithful
<1> SUFFICES ASSUME Init PROVE Uncut /\ IdsSeen /\ Rightly
  BY DEF Faithful
<1>1. pc = "open" /\ msg_ids = {} /\ DOMAIN judged = {} BY DEF Init
<1> QED BY <1>1 DEF Uncut, IdsSeen, Rightly, Condemned

\* When headers arrive whole, every message condemned is one the rules condemn by the
\* message's own header, after the headers of the messages before it.
THEOREM VerdictsRight == Spec => [](IInv /\ PInv /\ Faithful)
<1>1. Init => IInv /\ PInv /\ Faithful BY InitIInv, InitPInv, InitFaithful
<1>2. IInv /\ PInv /\ Faithful /\ [Next]_vars => (IInv /\ PInv /\ Faithful)'
  BY NextIInv, NextPInv, NextFaithful DEF IInv, PInv
<1> QED BY <1>1, <1>2, PTL DEF Spec

----------------------------------------------------------------------------
\* What a session may remove is wanted by the user's rules.
LEMMA MarkedWanted ==
    ASSUME Core, Faithful PROVE marked \subseteq Wanted
<1>1. marked \subseteq Doomed /\ Doomed \subseteq All BY PendingDoomed
<1>2. CASE cfg.test_mode BY <1>1, <1>2 DEF Doomed, Wanted
<1>3. CASE ~cfg.test_mode /\ Whole
  <2>1. Doomed = Condemned BY <1>3 DEF Doomed
  <2>2. \A k \in Condemned : k \in All /\ is_weed(cfg.prefs, IdsBefore(k), drop[k]) = 1
    BY <1>3 DEF Faithful, Rightly
  <2>3. Wanted = {k \in All : is_weed(cfg.prefs, IdsBefore(k), drop[k]) = 1}
    BY <1>3 DEF Wanted
  <2> QED BY <1>1, <2>1, <2>2, <2>3
<1>4. CASE ~cfg.test_mode /\ ~Whole
  <2>1. Wanted = All BY <1>4 DEF Wanted
  <2> QED BY <1>1, <2>1
<1> QED BY <1>2, <1>3, <1>4

\* A session ends in one step, which takes messages that are marked or none, and no other
\* step touches the mailbox.
LEMMA MailboxGoes ==
    ASSUME Core, [Next]_vars
    PROVE  \/ /\ server # "closed" /\ server' = "closed"
              /\ \E gone \in SUBSET marked : mailbox' = mailbox \ gone
           \/ mailbox' = mailbox /\ (server' = "closed" <=> server = "closed")
<1>1. CASE ServeQuit BY <1>1 DEF ServeQuit, Serving
<1>2. CASE Ends
  <2>1. mailbox' = mailbox /\ server' = "closed" /\ server # "closed"
    BY <1>2 DEF Ends, ServerEof, ServerClose, ServerAbort, CloseResets, EndSession
  <2>2. {} \in SUBSET marked /\ mailbox' = mailbox \ {} BY <2>1
  <2> QED BY <2>1, <2>2
<1>3. CASE ~ServeQuit /\ ~Ends
  <2>1. CASE Serve
    BY <1>3, <2>1 DEF Serve, ServeRead, ServeDele, Refuse, Serving, serverVars
  <2>2. CASE Open BY <2>2 DEF Open, Core, Deletion
  <2>3. CASE Idle \/ Ask \/ Weed \/ RemoveMsg \/ Logout BY <2>3, IdleFacts, WriteFacts, WeedFacts
  <2>4. CASE UNCHANGED vars BY <2>4 DEF vars, serverVars
  <2> QED BY <1>3, <2>1, <2>2, <2>3, <2>4, StepKinds
<1> QED BY <1>1, <1>2, <1>3

\* Every step of a session ends it, in the sense of Purge, or leaves mailbox and session.
LEMMA StepRefines ==
    ASSUME Core, PInv, Faithful, [Next]_vars PROVE [Promise!End]_(Promise!vars)
<1>1. UNCHANGED <<cfg, drop>> BY Chosen
<1>2. Wanted' = Wanted BY <1>1 DEF Wanted, Whole, ArriveWhole, All, IdsBefore
<1>3. CASE server # "closed" /\ server' = "closed" /\ \E gone \in SUBSET marked : mailbox' = mailbox \ gone
  <2>1. marked \subseteq Wanted BY MarkedWanted
  <2> QED BY <1>2, <1>3, <2>1 DEF Promise!End
<1>4. CASE mailbox' = mailbox /\ (server' = "closed" <=> server = "closed")
  BY <1>2, <1>4 DEF Promise!vars
<1> QED BY <1>3, <1>4, MailboxGoes

\* A session implements Purge, whatever fails: while it lasts the mailbox keeps every message,
\* and its end removes at once some of the messages the user's rules condemn, and no others.
THEOREM SessionPurges == Spec => PurgeSpec
<1>1. Init => Promise!Init
  <2> SUFFICES ASSUME Init PROVE Promise!Init OBVIOUS
  <2>1. drop \in Seq(Header) BY SessionAssumption DEF Init
  <2>2. All \subseteq Nat /\ mailbox = All /\ server = "listen" BY <2>1 DEF All, Init
  <2>3. Wanted \subseteq All BY DEF Wanted
  <2> QED BY <2>2, <2>3 DEF Promise!Init
<1>2. IInv /\ PInv /\ Faithful /\ [Next]_vars => [Promise!End]_(Promise!vars)
  BY StepRefines DEF IInv
<1> QED BY <1>1, <1>2, VerdictsRight, PTL DEF Spec, PurgeSpec, Promise!Spec
=============================================================================
