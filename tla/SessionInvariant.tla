-------------------------- MODULE SessionInvariant --------------------------
(***************************************************************************)
(* The inductive invariant behind the theorems of SessionProofs.  Its core is  *)
(* what can be under way between server and client at each command: the       *)
(* greeting taken for empty and the answer to a DELE stay unread, so that the  *)
(* client may read the answer to an earlier command in place of the one it     *)
(* waits for.                                                               *)
(***************************************************************************)
EXTENDS Session

\* A session before its first step; the weeder and mailbox_status may have seen others.
Fresh ==
    /\ cfg \in Configs /\ drop \in Maildrops
    /\ pc = "open" /\ waiting = FALSE
    /\ msg = 0 /\ num_messages = 0 /\ size = 0
    /\ input = <<>> /\ msg_ids \subseteq Body /\ messages = 0 /\ mailbox_status \in Nat
    /\ result = "none" /\ judged = <<>>
    /\ c2s = <<>> /\ s2c = <<>> /\ peer = "up"
    /\ server = "listen" /\ marked = {} /\ mailbox = All

\* The scan stays within the mailbox.
Bounds ==
    /\ num_messages <= Len(drop)
    /\ pc \in {"LIST", "TOP", "DELE"} => 1 <= msg /\ msg <= num_messages

\* How far the scan is.
Progress ==
    /\ pc \in {"open", "greeting", "USER", "PASS", "APOP", "STAT1", "STAT2"} => judged = <<>>
    /\ pc \in {"LIST", "TOP"} => Len(judged) = msg - 1
    /\ pc = "DELE" => Len(judged) = msg /\ judged[msg].weed = 1
    /\ pc # "TOP" \/ ~waiting => input = <<>> \/ pc \in {"QUIT", "killed", "close", "done"}
    /\ pc \in {"open", "DELE", "QUIT", "close", "done", "killed"} => ~waiting
    /\ pc = "greeting" => waiting

\* What can have been removed, marked or asked for, and when.
Deletion ==
    /\ \A k \in DOMAIN c2s : c2s[k].verb = "DELE" => c2s[k].no \in Doomed
    /\ \A k \in DOMAIN c2s : c2s[k].verb = "QUIT" => pc \in {"close", "done", "killed"}
    /\ marked \subseteq Doomed
    /\ All \ mailbox \subseteq Doomed
    /\ mailbox # All => pc \in {"close", "done", "killed"}
    /\ server \in {"auth", "trans"} => peer = "up"
    /\ peer # "up" /\ pc \notin {"close", "done", "killed"} => c2s = <<>>
    /\ pc = "open" => server = "listen" /\ peer = "up"
    /\ peer = "rst" => mailbox = All /\ c2s = <<>>

----------------------------------------------------------------------------
\* Streams of segments.  Single: one reply at most, and that first; Stuck: the next
\* read finds no positive reply and ends the scan.
Starts(x) == x.ok \/ x.kind \in {"status", "front"}
NoLine(s) == \A k \in DOMAIN s : s[k].kind # "line"
Quiet(s)  == \A k \in DOMAIN s : ~s[k].dot
Single(s) == NoLine(s) /\ \A k \in DOMAIN s : k > 1 => ~Starts(s[k])
Stuck(s)  == s # <<>> /\ ~s[1].ok
Short(c)  == c.verb # "TOP"

AtMostTwo(s) ==
    /\ NoLine(s)
    /\ \A j, k \in DOMAIN s : 1 < j /\ j < k => ~(Starts(s[j]) /\ Starts(s[k]))

\* From the second positive reply on, no text ends in ".".
LaterQuiet(s) == \A j, k \in DOMAIN s : 1 < j /\ j <= k /\ s[j].ok => ~s[k].dot

\* Before a command is written at most one answer is owed ...
OneOwed ==
    \/ Stuck(s2c)
    \/ c2s = <<>> /\ Single(s2c)
    \/ s2c = <<>> /\ Len(c2s) = 1 /\ Short(c2s[1])

\* ... and at most two while its answer is awaited,
TwoOwed ==
    \/ Stuck(s2c)
    \/ c2s = <<>> /\ AtMostTwo(s2c)
    \/ Len(c2s) = 1 /\ Short(c2s[1]) /\ Single(s2c)
    \/ Len(c2s) = 2 /\ Short(c2s[1]) /\ Short(c2s[2]) /\ s2c = <<>>

\* the second of which is the one to LIST,
ListOwed ==
    \/ Stuck(s2c)
    \/ c2s = <<>> /\ AtMostTwo(s2c) /\ LaterQuiet(s2c)
    \/ c2s = <<Cmd("LIST", msg)>> /\ Single(s2c)
    \/ Len(c2s) = 2 /\ Short(c2s[1]) /\ c2s[2] = Cmd("LIST", msg) /\ s2c = <<>>

\* so that an answer still owed when TOP is written is the one to LIST, which never
\* ends in "." and cannot be taken for the end of the header.
TopAhead ==
    \/ Stuck(s2c)
    \/ c2s = <<>> /\ Single(s2c) /\ Quiet(s2c)
    \/ s2c = <<>> /\ c2s = <<Cmd("LIST", msg)>>

\* The only header lines in t are the first n of message msg, behind o segments, and no
\* positive reply follows a segment that ends in ".".
HeaderAt(t, o, n) ==
    /\ n > 0 => msg \in All /\ n <= Len(drop[msg].entries)
    /\ o + n <= Len(t)
    /\ \A k \in DOMAIN t : t[k].kind = "line" <=> o + 1 <= k /\ k <= o + n
    /\ \A k \in 1..n : t[o + k] = HeaderLine(msg, k)
    /\ \A k \in 1..(Len(t) - 1) : t[k].dot => ~t[k + 1].ok

TopOwed(t) ==
    \/ Stuck(t)
    \/ c2s = <<Cmd("TOP", msg)>> /\ Single(t) /\ Quiet(t)
    \/ c2s = <<Cmd("LIST", msg), Cmd("TOP", msg)>> /\ t = <<>>
    \/ c2s = <<>> /\ \E o, n \in 0..Len(t) : HeaderAt(t, o, n)

Stream ==
    /\ pc = "open" => c2s = <<>> /\ s2c = <<>>
    /\ pc = "greeting" => c2s = <<>> /\ Single(s2c)
    /\ pc \in {"USER", "PASS", "APOP", "STAT1", "STAT2"} => IF waiting THEN TwoOwed ELSE OneOwed
    /\ pc = "LIST" => IF waiting THEN ListOwed ELSE OneOwed
    /\ pc = "TOP" => IF waiting THEN TopOwed(input \o s2c) ELSE TopAhead
    /\ pc = "DELE" => Stuck(s2c) \/ (c2s = <<>> /\ s2c = <<>>)

Core == TypeOK /\ Bounds /\ Progress /\ Deletion /\ OwnHeader /\ Stream

(***************************************************************************)
(* Texts of the server may hold any number, but the one POP3::scan takes for   *)
(* the number of messages is always from an answer to STAT: the scan asks a    *)
(* second time, and is one answer behind at most.                            *)
(***************************************************************************)
\* The count a client reads that finds segment k of s first.
CountAt(s, k) ==
    /\ s[k].second <= Len(drop)
    /\ s[k].kind = "front" /\ k < Len(s) => s[k + 1].second <= Len(drop)

Counting(s, j) == \A k \in DOMAIN s : j <= k /\ s[k].ok => CountAt(s, k)

Counts ==
    /\ server \in {"auth", "trans"} /\ s2c # <<>> => s2c[Len(s2c)].kind # "front"
    /\ pc = "STAT1" /\ waiting =>
          \/ Stuck(s2c)
          \/ (c2s # <<>> => c2s[Len(c2s)].verb = "STAT") /\ Counting(s2c, 2)
    /\ pc = "STAT2" =>
          \/ Stuck(s2c)
          \/ (\A k \in DOMAIN c2s : c2s[k].verb = "STAT") /\ Counting(s2c, 1)

IInv == Core /\ Counts

----------------------------------------------------------------------------
(***************************************************************************)
(* What holds on top of IInv, for the theorems of SessionPromises.            *)
(***************************************************************************)
Obliging == "refuse" \notin cfg.faults
Live     == server \in {"auth", "trans"}
Login    == {"PASS", "APOP"}
Pending  == {c2s[k].no : k \in {j \in DOMAIN c2s : c2s[j].verb = "DELE"}}
QuitSent == \E k \in DOMAIN c2s : c2s[k].verb = "QUIT"

\* The messages named in a DELE so far.
Due == IF pc = "DELE" THEN Doomed \ {msg} ELSE Doomed

\* The login is under way to the server, or served.
LoggedIn == server = "trans" \/ \E k \in DOMAIN c2s : c2s[k].verb \in Login

\* Every command under way will be granted: it comes in its state of the session and names
\* a message that is not marked when its turn comes.
Grantable(k) ==
    /\ c2s[k].verb = "APOP" => cfg.stamp
    /\ c2s[k].verb \in {"USER"} \union Login =>
          server = "auth" /\ \A j \in 1..(k - 1) : c2s[j].verb = "USER"
    /\ c2s[k].verb \in {"STAT", "LIST", "TOP", "DELE"} =>
          server = "trans" \/ \E j \in 1..(k - 1) : c2s[j].verb \in Login
    /\ c2s[k].verb \in {"LIST", "TOP", "DELE"} =>
          /\ c2s[k].no \in All \ marked
          /\ \A j \in 1..(k - 1) : c2s[j].verb = "DELE" => c2s[j].no # c2s[k].no
    /\ c2s[k].verb = "QUIT" => k = Len(c2s)

\* So the deletions asked for are those served and those under way.
Dialogue ==
    Obliging /\ Live =>
        /\ pc \in {"open", "greeting", "USER"} => ~LoggedIn
        /\ pc \in Login => (LoggedIn <=> waiting)
        /\ pc \in {"STAT1", "STAT2", "LIST", "TOP", "DELE", "STAT3", "QUIT"} => LoggedIn
        /\ pc = "APOP" => cfg.stamp
        /\ \A k \in DOMAIN c2s : Grantable(k)
        /\ pc # "killed" \/ QuitSent => marked \union Pending = Due

\* Nothing is lost while the session lasts; what its end removes are all the doomed.
Settled ==
    /\ server # "closed" => mailbox = All
    /\ Obliging => mailbox \in {All, All \ Doomed}

\* Only ^C kills a program that has said QUIT.
KilledEarly == pc = "killed" /\ "sigint" \notin cfg.faults => mailbox = All /\ ~QuitSent

\* Account::check has a result when it returns.
Returns ==
    /\ result = "ok" => pc = "done"
    /\ pc = "done" => result # "none"

\* Without failures of server and network a session without an error ends by QUIT.
Undisturbed == Obliging /\ cfg.faults \intersect {"close", "abort", "reset"} = {}
Success ==
    Undisturbed =>
        /\ pc \notin {"open", "close"} \union Gone => Live
        /\ pc \in {"close", "done"} /\ result # "error" =>
              /\ server # "listen"
              /\ Live => QuitSent
              /\ server = "closed" => mailbox = All \ Doomed

\* When answers arrive in time and in one piece, none but the one awaited is under way
\* until the first DELE ...
AtMost(n) == Len(c2s) + Len(s2c) <= n

Counted ==
    /\ pc = "greeting" => AtMost(1)
    /\ pc \in {"USER", "PASS", "APOP", "STAT1", "STAT2"} => AtMost(IF waiting THEN 1 ELSE 0)
    /\ pc = "STAT2" =>
          /\ \A k \in DOMAIN c2s : c2s[k].verb = "STAT"
          /\ \A k \in DOMAIN s2c : s2c[k].ok => s2c[k].second = Len(drop)
    /\ pc \in {"LIST", "TOP", "DELE"} => num_messages = Len(drop)
    /\ pc \in {"STAT3", "QUIT", "close", "done"} /\ result # "error" =>
          Len(judged) = Len(drop)

\* ... and then at most the answer to the DELE before.
Deleted(c) == c.verb = "DELE" /\ msg - 1 \in Doomed
Worded(n)  == \E t \in Texts : n = t.last
OwnSize(n) == n = drop[msg].size \/ (msg - 1 \in Doomed /\ Worded(n))

Measured ==
    /\ pc = "LIST" /\ ~waiting /\ ~Stuck(s2c) =>
          /\ \A k \in DOMAIN s2c : Worded(s2c[k].last) /\ msg - 1 \in Doomed
          /\ \A k \in DOMAIN c2s : Deleted(c2s[k])
    /\ pc = "LIST" /\ waiting /\ ~Stuck(s2c) =>
          /\ \A k \in DOMAIN s2c : OwnSize(s2c[k].last)
          /\ \A k \in DOMAIN c2s : c2s[k] = Cmd("LIST", msg) \/ Deleted(c2s[k])
          /\ c2s # <<>> => AtMost(1) \/ msg - 1 \in Doomed
    /\ pc = "TOP" => OwnSize(size)

Timely == Prompt => Counted /\ Measured /\ SizeOwnOrStray

PInv == Dialogue /\ Settled /\ KilledEarly /\ Returns /\ Success /\ Timely

----------------------------------------------------------------------------
\* In t a text that ends in "." comes behind all the lines of the header of message msg, or
\* is the refusal of TOP.
Untruncated(t) ==
    \A k \in DOMAIN t : t[k].dot =>
        \/ ~Obliging /\ NoLine(t)
        \/ \E o \in 0..k : /\ o + Len(drop[msg].entries) < k
                           /\ \A j \in 1..Len(drop[msg].entries) : t[o + j].kind = "line"

Uncut   == pc = "TOP" /\ waiting /\ ~Stuck(input \o s2c) => Untruncated(input \o s2c)
IdsSeen == msg_ids \subseteq IdsBefore(Len(judged) + 1)
Rightly == \A k \in Condemned : k \in All /\ is_weed(cfg.prefs, IdsBefore(k), drop[k]) = 1

\* When headers arrive whole, the weeder has seen the IDs of the messages up to the last one
\* judged, and has condemned what it would condemn by the message's own header.
Faithful == Whole => Uncut /\ IdsSeen /\ Rightly
=============================================================================
