----------------------------- MODULE Mailfilter -----------------------------
(***************************************************************************)
(* The main program (src/src/mailfilter.cc): the accounts of the rcfile are   *)
(* checked one after the other, each by a Session, and the exit status tells   *)
(* how it went.  The weeder's msg_ids and mailbox_status outlive an account;   *)
(* the rest of a Session starts afresh.                                       *)
(***************************************************************************)
EXTENDS Session

CONSTANT Accounts      \* sequences of accounts that may be found in the rcfile

Account == [cfg : Configs, drop : Maildrops]

\* The preferences and the command line are those of the whole run.
ASSUME AccountsAssumption ==
    \A u \in Accounts :
        /\ u # <<>> /\ u \in Seq(Account)
        /\ \A a \in DOMAIN u :
              /\ u[a].cfg.prefs = u[1].cfg.prefs
              /\ u[a].cfg.test_mode = u[1].cfg.test_mode
              /\ u[a].cfg.return_status = u[1].cfg.return_status

VARIABLES
    accounts,         \* Preferences::accounts, chosen once
    cur_account,
    past,             \* history: what became of the accounts before cur_account
    return_val,
    phase,            \* "start", "run" or "exit"; "told": -h or -V, nothing was checked
    exit_status       \* what the parent process sees

mainVars == <<accounts, cur_account, past, return_val, phase, exit_status>>
allVars == <<vars, mainVars>>

\* An exit status has 8 bits, exit (-1) is 255, and a shell reports SIGPIPE as 141.
Status8(n) == n % 256
Killed == {Status8(-1), 141}

\* What remains of the account at hand.
Outcome == [drop |-> drop, mailbox |-> mailbox, judged |-> judged,
            result |-> result, faults |-> cfg.faults]
At(a) == IF a < cur_account THEN past[a] ELSE Outcome

MainTypeOK ==
    /\ TypeOK
    /\ accounts \in Accounts
    /\ cur_account \in DOMAIN accounts
    /\ Len(past) = cur_account - 1
    /\ return_val \in {0, -1}
    /\ phase \in {"start", "run", "exit", "told"}
    /\ exit_status \in 0..255

MainInit ==
    /\ accounts \in Accounts
    /\ cur_account = 1 /\ past = <<>>
    /\ return_val = 0 /\ phase = "start" /\ exit_status = 0
    /\ cfg = accounts[1].cfg /\ drop = accounts[1].drop
    /\ Init
----------------------------------------------------------------------------
\* Everything before the loop: the rcfile is found and read, the log file opens,
\* the signal handler is installed and the filters compile.
Start ==
    /\ phase = "start"
    /\ phase' = "run"
    /\ UNCHANGED <<vars, accounts, cur_account, past, return_val, exit_status>>

StartFails ==
    /\ phase = "start"
    /\ phase' = "exit"
    /\ exit_status' = Status8(-1)
    /\ UNCHANGED <<vars, accounts, cur_account, past, return_val>>

\* -h and -V: get_opts prints what it was asked for and exits with 0.
Informs ==
    /\ phase = "start"
    /\ phase' = "told"
    /\ exit_status' = 0
    /\ UNCHANGED <<vars, accounts, cur_account, past, return_val>>

\* A step of Account::check, of its server or of the network between them.
Check ==
    /\ phase = "run"
    /\ ClientNext \/ ServerNext \/ FaultNext \/ Spin
    /\ UNCHANGED mainVars

\* Account::check has returned.  The server may not have served QUIT yet; it
\* shares nothing with the next account, so its last steps come first.
Returned == phase = "run" /\ pc = "done" /\ server \in {"listen", "closed"}

\* Mutant of KeepResult: every account that fails counts.
CountFailures == return_val' = IF result = "error" THEN return_val - 1 ELSE return_val

\* The loop's handling of the result of Account::check.
KeepResult == return_val' = IF result = "error" THEN -1 ELSE return_val

\* The next account: a Session begins with what outlives the one before.
Begin(a) ==
    /\ cfg' = a.cfg /\ drop' = a.drop
    /\ pc' = "open" /\ waiting' = FALSE
    /\ msg' = 0 /\ num_messages' = 0 /\ size' = 0 /\ input' = <<>>
    /\ messages' = 0 /\ result' = "none" /\ judged' = <<>>
    /\ c2s' = <<>> /\ s2c' = <<>> /\ peer' = "up"
    /\ server' = "listen" /\ marked' = {} /\ mailbox' = DOMAIN a.drop
    /\ UNCHANGED mailbox_status

Advance ==
    /\ Returned
    /\ cur_account < Len(accounts)
    /\ cur_account' = cur_account + 1
    /\ past' = Append(past, Outcome)
    /\ Begin(accounts[cur_account + 1])
    /\ UNCHANGED <<accounts, phase, exit_status>>

\* Mutants of NextAccount: msg_ids is local to an account; only the last account
\* counts for the exit status.
NextAccountForgets == Advance /\ KeepResult /\ msg_ids' = {}
NextAccountRecovers ==
    Advance /\ return_val' = (IF result = "error" THEN -1 ELSE 0) /\ UNCHANGED msg_ids

NextAccount == Advance /\ KeepResult /\ UNCHANGED msg_ids

Return ==
    /\ Returned
    /\ cur_account = Len(accounts)
    /\ KeepResult
    /\ exit_status' = Status8(IF cfg.return_status THEN mailbox_status ELSE return_val')
    /\ phase' = "exit"
    /\ UNCHANGED <<vars, accounts, cur_account, past>>

\* exit (-1) or SIGPIPE in the middle of an account ends the program.
Die ==
    /\ phase = "run" /\ pc = "killed"
    /\ exit_status' \in Killed
    /\ phase' = "exit"
    /\ UNCHANGED <<vars, accounts, cur_account, past, return_val>>

\* The server at hand serves on when the program is gone.
Outlive ==
    /\ phase = "exit" /\ pc \in Gone
    /\ ServerNext \/ NetworkNext
    /\ UNCHANGED mainVars

Exited == phase \in {"exit", "told"} /\ server \in {"listen", "closed"} /\ UNCHANGED allVars

MainNext ==
    Start \/ StartFails \/ Informs \/ Check \/ NextAccount \/ Return \/ Die \/ Outlive \/ Exited

MainSpec == MainInit /\ [][MainNext]_allVars

----------------------------------------------------------------------------
Begun == 1..cur_account
Prefs == cfg.prefs
Before(b, n, a, m) == b < a \/ (b = a /\ n < m)
JudgedIn(a) == DOMAIN At(a).judged
HeaderIn(a, m) == At(a).judged[m].header

\* The message n of account b was examined before m of account a and has its ID.
EarlierCopy(b, n, a, m) ==
    /\ Before(b, n, a, m)
    /\ ID(HeaderIn(b, n)) = ID(HeaderIn(a, m)) /\ ID(HeaderIn(a, m)) # NoText

\* With DEL_DUPLICATES a mail sent to several accounts is never lost for being a
\* copy of itself: a message goes because the rules condemn it, or because a copy
\* examined earlier, maybe in another account whose session failed afterwards, is
\* still in its mailbox or was condemned by the rules.
CopySurvives ==
    \A a \in Begun : \A m \in DOMAIN At(a).drop \ At(a).mailbox :
        \/ WeedByRules(Prefs, HeaderIn(a, m))
        \/ /\ Prefs.del_duplicates
           /\ \E b \in 1..a : \E n \in JudgedIn(b) :
                 /\ EarlierCopy(b, n, a, m)
                 /\ n \in At(b).mailbox \/ WeedByRules(Prefs, HeaderIn(b, n))

\* An account whose check returned 0 over a server and a network that did not
\* fail holds no copy of a message examined earlier in this run, whatever became
\* of the earlier account (man/mailfilterrc.5:72: "sent to one or several
\* accounts at once").
Clean(a) ==
    /\ At(a).result = "ok" /\ ~cfg.test_mode
    /\ At(a).faults \intersect {"refuse", "close", "abort", "reset"} = {}
    /\ a < cur_account \/ server = "closed"
OneCopyLeft ==
    Prefs.del_duplicates =>
        \A a \in Begun : Clean(a) =>
            \A m \in JudgedIn(a) \intersect At(a).mailbox, b \in 1..a :
                \A n \in JudgedIn(b) : ~EarlierCopy(b, n, a, m)

\* NEWS:81-83: exit status 0 is only returned if every account was checked
\* without an error, and then every message of all of them was examined, unless
\* an answer to STAT was cut or delayed.  (Without --return-value, -h and -V.)
ZeroIsSuccess ==
    phase = "exit" /\ exit_status = 0 /\ ~cfg.return_status =>
        /\ cur_account = Len(accounts)
        /\ \A a \in Begun :
              /\ At(a).result = "ok"
              /\ At(a).faults \intersect {"split", "sslempty"} = {}
                    => JudgedIn(a) = DOMAIN At(a).drop

(***************************************************************************)
(* The program implements Purges, whatever fails in whichever account.  When   *)
(* all headers arrive whole (Session!ArriveWhole) junk is what the rules        *)
(* condemn; otherwise any message may be taken for it.                         *)
(***************************************************************************)
Mail(a) == accounts[a].drop
AllWhole == \A a \in DOMAIN accounts : ArriveWhole(accounts[a].cfg, Mail(a))

Junk ==
    [a \in DOMAIN accounts |->
        IF cfg.test_mode THEN {}
        ELSE {m \in DOMAIN Mail(a) : AllWhole => WeedByRules(Prefs, Mail(a)[m])}]

Place == UNION {{a} \X DOMAIN Mail(a) : a \in DOMAIN accounts}
SameID(h, g) == ID(h) = ID(g) /\ ID(g) # NoText
Copies ==
    IF cfg.test_mode \/ ~Prefs.del_duplicates THEN {}
    ELSE {pq \in Place \X Place :
             LET p == pq[1]
                 q == pq[2]
             IN  Before(p[1], p[2], q[1], q[2]) /\ SameID(Mail(p[1])[p[2]], Mail(q[1])[q[2]])}

Mailboxes ==
    [a \in DOMAIN accounts |-> IF a \in Begun THEN At(a).mailbox ELSE DOMAIN Mail(a)]
Purged == IF server = "closed" THEN cur_account ELSE cur_account - 1

Promised == INSTANCE Purges WITH
    junk <- Junk, copies <- Copies, mailboxes <- Mailboxes, purged <- Purged
RunPurges == Promised!Spec

----------------------------------------------------------------------------
\* man/mailfilter.1:26-28: with --return-value the program "gives back a positive
\* integer in case there are messages on the POP server.  Empty POP accounts
\* would then result in a return value of 0."
ReturnValueCounts ==
    /\ phase = "exit" /\ cfg.return_status
    /\ exit_status = 0
    => \A a \in DOMAIN accounts : a \in Begun /\ At(a).mailbox = {}
=============================================================================
