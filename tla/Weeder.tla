------------------------------- MODULE Weeder -------------------------------
(***************************************************************************)
(* The one Weeder object of the program (src/src/weeder.cc): POP3::scan of   *)
(* every account hands it the header of every message, one after the other,  *)
(* and it keeps msg_ids from one call to the next.  The user's preferences   *)
(* are fixed once the rcfile is read.  log is a history variable: the headers *)
(* examined and what is_weed returned for each.                              *)
(***************************************************************************)
EXTENDS WeedRules

CONSTANTS
    PrefsSet,     \* the preferences a user may have written
    Headers,      \* the headers the accounts hold
    MaxExamined   \* bound: the number of headers examined in one run

ASSUME WeederAssumption ==
    /\ PrefsSet \subseteq Preferences
    /\ Headers \subseteq Header
    /\ MaxExamined \in Nat

VARIABLES prefs, msg_ids, log
vars == <<prefs, msg_ids, log>>

TypeOK ==
    /\ prefs \in PrefsSet
    /\ msg_ids \subseteq Body
    /\ log \in Seq([header : Headers, weed : {0, 1}])

Init ==
    /\ prefs \in PrefsSet
    /\ msg_ids = {}
    /\ log = <<>>

\* Weeder::is_weed(h), called by POP3::scan.
Examine(h) ==
    /\ Len(log) < MaxExamined
    /\ log' = Append(log, [header |-> h, weed |-> is_weed(prefs, msg_ids, h)])
    /\ msg_ids' = Remember(prefs, msg_ids, h)
    /\ UNCHANGED prefs

Next == \E h \in Headers : Examine(h)

Spec == Init /\ [][Next]_vars

----------------------------------------------------------------------------
Kept(k) == log[k].weed = 0
IDof(k) == ID(log[k].header)
Copies(j, k) == j < k /\ IDof(j) = IDof(k) /\ IDof(k) # NoText

\* DEL_DUPLICATES leaves at most one copy of a message over all accounts, in
\* whatever order the copies and other messages arrive.
OneCopyKept ==
    prefs.del_duplicates =>
        \A j, k \in DOMAIN log : Copies(j, k) => ~(Kept(j) /\ Kept(k))

\* No copy is deleted as a duplicate unless an earlier copy was examined, and
\* the first of the copies is judged by the rules alone: a mail is never lost
\* merely because it has a message ID.
LossIsJustified ==
    \A k \in DOMAIN log :
        ~Kept(k) => \/ WeedByRules(prefs, log[k].header)
                    \/ /\ prefs.del_duplicates
                       /\ \E j \in DOMAIN log :
                             /\ Copies(j, k)
                             /\ Kept(j) \/ WeedByRules(prefs, log[j].header)

\* A friend within MAXSIZE_ALLOW and without a line longer than MAXLENGTH survives every
\* DENY, MAXSIZE_DENY and SCORE rule: only an earlier copy of the same message can delete
\* it.  (A friend with an overlong line: the code keeps it, the manual, which lets MAXLENGTH
\* override ALLOW, does not.)
FriendsSurvive ==
    \A k \in DOMAIN log :
        /\ ~Kept(k)
        /\ Allowed(prefs, log[k].header)
        /\ ~MaxsizeAllowExceeded(prefs, log[k].header)
        /\ check_maxlength(prefs, log[k].header) = 0
        => \E j \in DOMAIN log : Copies(j, k)
=============================================================================
