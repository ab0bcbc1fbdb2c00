-------------------------------- MODULE Purge --------------------------------
(***************************************************************************)
(* What a user of Mailfilter is promised for one account: while the session   *)
(* lasts the mailbox keeps every message, and when it ends some of the        *)
(* messages the rules condemn, and no others, disappear in one step.          *)
(***************************************************************************)
CONSTANT Numbers   \* message numbers

VARIABLES
    wanted,    \* the messages the user's rules condemn, fixed from the start
    mailbox,   \* the messages in the mailbox
    over       \* the session has ended

vars == <<wanted, mailbox, over>>

Init ==
    /\ wanted \subseteq Numbers
    /\ mailbox \subseteq Numbers
    /\ over = FALSE

End ==
    /\ ~over
    /\ over' = TRUE
    /\ \E gone \in SUBSET wanted : mailbox' = mailbox \ gone
    /\ UNCHANGED wanted

Spec == Init /\ [][End]_vars
=============================================================================
