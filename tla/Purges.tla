-------------------------------- MODULE Purges --------------------------------
(***************************************************************************)
(* What a user of Mailfilter is promised for all the mailboxes of a run: they *)
(* are purged one after the other, each in one step and for good; and what    *)
(* goes is junk, or a copy of a mail that came before and, unless that one is  *)
(* junk, is still there.                                                     *)
(***************************************************************************)
EXTENDS Naturals

VARIABLES
    junk,        \* junk[a]: the messages of mailbox a that the user's rules condemn
    copies,      \* pairs <<<<b, n>>, <<a, m>>>>: message m of mailbox a has the
                 \* Message-ID of message n of mailbox b, which comes before it
    mailboxes,   \* mailboxes[a]: the messages in mailbox a
    purged       \* the number of mailboxes that are done with

vars == <<junk, copies, mailboxes, purged>>

Init ==
    /\ \A a \in DOMAIN mailboxes : mailboxes[a] \subseteq Nat
    /\ purged = 0

\* Message m of mailbox a may go when the messages in the mailboxes are those in kept.
MayGo(kept, a, m) ==
    \/ m \in junk[a]
    \/ \E b \in 1..a : \E n \in kept[b] \union junk[b] : <<<<b, n>>, <<a, m>>>> \in copies

Purge(a, gone) ==
    /\ a = purged + 1 /\ purged' = a
    /\ mailboxes' = [mailboxes EXCEPT ![a] = @ \ gone]
    /\ \A m \in gone : MayGo(mailboxes', a, m)
    /\ UNCHANGED <<junk, copies>>

Next == \E a \in DOMAIN mailboxes : \E gone \in SUBSET mailboxes[a] : Purge(a, gone)

Spec == Init /\ [][Next]_vars
=============================================================================
