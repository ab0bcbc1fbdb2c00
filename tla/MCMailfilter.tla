---------------------------- MODULE MCMailfilter ----------------------------
(***************************************************************************)
(* Up to three accounts of up to two messages: the same mail arrives in all  *)
(* of them, and the session of any may fail.                               *)
(***************************************************************************)
EXTENDS MCSession, Mailfilter

Box(u, f, d) == [cfg |-> [u EXCEPT !.faults = f], drop |-> d]

Counting(u) == [u EXCEPT !.return_status = TRUE]
Tested(u) == [u EXCEPT !.test_mode = TRUE]

\* What may fail in the first and in the second account: the network, the server,
\* answers that are cut, a program that is killed.
Network1 == {"connect", "close", "abort", "timeout", "reset"}
FaultPairs == {<<Network1, {"timeout"}>>, <<{"refuse", "timeout"}, {"reset", "sigint"}>>,
               <<{"split"}, Network1>>, <<{"sigint", "timeout"}, {"refuse"}>>}
FirstMail == {<<Copy, Spammy>>, <<Pal>>, <<Spammy, Copy>>}
OtherMail == {<<Spammy, Pal>>, <<Copy, Pal>>}

Twice(u, v, faults) ==
    {<<Box(u, fs[1], d), Box(v, fs[2], e)>> : fs \in faults, d \in FirstMail, e \in OtherMail}

\* The same mail in two accounts, one of them with APOP; a run that counts the
\* messages; a trial run; three accounts.
MCAccounts ==
    Twice(User(Duplicates), Apop(Duplicates), FaultPairs)
    \union Twice(Counting(User(Duplicates)), Counting(User(Duplicates)), {<<{"refuse"}, {"connect"}>>})
    \union Twice(Tested(User(DenySpam)), Tested(User(DenySpam)), {<<{"split"}, {"timeout"}>>})
    \union {<<Box(User(Duplicates), {"timeout"}, <<Copy>>), Box(User(Duplicates), {"refuse"}, <<Spammy>>),
              Box(User(Duplicates), {"reset"}, <<Pal>>)>>}
MCAccountConfigs == {a.cfg : a \in UNION {ToSet(u) : u \in MCAccounts}}

OneCounted == {<<Box(Counting(User(DenySpam)), {}, <<Copy, Spammy>>)>>}
OneCountedConfigs == {a.cfg : a \in UNION {ToSet(u) : u \in OneCounted}}

MCAccountMail == {a.drop : a \in UNION {ToSet(u) : u \in MCAccounts \union OneCounted}}
=============================================================================
