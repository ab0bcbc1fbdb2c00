------------------------- MODULE MailfilterInvariant -------------------------
(***************************************************************************)
(* The inductive invariant behind the theorems of MailfilterProofs: that of    *)
(* the session at hand, what is kept of the accounts before it, and what       *)
(* Weeder::msg_ids has to do with the headers judged for all of them.          *)
(***************************************************************************)
EXTENDS Mailfilter, SessionInvariant

\* The headers judged for each account so far, with is_weed's answers.
Judgement == [header : Header, weed : {0, 1}]
Logs == [a \in Begun |-> At(a).judged]

\* Entry m of account a has the ID of an earlier entry n of account b.
Repeats(L, b, n, a, m) ==
    /\ Before(b, n, a, m)
    /\ ID(L[b][n].header) = ID(L[a][m].header) /\ ID(L[a][m].header) # NoText

\* A message that stays, or goes for what it is and not for being a copy.
Original(p, e) == e.weed # 1 \/ WeedByRules(p, e.header)

\* msg_ids are the IDs judged so far, when duplicates are looked for at all ...
Remembered(p, ids, L) ==
    p.del_duplicates =>
        \A b \in DOMAIN L : \A n \in DOMAIN L[b] :
            ID(L[b][n].header) # NoText => ID(L[b][n].header) \in ids

\* ... and every one of them has an original.
Attested(p, ids, L) ==
    \A x \in ids :
        /\ p.del_duplicates /\ x # NoText
        /\ \E b \in DOMAIN L : \E n \in DOMAIN L[b] :
              ID(L[b][n].header) = x /\ Original(p, L[b][n])

\* What is condemned is so by the rules, or as a copy of an original that came before.
Founded(p, L) ==
    \A a \in DOMAIN L : \A m \in DOMAIN L[a] :
        L[a][m].weed = 1 =>
            \/ WeedByRules(p, L[a][m].header)
            \/ /\ p.del_duplicates
               /\ \E b \in 1..a : \E n \in DOMAIN L[b] :
                     Repeats(L, b, n, a, m) /\ Original(p, L[b][n])

\* With DEL_DUPLICATES every copy is condemned.
NoCopyPasses(p, L) ==
    p.del_duplicates =>
        \A a \in DOMAIN L : \A m \in DOMAIN L[a] : \A b \in 1..a : \A n \in DOMAIN L[b] :
            Repeats(L, b, n, a, m) => L[a][m].weed = 1

LogInv(p, ids, L) ==
    Remembered(p, ids, L) /\ Attested(p, ids, L) /\ Founded(p, L) /\ NoCopyPasses(p, L)

\* What is kept of an account when its check is over.
Past == [drop : Maildrops, mailbox : SUBSET Nat, judged : Seq(Judgement),
         result : {"ok", "error"}, faults : SUBSET Fault]

Finished(test_mode, o) ==
    /\ DOMAIN o.judged \subseteq DOMAIN o.drop
    /\ \A k \in DOMAIN o.drop \ o.mailbox : k \in DOMAIN o.judged /\ o.judged[k].weed = 1
    /\ o.result = "ok" =>
          /\ o.faults \intersect {"split", "sslempty"} = {} => DOMAIN o.judged = DOMAIN o.drop
          /\ ~test_mode /\ o.faults \intersect {"refuse", "close", "abort", "reset"} = {} =>
                \A k \in DOMAIN o.judged : o.judged[k].weed = 1 => k \notin o.mailbox

\* An exit status of 0 needs every account to have been checked without an error.
Tally ==
    /\ phase # "exit" /\ return_val = 0 => \A a \in DOMAIN past : past[a].result = "ok"
    /\ phase = "exit" /\ exit_status = 0 /\ ~cfg.return_status =>
          /\ cur_account = Len(accounts) /\ result = "ok"
          /\ \A a \in DOMAIN past : past[a].result = "ok"

MInv ==
    /\ MainTypeOK /\ IInv /\ PInv
    /\ cfg = accounts[cur_account].cfg /\ drop = accounts[cur_account].drop
    /\ past \in Seq(Past)
    /\ \A a \in DOMAIN past : Finished(cfg.test_mode, past[a])
    /\ LogInv(Prefs, msg_ids, Logs)
    /\ Tally

----------------------------------------------------------------------------
\* The headers judged are those of the messages, or empty where TOP was refused.
OwnOrEmpty(c, d, j) ==
    \A k \in DOMAIN j :
        \/ k \in DOMAIN d /\ j[k].header.entries = d[k].entries
        \/ "refuse" \in c.faults /\ j[k].header.entries = <<>>

\* What the promise of Purges rests on: when all headers arrive whole none is cut short
\* while it is read, and every account was judged by its own mail.
OwnMail ==
    /\ \A a \in Begun : At(a).drop = Mail(a)
    /\ AllWhole => /\ Uncut
                   /\ \A a \in Begun : OwnOrEmpty(accounts[a].cfg, Mail(a), At(a).judged)
=============================================================================
