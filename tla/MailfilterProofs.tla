--------------------------- MODULE MailfilterProofs ---------------------------
(***************************************************************************)
(* Theorems about a run over all accounts: what it deletes as duplicates,      *)
(* what its exit status says, and that it implements Purges, for all accounts, *)
(* mailboxes, preferences and failures.                                       *)
(***************************************************************************)
EXTENDS MailfilterInvariant, SessionPromises

\* One more header for the account at hand.
LEMMA LogGrows ==
    ASSUME NEW p, NEW ids, NEW L, NEW M, NEW c \in Nat \ {0}, NEW k \in Nat \ {0}, NEW h, NEW N,
           DOMAIN L = 1..c, DOMAIN M = 1..c, \A a \in 1..(c - 1) : M[a] = L[a],
           DOMAIN L[c] = 1..(k - 1), DOMAIN M[c] = 1..k, \A j \in 1..(k - 1) : M[c][j] = L[c][j],
           M[c][k] = [header |-> h, weed |-> is_weed(p, ids, h)],
           N = Remember(p, ids, h), LogInv(p, ids, L)
    PROVE  LogInv(p, N, M)
<1>1. /\ \A b \in 1..c : \A n \in DOMAIN M[b] : (n \in DOMAIN L[b] /\ M[b][n] = L[b][n]) \/ (b = c /\ n = k)
      /\ \A b \in 1..c : \A n \in DOMAIN L[b] : n \in DOMAIN M[b] /\ M[b][n] = L[b][n]
  <2>1. \A b \in 1..c : b = c \/ (b \in 1..(c - 1)) OBVIOUS
  <2>2. \A n \in 1..k : n = k \/ n \in 1..(k - 1) OBVIOUS
  <2>3. \A n \in 1..(k - 1) : n \in 1..k OBVIOUS
  <2>4. \A b \in 1..c : b # c => M[b] = L[b] BY <2>1
  <2> QED BY <2>2, <2>3, <2>4, Zenon
<1>2. c \in 1..c /\ k \in DOMAIN M[c] /\ k \notin DOMAIN L[c] OBVIOUS
<1>3. M[c][k].header = h /\ M[c][k].weed = is_weed(p, ids, h) OBVIOUS
<1>4. Remembered(p, ids, L) /\ Attested(p, ids, L) /\ Founded(p, L) /\ NoCopyPasses(p, L)
  BY DEF LogInv
<1>5. /\ ids \subseteq N /\ \A x \in N : x \in ids \/ (x = ID(h) /\ p.del_duplicates /\ ID(h) # NoText)
      /\ p.del_duplicates /\ ID(h) # NoText => ID(h) \in N
  BY DEF Remember
<1>6. /\ M[c][k].weed = 1 => \/ WeedByRules(p, h)
                             \/ p.del_duplicates /\ ID(h) # NoText /\ ID(h) \in ids
      /\ p.del_duplicates /\ ID(h) # NoText /\ ID(h) \in ids => M[c][k].weed = 1
  BY <1>3 DEF is_weed, check_duplicates
<1>7. Remembered(p, N, M)
  <2> SUFFICES ASSUME p.del_duplicates, NEW b \in 1..c, NEW n \in DOMAIN M[b], ID(M[b][n].header) # NoText
               PROVE  ID(M[b][n].header) \in N
    BY DEF Remembered
  <2>1. CASE n \in DOMAIN L[b] /\ M[b][n] = L[b][n]
    BY <1>4, <1>5, <2>1 DEF Remembered
  <2>2. CASE b = c /\ n = k BY <1>3, <1>5, <2>2
  <2> QED BY <1>1, <2>1, <2>2
<1>8. Attested(p, N, M)
  <2> SUFFICES ASSUME NEW x \in N
               PROVE  /\ p.del_duplicates /\ x # NoText
                      /\ \E b \in 1..c : \E n \in DOMAIN M[b] :
                            ID(M[b][n].header) = x /\ Original(p, M[b][n])
    BY DEF Attested
  <2>1. CASE x \in ids
    <3>1. p.del_duplicates /\ x # NoText BY <1>4, <2>1 DEF Attested
    <3>2. PICK b \in 1..c : \E n \in DOMAIN L[b] : ID(L[b][n].header) = x /\ Original(p, L[b][n])
      BY <1>4, <2>1 DEF Attested
    <3>a. PICK n \in DOMAIN L[b] : ID(L[b][n].header) = x /\ Original(p, L[b][n])
      BY <3>2
    <3>3. n \in DOMAIN M[b] /\ M[b][n] = L[b][n] BY <1>1
    <3>4. ID(M[b][n].header) = x /\ Original(p, M[b][n]) BY <3>a, <3>3
    <3> QED BY <3>1, <3>3, <3>4
  <2>2. CASE x \notin ids
    <3>1. x = ID(h) /\ p.del_duplicates /\ ID(h) # NoText BY <1>5, <2>2
    <3>2. Original(p, M[c][k]) BY <1>3, <1>6, <2>2, <3>1 DEF Original
    <3> QED BY <1>2, <1>3, <3>1, <3>2
  <2> QED BY <2>1, <2>2
<1>9. Founded(p, M)
  <2> SUFFICES ASSUME NEW a \in 1..c, NEW m \in DOMAIN M[a], M[a][m].weed = 1,
                      ~WeedByRules(p, M[a][m].header)
               PROVE  /\ p.del_duplicates
                      /\ \E b \in 1..a : \E n \in DOMAIN M[b] :
                            Repeats(M, b, n, a, m) /\ Original(p, M[b][n])
    BY DEF Founded
  <2>1. CASE m \in DOMAIN L[a] /\ M[a][m] = L[a][m]
    <3>1. L[a][m].weed = 1 /\ ~WeedByRules(p, L[a][m].header) BY <2>1
    <3>2. /\ p.del_duplicates
          /\ \E b \in 1..a : \E n \in DOMAIN L[b] :
                Repeats(L, b, n, a, m) /\ Original(p, L[b][n])
      BY <1>4, <2>1, <3>1 DEF Founded
    <3>a. PICK b \in 1..a : \E n \in DOMAIN L[b] : Repeats(L, b, n, a, m) /\ Original(p, L[b][n])
      BY <3>2
    <3>3. PICK n \in DOMAIN L[b] : Repeats(L, b, n, a, m) /\ Original(p, L[b][n])
      BY <3>a
    <3>4. b \in 1..c OBVIOUS
    <3>5. n \in DOMAIN M[b] /\ M[b][n] = L[b][n] BY <1>1, <3>4
    <3>6. Repeats(M, b, n, a, m) BY <2>1, <3>3, <3>5 DEF Repeats
    <3>7. Original(p, M[b][n]) BY <3>3, <3>5
    <3> QED BY <3>2, <3>5, <3>6, <3>7
  <2>2. CASE a = c /\ m = k
    <3>1. p.del_duplicates /\ ID(h) # NoText /\ ID(h) \in ids BY <1>3, <1>6, <2>2
    <3>a. PICK b \in 1..c : \E n \in DOMAIN L[b] : ID(L[b][n].header) = ID(h) /\ Original(p, L[b][n])
      BY <1>4, <3>1 DEF Attested
    <3>2. PICK n \in DOMAIN L[b] : ID(L[b][n].header) = ID(h) /\ Original(p, L[b][n])
      BY <3>a
    <3>3. n \in DOMAIN M[b] /\ M[b][n] = L[b][n] BY <1>1
    <3>4. Before(b, n, c, k)
      <4>1. b < c \/ b = c OBVIOUS
      <4>2. b = c => n < k OBVIOUS
      <4> QED BY <4>1, <4>2 DEF Before
    <3>5. Repeats(M, b, n, c, k) BY <1>3, <3>1, <3>2, <3>3, <3>4 DEF Repeats
    <3>6. Original(p, M[b][n]) BY <3>2, <3>3
    <3> QED BY <2>2, <3>1, <3>3, <3>5, <3>6
  <2> QED BY <1>1, <2>1, <2>2
<1>10. NoCopyPasses(p, M)
  <2> SUFFICES ASSUME p.del_duplicates, NEW a \in 1..c, NEW m \in DOMAIN M[a],
                      NEW b \in 1..a, NEW n \in DOMAIN M[b], Repeats(M, b, n, a, m)
               PROVE  M[a][m].weed = 1
    BY DEF NoCopyPasses
  <2>1. b \in 1..c /\ b \in Nat /\ a \in Nat OBVIOUS
  <2>2. Before(b, n, a, m) BY DEF Repeats
  <2>3. ~(b = c /\ n = k)
    <3> SUFFICES ASSUME b = c, n = k PROVE FALSE OBVIOUS
    <3>1. a = c BY <2>1
    <3>2. m \in 1..k BY <3>1
    <3> QED BY <2>2, <3>1, <3>2 DEF Before
  <2>4. n \in DOMAIN L[b] /\ M[b][n] = L[b][n] BY <1>1, <2>1, <2>3
  <2>5. CASE m \in DOMAIN L[a] /\ M[a][m] = L[a][m]
    <3>1. Repeats(L, b, n, a, m) BY <2>4, <2>5 DEF Repeats
    <3> QED BY <1>4, <2>4, <2>5, <3>1, SMTT(60) DEF NoCopyPasses
  <2>6. CASE a = c /\ m = k
    <3>1. ID(L[b][n].header) = ID(h) /\ ID(h) # NoText BY <1>3, <2>4, <2>6 DEF Repeats
    <3>2. ID(h) \in ids BY <1>4, <2>1, <2>4, <3>1 DEF Remembered
    <3> QED BY <1>6, <2>6, <3>1, <3>2
  <2> QED BY <1>1, <2>5, <2>6
<1> QED BY <1>7, <1>8, <1>9, <1>10 DEF LogInv

\* A new account.
LEMMA LogStarts ==
    ASSUME NEW p, NEW ids, NEW L, NEW M, NEW c \in Nat,
           DOMAIN L = 1..c, DOMAIN M = 1..(c + 1), \A a \in 1..c : M[a] = L[a],
           DOMAIN M[c + 1] = {}, LogInv(p, ids, L)
    PROVE  LogInv(p, ids, M)
<1>1. \A b \in DOMAIN M : \A n \in DOMAIN M[b] : b \in 1..c /\ M[b] = L[b]
  <2>1. \A b \in 1..(c + 1) : b = c + 1 \/ b \in 1..c OBVIOUS
  <2> QED BY <2>1
<1>2. \A b \in 1..c : b \in DOMAIN M /\ M[b] = L[b]
  OBVIOUS
<1>3. Remembered(p, ids, L) /\ Attested(p, ids, L) /\ Founded(p, L) /\ NoCopyPasses(p, L)
  BY DEF LogInv
<1>4. Remembered(p, ids, M)
  BY <1>1, <1>3, Zenon DEF Remembered
<1>5. Attested(p, ids, M)
  BY <1>2, <1>3, Zenon DEF Attested
<1>6. \A a \in 1..c : \A b \in 1..a : b \in 1..c OBVIOUS
<1>7. ASSUME NEW a \in 1..c, NEW b \in 1..a
      PROVE  /\ M[a] = L[a] /\ M[b] = L[b]
             /\ \A m, n : Repeats(M, b, n, a, m) <=> Repeats(L, b, n, a, m)
  BY <1>2, <1>6, Zenon DEF Repeats
<1>8. Founded(p, M)
  <2> SUFFICES ASSUME NEW a \in DOMAIN M, NEW m \in DOMAIN M[a], M[a][m].weed = 1,
                      ~WeedByRules(p, M[a][m].header)
               PROVE  /\ p.del_duplicates
                      /\ \E b \in 1..a : \E n \in DOMAIN M[b] :
                            Repeats(M, b, n, a, m) /\ Original(p, M[b][n])
    BY DEF Founded
  <2>1. a \in 1..c /\ M[a] = L[a] BY <1>1
  <2>b. /\ a \in DOMAIN L /\ m \in DOMAIN L[a]
        /\ L[a][m].weed = 1 /\ ~WeedByRules(p, L[a][m].header)
    BY <2>1
  <2>2. /\ p.del_duplicates
        /\ \E b \in 1..a : \E n \in DOMAIN L[b] :
              Repeats(L, b, n, a, m) /\ Original(p, L[b][n])
    BY <1>3, <2>b DEF Founded
  <2>a. PICK b \in 1..a : \E n \in DOMAIN L[b] : Repeats(L, b, n, a, m) /\ Original(p, L[b][n])
    BY <2>2
  <2>3. PICK n \in DOMAIN L[b] : Repeats(L, b, n, a, m) /\ Original(p, L[b][n])
    BY <2>a
  <2>4. M[b] = L[b] /\ Repeats(M, b, n, a, m) BY <1>7, <2>1, <2>3
  <2> QED BY <2>2, <2>3, <2>4
<1>9. NoCopyPasses(p, M)
  <2> SUFFICES ASSUME p.del_duplicates, NEW a \in DOMAIN M, NEW m \in DOMAIN M[a],
                      NEW b \in 1..a, NEW n \in DOMAIN M[b], Repeats(M, b, n, a, m)
               PROVE  M[a][m].weed = 1
    BY DEF NoCopyPasses
  <2>1. a \in 1..c /\ M[a] = L[a] BY <1>1
  <2>2. M[b] = L[b] /\ Repeats(L, b, n, a, m) BY <1>7, <2>1
  <2> QED BY <1>3, <2>1, <2>2 DEF NoCopyPasses
<1> QED BY <1>4, <1>5, <1>8, <1>9 DEF LogInv

----------------------------------------------------------------------------
\* Logs without the records it is taken from.
LEMMA LogsForm ==
    Logs = [a \in 1..cur_account |-> IF a < cur_account THEN past[a].judged ELSE judged]
<1>1. \A a \in 1..cur_account : At(a).judged = IF a < cur_account THEN past[a].judged ELSE judged
  BY DEF At, Outcome
<1> QED BY <1>1 DEF Logs, Begun

\* The logs are those of the accounts that are over, and the one of the account at hand.
LEMMA LogsFacts ==
    ASSUME MainTypeOK, past \in Seq(Past)
    PROVE  /\ cur_account \in Nat \ {0} /\ accounts \in Seq(Account) /\ cur_account \in 1..Len(accounts)
           /\ DOMAIN Logs = 1..cur_account /\ DOMAIN past = 1..(cur_account - 1)
           /\ Logs[cur_account] = judged /\ At(cur_account) = Outcome
           /\ \A a \in 1..(cur_account - 1) : Logs[a] = past[a].judged /\ At(a) = past[a]
           /\ \A a \in 1..cur_account : Logs[a] = At(a).judged
<1>1. /\ accounts \in Seq(Account) /\ cur_account \in 1..Len(accounts) /\ Len(accounts) \in Nat
  BY AccountsAssumption DEF MainTypeOK
<1>2. cur_account \in Nat \ {0} BY <1>1
<1>3. DOMAIN past = 1..(cur_account - 1) BY <1>2 DEF MainTypeOK
<1>4. /\ \A a \in 1..(cur_account - 1) : a < cur_account /\ a \in 1..cur_account
      /\ cur_account \in 1..cur_account /\ ~(cur_account < cur_account)
  BY <1>2
<1>5. At(cur_account) = Outcome /\ \A a \in 1..(cur_account - 1) : At(a) = past[a]
  BY <1>4 DEF At
<1>6. DOMAIN Logs = 1..cur_account /\ \A a \in 1..cur_account : Logs[a] = At(a).judged
  BY DEF Logs, Begun
<1>7. Outcome.judged = judged BY DEF Outcome
<1> QED BY <1>1, <1>2, <1>3, <1>4, <1>5, <1>6, <1>7

\* What is left of a session that has returned.
LEMMA ReturnedFinished ==
    ASSUME IInv, PInv, pc = "done", server \in {"listen", "closed"}
    PROVE  Finished(cfg.test_mode, Outcome)
<1>1. /\ cfg \in Config /\ drop \in Seq(Header) /\ mailbox \subseteq All
      /\ judged \in Seq([header : Header, weed : {0, 1}])
  BY SessionAssumption DEF IInv, Core, TypeOK
<1>2. /\ Outcome.judged = judged /\ Outcome.drop = drop /\ Outcome.mailbox = mailbox
      /\ Outcome.result = result /\ Outcome.faults = cfg.faults
  BY DEF Outcome
<1>3. DOMAIN judged \subseteq DOMAIN drop BY DEF IInv, Core, OwnHeader, All
<1>4. \A k \in DOMAIN drop \ mailbox : k \in DOMAIN judged /\ judged[k].weed = 1
  <2>1. All \ mailbox \subseteq Doomed BY DEF IInv, Core, Deletion
  <2> QED BY <2>1 DEF Doomed, Condemned, All
<1>5. ASSUME result = "ok", cfg.faults \intersect {"split", "sslempty"} = {}
      PROVE  DOMAIN judged = DOMAIN drop
  BY <1>5, PromptExamines DEF ScanIsComplete, AllExamined, Prompt, All
<1>6. ASSUME result = "ok", ~cfg.test_mode,
             cfg.faults \intersect {"refuse", "close", "abort", "reset"} = {}
      PROVE  \A k \in DOMAIN judged : judged[k].weed = 1 => k \notin mailbox
  <2>1. Undisturbed BY <1>6 DEF Undisturbed, Obliging
  <2>2. server = "closed" /\ mailbox = All \ Doomed
    BY <1>6, <2>1 DEF PInv, Success
  <2> QED BY <1>6, <2>2 DEF Doomed, Condemned
<1> QED BY <1>2, <1>3, <1>4, <1>5, <1>6 DEF Finished

\* A step of a session leaves the invariant to the main program.
LEMMA SessionMoves ==
    ASSUME MInv, [Next]_vars, UNCHANGED <<accounts, cur_account, past>>
    PROVE  /\ IInv' /\ PInv' /\ cfg' = cfg /\ drop' = drop
           /\ \A a \in DOMAIN past' : Finished(cfg'.test_mode, past'[a])
           /\ LogInv(Prefs', msg_ids', Logs')
<1>1. /\ IInv /\ Core /\ PInv /\ MainTypeOK
      /\ past \in Seq(Past) /\ LogInv(Prefs, msg_ids, Logs)
  BY DEF MInv, IInv
<1>2. IInv' BY <1>1, NextIInv
<1>3. PInv' BY <1>1, <1>2, NextPInv DEF IInv
<1>4. cfg' = cfg /\ drop' = drop /\ Prefs' = Prefs BY Chosen DEF Prefs
<1>5. \A a \in DOMAIN past' : Finished(cfg'.test_mode, past'[a]) BY <1>4 DEF MInv
<1>6. Logs' = [a \in 1..cur_account |-> IF a < cur_account THEN past[a].judged ELSE judged']
  <2>1. (Logs = [a \in 1..cur_account |-> IF a < cur_account THEN past[a].judged ELSE judged])'
    BY LogsForm, PTL
  <2> QED BY <2>1
<1>7. ASSUME Weed PROVE LogInv(Prefs', msg_ids', Logs')
  <2>1. PICK h : h = [entries |-> Parsed, size |-> size] OBVIOUS
  <2>2. PICK c : c = cur_account OBVIOUS
  <2>3. PICK L : L = Logs OBVIOUS
  <2>4. PICK M : M = Logs' OBVIOUS
  <2>5. PICK k : k = msg OBVIOUS
  <2>6. PICK N : N = msg_ids' OBVIOUS
  <2>7. /\ k \in Nat \ {0} /\ DOMAIN judged = 1..(k - 1) /\ DOMAIN judged' = 1..k
        /\ \A j \in 1..(k - 1) : judged'[j] = judged[j]
        /\ judged'[k] = [header |-> h, weed |-> is_weed(Prefs, msg_ids, h)]
    BY <1>1, <1>7, <2>1, <2>5, WeedJudges DEF Prefs
  <2>8. N = Remember(Prefs, msg_ids, h) BY <1>7, <2>1, <2>6 DEF Weed, Prefs
  <2>9. c \in Nat \ {0} /\ DOMAIN L = 1..c /\ DOMAIN M = 1..c
    BY <1>1, <1>6, <2>2, <2>3, <2>4, LogsFacts
  <2>10. L[c] = judged /\ M[c] = judged' /\ \A a \in 1..(c - 1) : M[a] = L[a]
    <3>1. \A a \in 1..(c - 1) : L[a] = past[a].judged BY <1>1, <2>2, <2>3, LogsFacts
    <3>2. L[c] = judged BY <1>1, <2>2, <2>3, LogsFacts
    <3>3. M = [a \in 1..c |-> IF a < c THEN past[a].judged ELSE judged'] BY <1>6, <2>2, <2>4
    <3>4. c \in 1..c /\ ~(c < c) /\ \A a \in 1..(c - 1) : a \in 1..c /\ a < c BY <2>9
    <3>5. M[c] = judged' BY <3>3, <3>4
    <3>6. \A a \in 1..(c - 1) : M[a] = past[a].judged BY <3>3, <3>4
    <3> QED BY <3>1, <3>2, <3>5, <3>6
  <2>11. LogInv(Prefs, msg_ids, L) BY <1>1, <2>3
  <2>12. /\ DOMAIN L[c] = 1..(k - 1) /\ DOMAIN M[c] = 1..k /\ \A j \in 1..(k - 1) : M[c][j] = L[c][j]
         /\ M[c][k] = [header |-> h, weed |-> is_weed(Prefs, msg_ids, h)]
    BY <2>7, <2>10
  <2>13. LogInv(Prefs, N, M) BY <2>7, <2>8, <2>9, <2>10, <2>11, <2>12, LogGrows
  <2> QED BY <1>4, <2>4, <2>6, <2>13
<1>8. ASSUME ~Weed PROVE LogInv(Prefs', msg_ids', Logs')
  <2>1. judged' = judged /\ msg_ids' = msg_ids
    BY <1>1, <1>8, StepKinds, IdleFacts, WriteFacts, ServeFrame DEF Open, vars, clientVars
  <2>2. Logs' = Logs BY <1>6, <2>1, LogsForm
  <2> QED BY <1>1, <1>4, <2>1, <2>2
<1> QED BY <1>2, <1>3, <1>4, <1>5, <1>7, <1>8

----------------------------------------------------------------------------
\* A fresh session satisfies what every session does.
LEMMA FreshSession == Fresh' => IInv' /\ PInv'
<1>1. Fresh => IInv /\ PInv BY FreshIInv, FreshPInv
<1> QED BY <1>1, PTL

\* A step within an account.
LEMMA SameAccount ==
    ASSUME MInv, [Next]_vars, UNCHANGED <<accounts, cur_account, past>>,
           return_val' \in {0, -1}, phase' \in {"start", "run", "exit", "told"}, exit_status' \in 0..255,
           Tally'
    PROVE  MInv'
<1>1. /\ IInv' /\ PInv' /\ cfg' = cfg /\ drop' = drop
      /\ \A a \in DOMAIN past' : Finished(cfg'.test_mode, past'[a])
      /\ LogInv(Prefs', msg_ids', Logs')
  BY SessionMoves
<1>2. TypeOK' BY <1>1 DEF IInv, Core
<1>3. MainTypeOK' BY <1>2 DEF MInv, MainTypeOK
<1>4. /\ cfg' = accounts'[cur_account'].cfg /\ drop' = accounts'[cur_account'].drop
      /\ past' \in Seq(Past)
  BY <1>1 DEF MInv
<1> QED BY <1>1, <1>3, <1>4 DEF MInv

\* The accounts of a run share their preferences.
LEMMA AccountFacts ==
    ASSUME MainTypeOK, NEW a \in 1..Len(accounts), NEW b \in 1..Len(accounts)
    PROVE  /\ accounts[a].cfg \in Configs /\ accounts[a].drop \in Maildrops
           /\ accounts[a].cfg.prefs = accounts[b].cfg.prefs
           /\ accounts[a].cfg.test_mode = accounts[b].cfg.test_mode
           /\ accounts[a].cfg.return_status = accounts[b].cfg.return_status
<1>1. accounts \in Seq(Account) /\ DOMAIN accounts = 1..Len(accounts)
  BY AccountsAssumption DEF MainTypeOK
<1>2. accounts[a] \in Account BY <1>1
<1>3. \A u \in Accounts : \A c, d \in DOMAIN u :
          /\ u[c].cfg.prefs = u[d].cfg.prefs /\ u[c].cfg.test_mode = u[d].cfg.test_mode
          /\ u[c].cfg.return_status = u[d].cfg.return_status
  BY AccountsAssumption
<1> QED BY <1>1, <1>2, <1>3 DEF MainTypeOK, Account

\* The next account.
LEMMA NextAccountStep ==
    ASSUME MInv, NextAccount PROVE MInv'
<1>1. /\ MainTypeOK /\ IInv /\ PInv /\ past \in Seq(Past) /\ LogInv(Prefs, msg_ids, Logs) /\ Tally
      /\ cfg = accounts[cur_account].cfg /\ drop = accounts[cur_account].drop
      /\ \A a \in DOMAIN past : Finished(cfg.test_mode, past[a])
  BY DEF MInv
<1>2. PICK c : c = cur_account OBVIOUS
<1>3. /\ c \in Nat \ {0} /\ c \in 1..Len(accounts) /\ c + 1 \in 1..Len(accounts) /\ Len(accounts) \in Nat
      /\ accounts' = accounts /\ cur_account' = c + 1 /\ DOMAIN accounts = 1..Len(accounts)
  <2>1. c \in Nat \ {0} /\ accounts \in Seq(Account) /\ c \in 1..Len(accounts)
    BY <1>1, <1>2, LogsFacts
  <2>2. c < Len(accounts) /\ accounts' = accounts /\ cur_account' = c + 1
    BY <1>2 DEF NextAccount, Advance
  <2> QED BY <2>1, <2>2
<1>4. /\ cfg' = accounts[c + 1].cfg /\ drop' = accounts[c + 1].drop
      /\ cfg' \in Configs /\ drop' \in Maildrops
      /\ Prefs' = Prefs /\ cfg'.test_mode = cfg.test_mode
  <2>1. cfg' = accounts[c + 1].cfg /\ drop' = accounts[c + 1].drop
    BY <1>2 DEF NextAccount, Advance, Begin
  <2> QED BY <1>1, <1>2, <1>3, <2>1, AccountFacts DEF Prefs
<1>5. IInv' /\ PInv'
  <2>1. mailbox_status' = mailbox_status /\ msg_ids' = msg_ids
    BY DEF NextAccount, Advance, Begin
  <2>2. mailbox_status' \in Nat /\ msg_ids' \subseteq Body BY <1>1, <2>1 DEF MainTypeOK, TypeOK
  <2>3. Fresh' BY <1>4, <2>2 DEF Fresh, NextAccount, Advance, Begin, All
  <2> QED BY <2>3, FreshSession
<1>6. PICK o : o = Outcome OBVIOUS
<1>7. o \in Past /\ Finished(cfg.test_mode, o)
  <2>1. pc = "done" /\ server \in {"listen", "closed"} BY DEF NextAccount, Advance, Returned
  <2>2. Finished(cfg.test_mode, o) BY <1>1, <1>6, <2>1, ReturnedFinished
  <2>3. result \in {"ok", "error"} BY <1>1, <2>1 DEF PInv, Returns, MainTypeOK, TypeOK
  <2>4. drop \in Maildrops /\ judged \in Seq(Judgement) BY <1>1 DEF MainTypeOK, TypeOK, Judgement
  <2>5. mailbox \in SUBSET Nat
    <3>1. drop \in Seq(Header) BY <2>4, SessionAssumption
    <3> QED BY <1>1, <3>1 DEF MainTypeOK, TypeOK, All
  <2>6. cfg.faults \in SUBSET Fault
    <3>1. cfg \in Config BY <1>1, SessionAssumption DEF MainTypeOK, TypeOK
    <3> QED BY <3>1 DEF Config
  <2> QED BY <1>6, <2>2, <2>3, <2>4, <2>5, <2>6 DEF Past, Outcome
<1>8. /\ past' \in Seq(Past) /\ DOMAIN past' = 1..c /\ past'[c] = o /\ Len(past') = c
      /\ DOMAIN past = 1..(c - 1) /\ \A a \in 1..(c - 1) : past'[a] = past[a]
  <2>1. DOMAIN past = 1..(c - 1) /\ Len(past) = c - 1 BY <1>1, <1>2, LogsFacts DEF MainTypeOK
  <2>2. past' = Append(past, o) BY <1>6 DEF NextAccount, Advance
  <2>3. Len(past) \in Nat BY <1>1
  <2> QED BY <1>1, <1>3, <1>7, <2>1, <2>2, <2>3
<1>9. \A a \in 1..c : a = c \/ a \in 1..(c - 1) BY <1>3
<1>10. \A a \in DOMAIN past' : Finished(cfg'.test_mode, past'[a])
  BY <1>1, <1>4, <1>7, <1>8, <1>9
<1>11. LogInv(Prefs', msg_ids', Logs')
  <2>1. (Logs = [a \in 1..cur_account |-> IF a < cur_account THEN past[a].judged ELSE judged])'
    BY LogsForm, PTL
  <2>2. PICK L : L = Logs OBVIOUS
  <2>3. PICK M : M = Logs' OBVIOUS
  <2>4. judged' = <<>> /\ msg_ids' = msg_ids BY DEF NextAccount, Advance, Begin
  <2>5. M = [a \in 1..(c + 1) |-> IF a < c + 1 THEN past'[a].judged ELSE <<>>]
    BY <1>3, <2>1, <2>3, <2>4
  <2>6. DOMAIN L = 1..c /\ \A a \in 1..c : L[a] = past'[a].judged
    <3>1. DOMAIN L = 1..c /\ L[c] = judged /\ \A a \in 1..(c - 1) : L[a] = past[a].judged
      BY <1>1, <1>2, <2>2, LogsFacts
    <3>2. o.judged = judged BY <1>6 DEF Outcome
    <3> QED BY <1>8, <1>9, <3>1, <3>2
  <2>7. DOMAIN M = 1..(c + 1) /\ M[c + 1] = <<>> /\ \A a \in 1..c : M[a] = past'[a].judged
    <3>1. c + 1 \in 1..(c + 1) /\ ~(c + 1 < c + 1) /\ \A a \in 1..c : a \in 1..(c + 1) /\ a < c + 1
      BY <1>3
    <3> QED BY <2>5, <3>1
  <2>8. DOMAIN M[c + 1] = {} BY <2>7
  <2>9. LogInv(Prefs, msg_ids, L) BY <1>1, <2>2
  <2>10. LogInv(Prefs, msg_ids, M)
    <3>1. c \in Nat /\ \A a \in 1..c : M[a] = L[a] BY <1>3, <2>6, <2>7
    <3> QED BY <2>6, <2>7, <2>8, <2>9, <3>1, LogStarts
  <2> QED BY <1>4, <2>3, <2>4, <2>10
<1>12. Tally'
  <2>1. phase = "run" /\ phase' = "run" BY DEF NextAccount, Advance, Returned
  <2>2. return_val' = 0 => return_val = 0 /\ result # "error" BY DEF NextAccount, KeepResult
  <2>3. o.result = result /\ o.result \in {"ok", "error"} BY <1>6, <1>7 DEF Outcome, Past
  <2>4. return_val' = 0 => \A a \in 1..c : past'[a].result = "ok"
    BY <1>1, <1>8, <1>9, <2>1, <2>2, <2>3 DEF Tally
  <2> QED BY <1>8, <2>1, <2>4 DEF Tally
<1>13. MainTypeOK'
  <2>1. return_val' \in {0, -1} BY <1>1 DEF NextAccount, KeepResult, MainTypeOK
  <2>2. TypeOK' BY <1>5 DEF IInv, Core
  <2>3. Len(past') = cur_account' - 1 BY <1>3, <1>8
  <2> QED BY <1>1, <1>3, <2>1, <2>2, <2>3 DEF MainTypeOK, NextAccount, Advance
<1> QED BY <1>3, <1>4, <1>5, <1>8, <1>10, <1>11, <1>12, <1>13 DEF MInv

\* What the eight bits of an exit status make of 0, -1 and a count.
LEMMA StatusFacts ==
    Status8(-1) = 255 /\ Status8(0) = 0 /\ \A n \in Nat : Status8(n) \in 0..255
<1>1. \A x \in Int : x % 256 \in 0..255 OBVIOUS
<1>2. \A x \in Int : \E q \in Int : x = 256 * q + (x % 256) OBVIOUS
<1>3. PICK m : m = -1 OBVIOUS
<1>4. m \in Int BY <1>3
<1>5. PICK r : r = m % 256 OBVIOUS
<1>6. PICK q \in Int : m = 256 * q + r BY <1>2, <1>4, <1>5
<1>7. r \in 0..255 BY <1>1, <1>4, <1>5
<1>8. r = 255 BY <1>3, <1>6, <1>7
<1>9. 0 % 256 = 0 OBVIOUS
<1> QED BY <1>1, <1>3, <1>5, <1>8, <1>9 DEF Status8

\* The first account.
LEMMA InitMInv == MainInit => MInv
<1> SUFFICES ASSUME MainInit PROVE MInv
  OBVIOUS
<1>1. /\ accounts \in Accounts /\ cur_account = 1 /\ past = <<>> /\ return_val = 0
      /\ phase = "start" /\ exit_status = 0 /\ msg_ids = {} /\ judged = <<>>
  BY DEF MainInit, Init
<1>2. 1 \in DOMAIN accounts BY <1>1, AccountsAssumption
<1>3. IInv /\ PInv BY InitIInv, InitPInv DEF MainInit
<1>4. MainTypeOK BY <1>1, <1>2, <1>3 DEF MainTypeOK, IInv, Core
<1>5. past \in Seq(Past) /\ DOMAIN past = {} BY <1>1
<1>6. LogInv(Prefs, msg_ids, Logs)
  <2>1. \A a \in DOMAIN Logs : DOMAIN Logs[a] = {}
    <3>1. DOMAIN Logs = 1..1 /\ Logs[1] = <<>> BY <1>1, <1>4, <1>5, LogsFacts
    <3>2. DOMAIN <<>> = {} OBVIOUS
    <3>3. \A a \in 1..1 : a = 1 OBVIOUS
    <3> QED BY <3>1, <3>2, <3>3
  <2> QED BY <1>1, <2>1 DEF LogInv, Remembered, Attested, Founded, NoCopyPasses
<1>7. Tally BY <1>1, <1>5 DEF Tally
<1> QED BY <1>1, <1>3, <1>4, <1>5, <1>6, <1>7 DEF MInv, MainInit

\* Every step.
LEMMA NextMInv == MInv /\ [MainNext]_allVars => MInv'
<1> SUFFICES ASSUME MInv, [MainNext]_allVars PROVE MInv'
  OBVIOUS
<1>1. MainTypeOK /\ IInv /\ PInv /\ Tally BY DEF MInv
<1>2. return_val \in {0, -1} /\ phase \in {"start", "run", "exit", "told"} /\ exit_status \in 0..255
  BY <1>1 DEF MainTypeOK
<1>3. CASE Start
  <2>1. /\ [Next]_vars /\ UNCHANGED <<accounts, cur_account, past>> /\ return_val' = return_val
        /\ phase = "start" /\ phase' = "run" /\ exit_status' = exit_status
    BY <1>3 DEF Start
  <2>2. Tally' BY <1>1, <2>1 DEF Tally
  <2> QED BY <1>2, <2>1, <2>2, SameAccount
<1>4. CASE StartFails
  <2>1. /\ [Next]_vars /\ UNCHANGED <<accounts, cur_account, past>> /\ return_val' = return_val
        /\ phase' = "exit" /\ exit_status' = 255
    BY <1>4, StatusFacts DEF StartFails
  <2>2. Tally' BY <2>1 DEF Tally
  <2> QED BY <1>2, <2>1, <2>2, SameAccount
<1>5. CASE Check
  <2>1. /\ [Next]_vars /\ UNCHANGED <<accounts, cur_account, past>> /\ return_val' = return_val
        /\ phase = "run" /\ phase' = phase /\ exit_status' = exit_status
    BY <1>5 DEF Check, Next, mainVars
  <2>2. Tally' BY <1>1, <2>1 DEF Tally
  <2> QED BY <1>2, <2>1, <2>2, SameAccount
<1>6. CASE NextAccount BY <1>6, NextAccountStep
<1>7. CASE Return
  <2>1. /\ [Next]_vars /\ UNCHANGED <<accounts, cur_account, past, cfg, result, mailbox_status>>
        /\ phase = "run" /\ pc = "done" /\ phase' = "exit" /\ cur_account = Len(accounts)
    BY <1>7 DEF Return, Returned, vars, configuration, clientVars
  <2>2. return_val' \in {0, -1} /\ (return_val' = 0 => return_val = 0 /\ result # "error")
    BY <1>2, <1>7 DEF Return, KeepResult
  <2>3. mailbox_status \in Nat /\ result \in {"none", "ok", "error"} BY <1>1 DEF MainTypeOK, TypeOK
  <2>4. exit_status' = IF cfg.return_status THEN Status8(mailbox_status) ELSE Status8(return_val')
    BY <1>7 DEF Return
  <2>5. exit_status' \in 0..255
    <3>1. Status8(return_val') \in 0..255
      <4>1. CASE return_val' = 0 BY <4>1, StatusFacts
      <4>2. CASE return_val' = -1 BY <4>2, StatusFacts
      <4> QED BY <2>2, <4>1, <4>2
    <3> QED BY <2>3, <2>4, <3>1, StatusFacts
  <2>6. ~cfg.return_status /\ exit_status' = 0 => return_val' = 0
    <3> SUFFICES ASSUME ~cfg.return_status, exit_status' = 0, return_val' # 0 PROVE FALSE
      OBVIOUS
    <3>1. return_val' = -1 BY <2>2
    <3> QED BY <2>4, <3>1, StatusFacts
  <2>7. result # "none" BY <1>1, <2>1 DEF PInv, Returns
  <2>8. Tally' BY <1>1, <2>1, <2>2, <2>3, <2>6, <2>7 DEF Tally
  <2> QED BY <1>2, <2>1, <2>2, <2>5, <2>8, SameAccount
<1>8. CASE Die
  <2>1. /\ [Next]_vars /\ UNCHANGED <<accounts, cur_account, past>> /\ return_val' = return_val
        /\ phase' = "exit" /\ exit_status' \in {255, 141}
    BY <1>8, StatusFacts DEF Die, Killed
  <2>2. Tally' BY <2>1 DEF Tally
  <2>3. exit_status' \in 0..255 BY <2>1
  <2> QED BY <1>2, <2>1, <2>2, <2>3, SameAccount
<1>9. CASE Outlive
  <2>1. /\ [Next]_vars /\ UNCHANGED <<accounts, cur_account, past>> /\ return_val' = return_val
        /\ phase' = phase /\ exit_status' = exit_status
        /\ phase = "exit" /\ (Serve \/ Ends)
    BY <1>9 DEF Outlive, Next, FaultNext, ServerNext, NetworkNext, Serve, Ends, mainVars
  <2>2. cfg' = cfg /\ result' = result BY <2>1, ServeFrame
  <2>3. Tally' BY <1>1, <2>1, <2>2 DEF Tally
  <2> QED BY <1>2, <2>1, <2>3, SameAccount
<1>10. CASE Exited \/ UNCHANGED allVars
  <2>1. UNCHANGED vars /\ UNCHANGED mainVars BY <1>10 DEF Exited, allVars
  <2>2. /\ [Next]_vars /\ UNCHANGED <<accounts, cur_account, past>> /\ return_val' = return_val
        /\ phase' = phase /\ exit_status' = exit_status /\ cfg' = cfg /\ result' = result
    BY <2>1 DEF mainVars, vars, configuration, clientVars
  <2>3. Tally' BY <1>1, <2>2 DEF Tally
  <2> QED BY <1>2, <2>2, <2>3, SameAccount
<1>11. CASE Informs
  <2>1. /\ [Next]_vars /\ UNCHANGED <<accounts, cur_account, past>> /\ return_val' = return_val
        /\ phase = "start" /\ phase' = "told" /\ exit_status' = 0
    BY <1>11 DEF Informs
  <2>2. Tally' BY <1>1, <2>1 DEF Tally
  <2>3. exit_status' \in 0..255 BY <2>1
  <2> QED BY <1>2, <2>1, <2>2, <2>3, SameAccount
<1> QED BY <1>3, <1>4, <1>5, <1>6, <1>7, <1>8, <1>9, <1>10, <1>11 DEF MainNext

\* In every account the session keeps its own invariants, and msg_ids are what the headers
\* judged so far say.
THEOREM MainInvariance == MainSpec => []MInv
BY InitMInv, NextMInv, PTL DEF MainSpec

\* The state of a run has its types.
THEOREM MainTypes == MainSpec => []MainTypeOK
<1>1. MInv => MainTypeOK BY DEF MInv
<1> QED BY <1>1, MainInvariance, PTL

----------------------------------------------------------------------------
\* What is left of every account so far, the one at hand included.
LEMMA LostCondemned ==
    ASSUME MInv, NEW a \in 1..cur_account
    PROVE  /\ DOMAIN At(a).judged \subseteq DOMAIN At(a).drop
           /\ \A k \in DOMAIN At(a).drop \ At(a).mailbox :
                 k \in DOMAIN At(a).judged /\ At(a).judged[k].weed = 1
<1>1. /\ At(cur_account) = Outcome /\ DOMAIN past = 1..(cur_account - 1) /\ cur_account \in Nat
      /\ \A b \in 1..(cur_account - 1) : At(b) = past[b]
  BY LogsFacts DEF MInv
<1>2. CASE a \in 1..(cur_account - 1)
  BY <1>1, <1>2 DEF MInv, Finished
<1>3. CASE a = cur_account
  <2>1. /\ Outcome.judged = judged /\ Outcome.drop = drop /\ Outcome.mailbox = mailbox
    BY DEF Outcome
  <2>2. DOMAIN judged \subseteq DOMAIN drop BY DEF MInv, IInv, Core, OwnHeader, All
  <2>3. \A k \in DOMAIN drop \ mailbox : k \in DOMAIN judged /\ judged[k].weed = 1
    <3>1. All \ mailbox \subseteq Doomed BY DEF MInv, IInv, Core, Deletion
    <3> QED BY <3>1 DEF Doomed, Condemned, All
  <2> QED BY <1>1, <1>3, <2>1, <2>2, <2>3
<1> QED BY <1>1, <1>2, <1>3

\* Whatever the accounts, the order in which they are checked and what fails in them: a
\* message goes because the rules condemn it, or because a copy of it examined earlier is
\* still in its mailbox or was condemned by the rules.
THEOREM CopiesSurvive == MainSpec => []CopySurvives
<1>1. MInv => CopySurvives
  <2> SUFFICES ASSUME MInv, NEW a \in Begun, NEW m \in DOMAIN At(a).drop \ At(a).mailbox,
                      ~WeedByRules(Prefs, HeaderIn(a, m))
               PROVE  /\ Prefs.del_duplicates
                      /\ \E b \in 1..a : \E n \in JudgedIn(b) :
                            /\ EarlierCopy(b, n, a, m)
                            /\ n \in At(b).mailbox \/ WeedByRules(Prefs, HeaderIn(b, n))
    BY DEF CopySurvives
  <2>1. /\ a \in 1..cur_account /\ cur_account \in Nat /\ DOMAIN Logs = 1..cur_account
        /\ \A c \in 1..cur_account : Logs[c] = At(c).judged
    BY LogsFacts DEF MInv, Begun
  <2>2. m \in DOMAIN At(a).judged /\ At(a).judged[m].weed = 1 BY <2>1, LostCondemned
  <2>3. m \in DOMAIN Logs[a] /\ Logs[a][m].weed = 1 /\ ~WeedByRules(Prefs, Logs[a][m].header)
    BY <2>1, <2>2 DEF HeaderIn
  <2>4. Founded(Prefs, Logs) BY DEF MInv, LogInv
  <2>5. /\ Prefs.del_duplicates
        /\ \E b \in 1..a : \E n \in DOMAIN Logs[b] :
              Repeats(Logs, b, n, a, m) /\ Original(Prefs, Logs[b][n])
    BY <2>1, <2>3, <2>4 DEF Founded
  <2>6. PICK b \in 1..a : \E n \in DOMAIN Logs[b] :
              Repeats(Logs, b, n, a, m) /\ Original(Prefs, Logs[b][n])
    BY <2>5
  <2>7. PICK n \in DOMAIN Logs[b] : Repeats(Logs, b, n, a, m) /\ Original(Prefs, Logs[b][n])
    BY <2>6
  <2>8. b \in 1..cur_account BY <2>1
  <2>9. Logs[a] = At(a).judged /\ Logs[b] = At(b).judged BY <2>1, <2>8
  <2>10. n \in JudgedIn(b) BY <2>9 DEF JudgedIn
  <2>11. EarlierCopy(b, n, a, m) BY <2>7, <2>9 DEF EarlierCopy, Repeats, HeaderIn
  <2>12. At(b).judged[n].weed # 1 \/ WeedByRules(Prefs, HeaderIn(b, n))
    BY <2>7, <2>9 DEF Original, HeaderIn
  <2>13. n \in At(b).mailbox \/ WeedByRules(Prefs, HeaderIn(b, n))
    BY <2>8, <2>10, <2>12, LostCondemned DEF JudgedIn
  <2> QED BY <2>5, <2>10, <2>11, <2>13
<1> QED BY <1>1, MainInvariance, PTL

\* An account that was checked without an error or a failure holds no copy of a message
\* examined earlier, in whichever account.
THEOREM NoSecondCopyLeft == MainSpec => []OneCopyLeft
<1>1. MInv => OneCopyLeft
  <2> SUFFICES ASSUME MInv, Prefs.del_duplicates, NEW a \in Begun, Clean(a),
                      NEW m \in JudgedIn(a) \intersect At(a).mailbox, NEW b \in 1..a,
                      NEW n \in JudgedIn(b), EarlierCopy(b, n, a, m)
               PROVE  FALSE
    BY DEF OneCopyLeft
  <2>1. /\ a \in 1..cur_account /\ cur_account \in Nat /\ DOMAIN Logs = 1..cur_account
        /\ \A c \in 1..cur_account : Logs[c] = At(c).judged
        /\ At(cur_account) = Outcome /\ DOMAIN past = 1..(cur_account - 1)
        /\ \A c \in 1..(cur_account - 1) : At(c) = past[c]
    BY LogsFacts DEF MInv, Begun
  <2>2. b \in 1..cur_account BY <2>1
  <2>3. Logs[a] = At(a).judged /\ Logs[b] = At(b).judged BY <2>1, <2>2
  <2>4. Repeats(Logs, b, n, a, m) BY <2>3 DEF EarlierCopy, Repeats, HeaderIn
  <2>5. m \in DOMAIN Logs[a] /\ n \in DOMAIN Logs[b] BY <2>3 DEF JudgedIn
  <2>6. NoCopyPasses(Prefs, Logs) BY DEF MInv, LogInv
  <2>7. At(a).judged[m].weed = 1 BY <2>1, <2>3, <2>4, <2>5, <2>6 DEF NoCopyPasses
  <2>8. Finished(cfg.test_mode, At(a))
    <3>1. CASE a \in 1..(cur_account - 1) BY <2>1, <3>1 DEF MInv
    <3>2. CASE a = cur_account
      <4>1. IInv /\ PInv BY DEF MInv
      <4>2. server = "closed" /\ Outcome.result = "ok" BY <2>1, <3>2 DEF Clean
      <4>3. result = "ok" BY <4>2 DEF Outcome
      <4>4. pc = "done" BY <4>1, <4>3 DEF PInv, Returns
      <4> QED BY <2>1, <3>2, <4>1, <4>2, <4>4, ReturnedFinished
    <3> QED BY <2>1, <3>1, <3>2
  <2>9. m \notin At(a).mailbox BY <2>5, <2>3, <2>7, <2>8 DEF Finished, Clean
  <2> QED BY <2>9
<1> QED BY <1>1, MainInvariance, PTL

\* A run that ends with status 0 has checked every account without an error and examined
\* every message of all of them.
THEOREM ZeroSucceeds == MainSpec => []ZeroIsSuccess
<1>1. MInv => ZeroIsSuccess
  <2> SUFFICES ASSUME MInv, phase = "exit", exit_status = 0, ~cfg.return_status
               PROVE  /\ cur_account = Len(accounts)
                      /\ \A a \in Begun :
                            /\ At(a).result = "ok"
                            /\ At(a).faults \intersect {"split", "sslempty"} = {}
                                  => JudgedIn(a) = DOMAIN At(a).drop
    BY DEF ZeroIsSuccess
  <2>1. /\ cur_account = Len(accounts) /\ result = "ok"
        /\ \A a \in DOMAIN past : past[a].result = "ok"
    BY DEF MInv, Tally
  <2>2. /\ cur_account \in Nat /\ At(cur_account) = Outcome /\ DOMAIN past = 1..(cur_account - 1)
        /\ \A c \in 1..(cur_account - 1) : At(c) = past[c]
    BY LogsFacts DEF MInv
  <2>3. ASSUME NEW a \in 1..(cur_account - 1)
        PROVE  /\ At(a).result = "ok"
               /\ At(a).faults \intersect {"split", "sslempty"} = {} => JudgedIn(a) = DOMAIN At(a).drop
    BY <2>1, <2>2 DEF MInv, Finished, JudgedIn
  <2>4. /\ Outcome.result = "ok"
        /\ Outcome.faults \intersect {"split", "sslempty"} = {} =>
              DOMAIN Outcome.judged = DOMAIN Outcome.drop
    <3>1. ScanIsComplete BY PromptExamines DEF MInv
    <3>2. /\ Outcome.judged = judged /\ Outcome.drop = drop
          /\ Outcome.result = result /\ Outcome.faults = cfg.faults
      BY DEF Outcome
    <3> QED BY <2>1, <3>1, <3>2 DEF ScanIsComplete, AllExamined, Prompt, All
  <2>5. \A a \in Begun : a = cur_account \/ a \in 1..(cur_account - 1) BY <2>2 DEF Begun
  <2> QED BY <2>1, <2>2, <2>3, <2>4, <2>5 DEF JudgedIn
<1> QED BY <1>1, MainInvariance, PTL

----------------------------------------------------------------------------
(***************************************************************************)
(* The program implements Purges.                                          *)
(***************************************************************************)

\* A step belongs to the session at hand, or begins the next.
LEMMA RunKinds ==
    ASSUME [MainNext]_allVars
    PROVE  NextAccount \/ ([Next]_vars /\ UNCHANGED <<accounts, cur_account, past>>)
<1>1. CASE Start \/ StartFails \/ Informs \/ Return \/ Die
  BY <1>1 DEF Start, StartFails, Informs, Return, Die
<1>2. CASE Check BY <1>2 DEF Check, Next, mainVars
<1>3. CASE Outlive BY <1>3 DEF Outlive, Next, FaultNext, mainVars
<1>4. CASE Exited \/ UNCHANGED allVars BY <1>4 DEF Exited, allVars, mainVars
<1> QED BY <1>1, <1>2, <1>3, <1>4 DEF MainNext

\* The account at hand.
LEMMA AtHand ==
    MInv => /\ At(cur_account) = Outcome /\ cur_account \in Begun
            /\ cfg = accounts[cur_account].cfg /\ drop = Mail(cur_account)
            /\ cur_account \in 1..Len(accounts) /\ DOMAIN accounts = 1..Len(accounts)
            /\ Outcome.drop = drop /\ Outcome.judged = judged /\ Outcome.mailbox = mailbox
<1> SUFFICES ASSUME MInv PROVE /\ At(cur_account) = Outcome /\ cur_account \in Begun
                               /\ cfg = accounts[cur_account].cfg /\ drop = Mail(cur_account)
                               /\ cur_account \in 1..Len(accounts)
                               /\ DOMAIN accounts = 1..Len(accounts)
  BY DEF Outcome
<1> QED BY LogsFacts DEF MInv, Begun, Mail

\* The accounts that are over stay what they are.
LEMMA PastKept ==
    ASSUME MInv, UNCHANGED <<accounts, cur_account, past>>
    PROVE  \A a \in Begun : a # cur_account => At(a)' = At(a)
<1>1. cur_account \in Nat BY LogsFacts DEF MInv
<1>2. \A a \in Begun : a # cur_account => a < cur_account BY <1>1 DEF Begun
<1> QED BY <1>2 DEF At

\* What is chosen once for the whole run.
LEMMA RunChosen ==
    ASSUME MInv, MInv', [MainNext]_allVars
    PROVE  /\ accounts' = accounts /\ Prefs' = Prefs /\ cfg'.test_mode = cfg.test_mode
           /\ (AllWhole' <=> AllWhole) /\ Junk' = Junk /\ Copies' = Copies
<1>1. accounts' = accounts BY RunKinds DEF NextAccount, Advance
<1>2. /\ cfg = accounts[cur_account].cfg /\ cfg' = accounts[cur_account'].cfg
      /\ cur_account \in 1..Len(accounts) /\ cur_account' \in 1..Len(accounts)
  <2>1. (MInv => cfg = accounts[cur_account].cfg /\ cur_account \in 1..Len(accounts))'
    BY AtHand, PTL
  <2> QED BY <1>1, <2>1, AtHand
<1>3. Prefs' = Prefs /\ cfg'.test_mode = cfg.test_mode
  BY <1>2, AccountFacts DEF Prefs, MInv
<1>4. \A a : Mail(a)' = Mail(a) BY <1>1 DEF Mail
<1>5. AllWhole' <=> AllWhole BY <1>1, <1>4, Zenon DEF AllWhole
<1>6. Junk' = Junk BY <1>1, <1>3, <1>4, <1>5, Zenon DEF Junk
<1>7. Place' = Place BY <1>1, <1>4, Zenon DEF Place
<1>8. Copies' = Copies BY <1>3, <1>4, <1>7, Zenon DEF Copies
<1> QED BY <1>1, <1>3, <1>5, <1>6, <1>8

\* The session at hand is one of those whose headers arrive whole.
LEMMA WholeAtHand ==
    ASSUME MInv, AllWhole PROVE Whole
<1>1. cur_account \in DOMAIN accounts BY DEF MInv, MainTypeOK
<1> QED BY <1>1 DEF AllWhole, Whole, Mail, MInv

\* A step of the session at hand.
LEMMA OwnMailMoves ==
    ASSUME MInv, MInv', OwnMail, [MainNext]_allVars,
           [Next]_vars, UNCHANGED <<accounts, cur_account, past>>
    PROVE  OwnMail'
<1>1. /\ accounts' = accounts /\ cur_account' = cur_account /\ Begun' = Begun
      /\ cfg' = cfg /\ drop' = drop /\ (AllWhole' <=> AllWhole)
  BY RunChosen, Chosen DEF Begun
<1>2. \A a : Mail(a)' = Mail(a) BY <1>1 DEF Mail
<1>3. /\ \A a \in Begun : a # cur_account => At(a)' = At(a)
      /\ At(cur_account) = Outcome /\ At(cur_account)' = Outcome' /\ cur_account \in Begun
  <2>1. (MInv => At(cur_account) = Outcome)' BY AtHand, PTL
  <2>2. At(cur_account)' = Outcome' BY <2>1
  <2> QED BY <2>2, AtHand, PastKept
<1>4. /\ Outcome.drop = drop /\ Outcome.judged = judged
      /\ Outcome'.drop = drop' /\ Outcome'.judged = judged'
  BY DEF Outcome
<1>5. \A a \in Begun : At(a)'.drop = Mail(a)
  <2>1. \A a \in Begun : At(a).drop = Mail(a) BY DEF OwnMail
  <2>2. At(cur_account)'.drop = At(cur_account).drop BY <1>1, <1>3, <1>4
  <2> QED BY <1>3, <2>1, <2>2
<1>6. ASSUME AllWhole
      PROVE  Uncut' /\ \A a \in Begun : OwnOrEmpty(accounts[a].cfg, Mail(a), At(a)'.judged)
  <2>1. Whole /\ Core /\ Core' /\ PInv /\ Uncut BY <1>6, WholeAtHand DEF MInv, IInv, OwnMail
  <2>2. Uncut' BY <2>1, NextUncut DEF PInv
  <2>3. \A a \in Begun : OwnOrEmpty(accounts[a].cfg, Mail(a), At(a).judged) BY <1>6 DEF OwnMail
  <2>4. accounts[cur_account].cfg = cfg /\ Mail(cur_account) = drop BY DEF MInv, Mail
  <2>5. OwnOrEmpty(cfg, drop, judged) BY <1>3, <1>4, <2>3, <2>4
  <2>6. OwnOrEmpty(cfg, drop, judged')
    <3>1. CASE Weed
      <4>1. PICK h : h = [entries |-> Parsed, size |-> size] OBVIOUS
      <4>2. /\ msg \in Nat \ {0} /\ msg \in All
            /\ DOMAIN judged = 1..(msg - 1) /\ DOMAIN judged' = 1..msg
            /\ \A k \in 1..(msg - 1) : judged'[k] = judged[k]
            /\ judged'[msg].header = h
        BY <2>1, <3>1, <4>1, WeedJudges
      <4>3. Parsed = drop[msg].entries \/ ("refuse" \in cfg.faults /\ Parsed = <<>>)
        BY <2>1, <3>1, ReadWhole DEF Obliging
      <4>4. judged'[msg].header.entries = Parsed BY <4>1, <4>2
      <4>5. \A k \in DOMAIN judged' : k = msg \/ k \in DOMAIN judged BY <4>2
      <4>6. ASSUME NEW k \in DOMAIN judged'
            PROVE  \/ k \in DOMAIN drop /\ judged'[k].header.entries = drop[k].entries
                   \/ "refuse" \in cfg.faults /\ judged'[k].header.entries = <<>>
        <5>1. CASE k = msg BY <5>1, <4>2, <4>3, <4>4 DEF All
        <5>2. CASE k \in DOMAIN judged
          <6>1. judged'[k] = judged[k] BY <4>2, <5>2
          <6> QED BY <2>5, <5>2, <6>1 DEF OwnOrEmpty
        <5> QED BY <4>5, <5>1, <5>2
      <4> QED BY <4>6 DEF OwnOrEmpty
    <3>2. CASE ~Weed
      <4>1. judged' = judged
        BY <2>1, <3>2, StepKinds, IdleFacts, WriteFacts, ServeFrame DEF Open, vars, clientVars
      <4> QED BY <2>5, <4>1
    <3> QED BY <3>1, <3>2
  <2>7. At(cur_account)'.judged = judged' BY <1>3, <1>4
  <2>8. ASSUME NEW a \in Begun PROVE OwnOrEmpty(accounts[a].cfg, Mail(a), At(a)'.judged)
    <3>1. CASE a = cur_account BY <3>1, <2>4, <2>6, <2>7
    <3>2. CASE a # cur_account
      <4>1. At(a)' = At(a) BY <1>3, <3>2
      <4> QED BY <2>3, <4>1
    <3> QED BY <3>1, <3>2
  <2> QED BY <2>2, <2>8
<1> QED BY <1>1, <1>2, <1>5, <1>6 DEF OwnMail

\* What the next account begins with, and what stays of those before it.
LEMMA NextBegins ==
    ASSUME MInv, MInv', NextAccount, NEW c, c = cur_account
    PROVE  /\ accounts' = accounts /\ cur_account' = c + 1 /\ c \in Nat
           /\ Begun' = Begun \union {c + 1} /\ c + 1 \notin Begun
           /\ \A a \in Begun : At(a)' = At(a)
           /\ At(c + 1)'.judged = <<>> /\ At(c + 1)'.drop = Mail(c + 1)
           /\ At(c + 1)'.mailbox = DOMAIN Mail(c + 1)
           /\ pc' = "open" /\ server' = "listen" /\ server \in {"listen", "closed"}
<1>1. c = cur_account OBVIOUS
<1>2. /\ c \in Nat \ {0} /\ accounts' = accounts /\ cur_account' = c + 1
      /\ Len(past) = c - 1 /\ past' = Append(past, Outcome) /\ past \in Seq(Past)
      /\ past' \in Seq(Past) /\ Len(past') = c
  <2>1. c \in Nat \ {0} BY <1>1, LogsFacts DEF MInv
  <2>2. accounts' = accounts /\ cur_account' = c + 1 /\ past' = Append(past, Outcome)
    BY <1>1 DEF NextAccount, Advance
  <2>3. Len(past') = cur_account' - 1 /\ past' \in Seq(Past) BY Zenon DEF MInv, MainTypeOK
  <2>4. Len(past) = cur_account - 1 /\ past \in Seq(Past) BY Zenon DEF MInv, MainTypeOK
  <2> QED BY <1>1, <2>1, <2>2, <2>3, <2>4
<1>3. Begun' = Begun \union {c + 1} /\ c + 1 \notin Begun BY <1>1, <1>2 DEF Begun
<1>4. ASSUME NEW a \in Begun PROVE At(a)' = At(a)
  <2>1. a \in 1..c /\ a < c + 1 BY <1>1, <1>2 DEF Begun
  <2>2. At(a)' = past'[a] BY <1>2, <2>1 DEF At
  <2>3. CASE a = c
    <3>1. past'[a] = Outcome BY <1>2, <2>3
    <3>2. ~(a < cur_account) BY <1>1, <1>2, <2>3
    <3> QED BY <2>2, <3>1, <3>2 DEF At
  <2>4. CASE a # c
    <3>1. a \in 1..Len(past) /\ a < cur_account BY <1>1, <1>2, <2>1, <2>4
    <3>2. past'[a] = past[a] BY <1>2, <3>1
    <3> QED BY <2>2, <3>1, <3>2 DEF At
  <2> QED BY <2>3, <2>4
<1>5. /\ At(c + 1)'.judged = judged' /\ At(c + 1)'.drop = drop' /\ At(c + 1)'.mailbox = mailbox'
  <2>1. (MInv => At(cur_account) = Outcome /\ Outcome.drop = drop /\ Outcome.judged = judged
                 /\ Outcome.mailbox = mailbox)'
    BY AtHand, PTL
  <2>2. At(cur_account)' = At(c + 1)' BY <1>2 DEF At
  <2> QED BY <2>1, <2>2
<1>6. /\ judged' = <<>> /\ drop' = Mail(c + 1) /\ mailbox' = DOMAIN Mail(c + 1)
      /\ pc' = "open" /\ server' = "listen" /\ server \in {"listen", "closed"}
  BY <1>1 DEF NextAccount, Advance, Begin, Returned, Mail
<1> QED BY <1>1, <1>2, <1>3, <1>4, <1>5, <1>6

\* The next account begins with nothing judged.
LEMMA OwnMailNext ==
    ASSUME MInv, MInv', OwnMail, NextAccount PROVE OwnMail'
<1>1. PICK c : c = cur_account OBVIOUS
<1>2. /\ accounts' = accounts /\ (AllWhole' <=> AllWhole) /\ \A a : Mail(a)' = Mail(a)
      /\ Begun' = Begun \union {c + 1} /\ \A a \in Begun : At(a)' = At(a)
      /\ At(c + 1)'.judged = <<>> /\ At(c + 1)'.drop = Mail(c + 1) /\ pc' = "open"
  <2>1. [MainNext]_allVars BY DEF MainNext
  <2> QED BY <1>1, <2>1, NextBegins, RunChosen DEF Mail
<1>3. \A a \in Begun' : At(a)'.drop = Mail(a) BY <1>2 DEF OwnMail
<1>4. ASSUME AllWhole
      PROVE  \A a \in Begun' : OwnOrEmpty(accounts[a].cfg, Mail(a), At(a)'.judged)
  <2>1. \A a \in Begun : OwnOrEmpty(accounts[a].cfg, Mail(a), At(a).judged) BY <1>4 DEF OwnMail
  <2>2. OwnOrEmpty(accounts[c + 1].cfg, Mail(c + 1), <<>>)
    <3>1. DOMAIN <<>> = {} OBVIOUS
    <3> QED BY <3>1 DEF OwnOrEmpty
  <2> QED BY <1>2, <2>1, <2>2
<1>5. Uncut' BY <1>2 DEF Uncut
<1> QED BY <1>2, <1>3, <1>4, <1>5 DEF OwnMail

\* Nothing is judged when the program starts.
LEMMA InitOwnMail == MainInit => OwnMail
<1> SUFFICES ASSUME MainInit PROVE OwnMail
  OBVIOUS
<1>1. MInv BY InitMInv
<1>2. cur_account = 1 /\ judged = <<>> /\ pc = "open" BY DEF MainInit, Init
<1>3. Begun = {1} BY <1>2 DEF Begun
<1>4. At(1).drop = Mail(1) /\ At(1).judged = <<>> BY <1>1, <1>2, AtHand
<1>5. OwnOrEmpty(accounts[1].cfg, Mail(1), <<>>)
  <2>1. DOMAIN <<>> = {} OBVIOUS
  <2> QED BY <2>1 DEF OwnOrEmpty
<1> QED BY <1>2, <1>3, <1>4, <1>5 DEF OwnMail, Uncut

\* When all headers arrive whole every account is judged by its own mail.
THEOREM JudgedByOwnMail == MainSpec => [](MInv /\ OwnMail)
<1>1. MainInit => MInv /\ OwnMail BY InitMInv, InitOwnMail
<1>2. MInv /\ OwnMail /\ [MainNext]_allVars => (MInv /\ OwnMail)'
  BY NextMInv, RunKinds, OwnMailMoves, OwnMailNext
<1> QED BY <1>1, <1>2, PTL DEF MainSpec

----------------------------------------------------------------------------
\* What the weeder saw of a message and what the message is, when all headers arrive whole.
LEMMA SeenAsIs ==
    ASSUME MInv, OwnMail, AllWhole, NEW a \in Begun, NEW k \in JudgedIn(a)
    PROVE  /\ k \in DOMAIN Mail(a)
           /\ ID(HeaderIn(a, k)) # NoText => ID(HeaderIn(a, k)) = ID(Mail(a)[k])
           /\ WeedByRules(Prefs, HeaderIn(a, k)) => WeedByRules(Prefs, Mail(a)[k])
<1>1. PICK h : h = HeaderIn(a, k) OBVIOUS
<1>2. a \in 1..Len(accounts) /\ a \in DOMAIN accounts /\ a \in 1..cur_account
  <2>1. cur_account \in 1..Len(accounts) /\ DOMAIN accounts = 1..Len(accounts) BY AtHand
  <2>2. Len(accounts) \in Nat BY LogsFacts DEF MInv
  <2> QED BY <2>1, <2>2 DEF Begun
<1>3. ArriveWhole(accounts[a].cfg, Mail(a)) BY <1>2 DEF AllWhole
<1>4. accounts[a].cfg.prefs = Prefs
  <2>1. cur_account \in 1..Len(accounts) /\ cfg = accounts[cur_account].cfg BY AtHand
  <2> QED BY <1>2, <2>1, AccountFacts DEF Prefs, MInv
<1>5. k \in DOMAIN Mail(a)
  <2>1. DOMAIN At(a).judged \subseteq DOMAIN At(a).drop BY <1>2, LostCondemned
  <2> QED BY <2>1 DEF OwnMail, JudgedIn
<1>6. \/ h.entries = Mail(a)[k].entries
      \/ "refuse" \in accounts[a].cfg.faults /\ h.entries = <<>>
  <2>1. OwnOrEmpty(accounts[a].cfg, Mail(a), At(a).judged) BY DEF OwnMail
  <2> QED BY <1>1, <2>1 DEF OwnOrEmpty, JudgedIn, HeaderIn
<1>7. SizeBlind(Prefs) BY <1>3, <1>4 DEF ArriveWhole
<1>8. CASE h.entries = Mail(a)[k].entries
  BY <1>1, <1>5, <1>7, <1>8, SameLines
<1>9. CASE "refuse" \in accounts[a].cfg.faults /\ h.entries = <<>>
  <2>1. ID(h) = NoText
    <3>1. {j \in DOMAIN h.entries : h.entries[j].tag \in {"Message-Id"}} = {} BY <1>9
    <3> QED BY <3>1 DEF ID, LastBody
  <2>2. PICK e : e = [entries |-> <<>>, size |-> 0] OBVIOUS
  <2>3. ~WeedByRules(Prefs, e) BY <1>3, <1>4, <1>9, <2>2 DEF ArriveWhole
  <2>4. e.entries = <<>> BY <2>2
  <2>5. h.entries = e.entries BY <1>9, <2>4
  <2>6. WeedByRules(Prefs, h) = WeedByRules(Prefs, e) BY <1>7, <2>5, SameLines
  <2> QED BY <1>1, <1>5, <2>1, <2>3, <2>6
<1> QED BY <1>6, <1>8, <1>9

\* Every message condemned in the account at hand may go: the rules condemn it, or a message
\* that came before has its ID, and that is junk or stays.
LEMMA CondemnedMayGo ==
    ASSUME MInv, OwnMail, server # "closed", ~cfg.test_mode,
           NEW gone \in SUBSET marked, NEW m \in gone, NEW K,
           NEW c, c = cur_account,
           K[c] = mailbox \ gone, \A b \in Begun : b # c => K[b] = At(b).mailbox
    PROVE  Promised!MayGo(K, c, m)
<1>1. /\ At(c) = Outcome /\ c \in Begun /\ c \in DOMAIN accounts /\ Begun = 1..c /\ c \in Nat
      /\ At(c).judged = judged /\ Mail(c) = drop
      /\ \A b \in Begun : b \in DOMAIN accounts
  <2>1. /\ At(c) = Outcome /\ Outcome.judged = judged /\ drop = Mail(c) /\ c \in Begun
        /\ c \in 1..Len(accounts) /\ DOMAIN accounts = 1..Len(accounts)
    BY AtHand
  <2>2. Len(accounts) \in Nat BY LogsFacts DEF MInv
  <2> QED BY <2>1, <2>2 DEF Begun
<1>2. m \in marked /\ marked \subseteq Condemned /\ Condemned \subseteq DOMAIN drop /\ mailbox = DOMAIN drop
  <2>1. marked \subseteq Doomed /\ Doomed \subseteq All BY PendingDoomed DEF MInv, IInv
  <2>2. Doomed = Condemned BY DEF Doomed
  <2>3. mailbox = All BY DEF MInv, PInv, Settled
  <2> QED BY <2>1, <2>2, <2>3 DEF All
<1>3. m \in JudgedIn(c) /\ judged[m].weed = 1 /\ m \in DOMAIN Mail(c)
  BY <1>1, <1>2 DEF Condemned, JudgedIn
<1>4. Junk[c] = {k \in DOMAIN Mail(c) : AllWhole => WeedByRules(Prefs, Mail(c)[k])}
  BY <1>1 DEF Junk
<1>5. CASE ~AllWhole
  <2>1. m \in Junk[c] BY <1>3, <1>4, <1>5
  <2> QED BY <2>1 DEF Promised!MayGo
<1>6. CASE AllWhole
  <2>1. PICK L : L = Logs OBVIOUS
  <2>2. /\ DOMAIN L = 1..c /\ \A a \in 1..c : L[a] = At(a).judged
        /\ Founded(Prefs, L)
    BY <2>1, LogsFacts DEF MInv, LogInv
  <2>3. c \in DOMAIN L /\ m \in DOMAIN L[c] /\ L[c][m].weed = 1 /\ L[c][m].header = HeaderIn(c, m)
    BY <1>1, <1>3, <2>2 DEF Begun, JudgedIn, HeaderIn
  <2>4. \/ WeedByRules(Prefs, HeaderIn(c, m))
        \/ /\ Prefs.del_duplicates
           /\ \E b \in 1..c : \E n \in DOMAIN L[b] :
                 Repeats(L, b, n, c, m) /\ Original(Prefs, L[b][n])
    BY <2>2, <2>3 DEF Founded
  <2>5. CASE WeedByRules(Prefs, HeaderIn(c, m))
    <3>1. WeedByRules(Prefs, Mail(c)[m]) BY <1>1, <1>3, <1>6, <2>5, SeenAsIs
    <3>2. m \in Junk[c] BY <1>3, <1>4, <3>1
    <3> QED BY <3>2 DEF Promised!MayGo
  <2>6. CASE /\ Prefs.del_duplicates
             /\ \E b \in 1..c : \E n \in DOMAIN L[b] :
                   Repeats(L, b, n, c, m) /\ Original(Prefs, L[b][n])
    <3>1. PICK b \in 1..c : \E n \in DOMAIN L[b] :
                   Repeats(L, b, n, c, m) /\ Original(Prefs, L[b][n])
      BY <2>6
    <3>2. PICK n \in DOMAIN L[b] : Repeats(L, b, n, c, m) /\ Original(Prefs, L[b][n])
      BY <3>1
    <3>3. b \in Begun /\ b \in DOMAIN accounts /\ L[b] = At(b).judged /\ n \in JudgedIn(b)
          /\ L[b][n].header = HeaderIn(b, n)
      BY <1>1, <2>2, <3>1, <3>2 DEF JudgedIn, HeaderIn
    <3>4. /\ Before(b, n, c, m) /\ ID(HeaderIn(b, n)) = ID(HeaderIn(c, m))
          /\ ID(HeaderIn(c, m)) # NoText
      BY <2>3, <3>2, <3>3 DEF Repeats
    <3>5. /\ n \in DOMAIN Mail(b)
          /\ SameID(Mail(b)[n], Mail(c)[m])
      <4>1. n \in DOMAIN Mail(b) /\ ID(HeaderIn(b, n)) = ID(Mail(b)[n])
        BY <1>6, <3>3, <3>4, SeenAsIs
      <4>2. ID(HeaderIn(c, m)) = ID(Mail(c)[m]) BY <1>1, <1>3, <1>6, <3>4, SeenAsIs
      <4> QED BY <3>4, <4>1, <4>2 DEF SameID
    <3>6. <<<<b, n>>, <<c, m>>>> \in Copies
      <4>1. PICK p : p = <<b, n>> OBVIOUS
      <4>2. PICK q : q = <<c, m>> OBVIOUS
      <4>3. p \in Place /\ q \in Place
        BY <1>1, <1>3, <3>3, <3>5, <4>1, <4>2 DEF Place
      <4>4. p[1] = b /\ p[2] = n /\ q[1] = c /\ q[2] = m BY <4>1, <4>2
      <4>5. Before(p[1], p[2], q[1], q[2]) /\ SameID(Mail(p[1])[p[2]], Mail(q[1])[q[2]])
        BY <3>4, <3>5, <4>4
      <4>6. PICK r : r = <<p, q>> OBVIOUS
      <4>7. r \in Place \X Place /\ r[1] = p /\ r[2] = q BY <4>3, <4>6
      <4>8. r \in Copies BY <2>6, <4>5, <4>7 DEF Copies
      <4> QED BY <4>1, <4>2, <4>6, <4>8
    <3>7. n \in K[b] \/ n \in Junk[b]
      <4>1. CASE WeedByRules(Prefs, HeaderIn(b, n))
        <5>1. WeedByRules(Prefs, Mail(b)[n]) BY <1>6, <3>3, <4>1, SeenAsIs
        <5>2. Junk[b] = {k \in DOMAIN Mail(b) : AllWhole => WeedByRules(Prefs, Mail(b)[k])}
          BY <3>3 DEF Junk
        <5> QED BY <3>5, <5>1, <5>2
      <4>2. CASE L[b][n].weed # 1 /\ b = c
        <5>1. n \notin Condemned BY <1>1, <3>3, <4>2 DEF Condemned
        <5>2. n \in mailbox \ gone BY <1>1, <1>2, <3>5, <4>2, <5>1
        <5> QED BY <4>2, <5>2
      <4>3. CASE L[b][n].weed # 1 /\ b # c
        <5>1. n \in DOMAIN At(b).drop /\ b \in 1..cur_account BY <1>1, <3>3, <3>5 DEF OwnMail
        <5>2. n \in At(b).mailbox BY <3>3, <4>3, <5>1, LostCondemned
        <5> QED BY <3>3, <4>3, <5>2
      <4> QED BY <3>2, <3>3, <4>1, <4>2, <4>3 DEF Original
    <3> QED BY <3>1, <3>6, <3>7 DEF Promised!MayGo
  <2> QED BY <2>4, <2>5, <2>6
<1> QED BY <1>5, <1>6

\* The mailboxes as the user sees them.
LEMMA MailboxesAt ==
    MInv => /\ Mailboxes = [a \in DOMAIN accounts |->
                               IF a \in Begun THEN At(a).mailbox ELSE DOMAIN Mail(a)]
            /\ cur_account \in DOMAIN accounts /\ cur_account \in Nat
            /\ Mailboxes[cur_account] = mailbox
<1> SUFFICES ASSUME MInv PROVE cur_account \in Nat /\ Mailboxes[cur_account] = mailbox
                               /\ cur_account \in DOMAIN accounts
  BY DEF Mailboxes
<1>1. cur_account \in DOMAIN accounts /\ cur_account \in Nat BY LogsFacts DEF MInv
<1> QED BY <1>1, AtHand DEF Mailboxes

\* A step of the session at hand purges its mailbox, or leaves all as it is.
LEMMA SessionStepPurges ==
    ASSUME MInv, MInv', OwnMail, [MainNext]_allVars,
           [Next]_vars, UNCHANGED <<accounts, cur_account, past>>
    PROVE  [Promised!Next]_(Promised!vars)
<1>1. PICK c : c = cur_account OBVIOUS
<1>2. PICK B : B = Mailboxes OBVIOUS
<1>3. PICK D : D = Mailboxes' OBVIOUS
<1>4. /\ Junk' = Junk /\ Copies' = Copies /\ accounts' = accounts /\ cur_account' = c
      /\ Begun' = Begun /\ c \in Nat /\ c \in DOMAIN accounts /\ c \in Begun
      /\ \A a : Mail(a)' = Mail(a)
  BY <1>1, RunChosen, MailboxesAt, AtHand DEF Begun, Mail
<1>5. /\ \A a \in Begun : a # c => At(a)' = At(a)
      /\ At(c).mailbox = mailbox /\ At(c)'.mailbox = mailbox'
  <2>1. (MInv => At(cur_account) = Outcome /\ Outcome.mailbox = mailbox)' BY AtHand, PTL
  <2>2. At(cur_account)' = At(c)' BY <1>4 DEF At
  <2> QED BY <1>1, <2>1, <2>2, AtHand, PastKept
<1>6. /\ B = [a \in DOMAIN accounts |-> IF a \in Begun THEN At(a).mailbox ELSE DOMAIN Mail(a)]
      /\ D = [a \in DOMAIN accounts |-> IF a \in Begun THEN At(a)'.mailbox ELSE DOMAIN Mail(a)]
  BY <1>2, <1>3, <1>4 DEF Mailboxes
<1>7. B[c] = mailbox /\ D[c] = mailbox' /\ \A a \in DOMAIN accounts : a # c => D[a] = B[a]
  BY <1>4, <1>5, <1>6
<1>8. CASE mailbox' = mailbox /\ (server' = "closed" <=> server = "closed")
  <2>1. D = B
    <3>1. \A a \in DOMAIN accounts : D[a] = B[a] BY <1>7, <1>8
    <3> QED BY <1>6, <3>1
  <2>2. Purged' = Purged BY <1>1, <1>4, <1>8 DEF Purged
  <2> QED BY <1>2, <1>3, <1>4, <2>1, <2>2 DEF Promised!vars
<1>9. CASE server # "closed" /\ server' = "closed" /\ \E gone \in SUBSET marked : mailbox' = mailbox \ gone
  <2>1. PICK gone \in SUBSET marked : mailbox' = mailbox \ gone BY <1>9
  <2>2. D = [B EXCEPT ![c] = @ \ gone]
    <3>1. PICK E : E = [B EXCEPT ![c] = @ \ gone] OBVIOUS
    <3>2. DOMAIN B = DOMAIN accounts BY <1>6
    <3>3. /\ E = [a \in DOMAIN accounts |-> IF a = c THEN B[c] \ gone ELSE B[a]]
      BY <3>1, <3>2, <1>4
    <3>4. \A a \in DOMAIN accounts : D[a] = E[a] BY <1>7, <2>1, <3>3
    <3> QED BY <1>6, <3>1, <3>3, <3>4
  <2>3. Purged = c - 1 /\ Purged' = c BY <1>1, <1>4, <1>9 DEF Purged
  <2>4. c = Purged + 1 BY <1>4, <2>3
  <2>5. marked \subseteq Doomed /\ Doomed \subseteq All /\ mailbox = All
    BY <1>9, PendingDoomed DEF MInv, IInv, PInv, Settled
  <2>6. gone \in SUBSET B[c] BY <1>7, <2>5
  <2>7. ASSUME NEW m \in gone PROVE Promised!MayGo(D, c, m)
    <3>1. ~cfg.test_mode BY <2>5 DEF Doomed
    <3>2. D[c] = mailbox \ gone BY <1>7, <2>1
    <3>3. \A b \in Begun : b # c => D[b] = At(b).mailbox
      <4>1. \A b \in Begun : b \in DOMAIN accounts
        <5>1. DOMAIN accounts = 1..Len(accounts) /\ c \in 1..Len(accounts) BY <1>1, AtHand
        <5>2. Len(accounts) \in Nat BY LogsFacts DEF MInv
        <5> QED BY <1>1, <1>4, <5>1, <5>2 DEF Begun
      <4> QED BY <1>5, <1>6, <4>1
    <3> QED BY <1>1, <1>9, <3>1, <3>2, <3>3, CondemnedMayGo
  <2>8. Promised!Purge(c, gone)
    BY <1>2, <1>3, <1>4, <2>2, <2>3, <2>4, <2>7 DEF Promised!Purge
  <2>9. c \in DOMAIN Mailboxes /\ gone \in SUBSET Mailboxes[c] BY <1>2, <1>4, <1>6, <2>6
  <2> QED BY <2>8, <2>9 DEF Promised!Next
<1> QED BY <1>8, <1>9, MailboxGoes DEF MInv, IInv

\* When the next account begins, the one before is over: if its server was never reached,
\* that ends it.
LEMMA NextAccountPurges ==
    ASSUME MInv, MInv', NextAccount
    PROVE  [Promised!Next]_(Promised!vars)
<1>1. PICK c : c = cur_account OBVIOUS
<1>2. PICK B : B = Mailboxes OBVIOUS
<1>3. /\ accounts' = accounts /\ cur_account' = c + 1 /\ c \in Nat
      /\ Begun' = Begun \union {c + 1} /\ c + 1 \notin Begun
      /\ \A a \in Begun : At(a)' = At(a)
      /\ At(c + 1)'.mailbox = DOMAIN Mail(c + 1)
      /\ server' = "listen" /\ server \in {"listen", "closed"}
  BY <1>1, NextBegins
<1>4. Junk' = Junk /\ Copies' = Copies /\ \A a : Mail(a)' = Mail(a)
  <2>1. [MainNext]_allVars BY DEF MainNext
  <2> QED BY <1>3, <2>1, RunChosen DEF Mail
<1>5. B = [a \in DOMAIN accounts |-> IF a \in Begun THEN At(a).mailbox ELSE DOMAIN Mail(a)]
      /\ c \in DOMAIN accounts
  BY <1>1, <1>2, MailboxesAt
<1>6. Mailboxes' = B
  <2>1. Mailboxes' = [a \in DOMAIN accounts |->
                         IF a \in Begun \union {c + 1} THEN At(a)'.mailbox ELSE DOMAIN Mail(a)]
    BY <1>3, <1>4 DEF Mailboxes
  <2>2. \A a \in DOMAIN accounts :
           (IF a \in Begun \union {c + 1} THEN At(a)'.mailbox ELSE DOMAIN Mail(a)) =
           (IF a \in Begun THEN At(a).mailbox ELSE DOMAIN Mail(a))
    BY <1>3
  <2> QED BY <1>5, <2>1, <2>2
<1>7. Purged' = c BY <1>3 DEF Purged
<1>8. CASE server = "closed"
  <2>1. Purged = c BY <1>1, <1>8 DEF Purged
  <2> QED BY <1>2, <1>4, <1>6, <1>7, <2>1 DEF Promised!vars
<1>9. CASE server = "listen"
  <2>1. Purged = c - 1 BY <1>1, <1>9 DEF Purged
  <2>2. c = Purged + 1 BY <1>3, <2>1
  <2>3. B = [B EXCEPT ![c] = @ \ {}]
    <3>1. B[c] \ {} = B[c] OBVIOUS
    <3> QED BY <1>5, <3>1
  <2>4. Promised!Purge(c, {}) BY <1>2, <1>4, <1>6, <1>7, <2>2, <2>3 DEF Promised!Purge
  <2>5. c \in DOMAIN Mailboxes /\ {} \in SUBSET Mailboxes[c] BY <1>2, <1>5
  <2> QED BY <2>4, <2>5 DEF Promised!Next
<1> QED BY <1>3, <1>8, <1>9

\* The program implements Purges, for all accounts and whatever fails in them: the mailboxes
\* are purged one after the other, each in one step, and a message goes only when the user's
\* rules condemn it, or when it repeats an earlier one that they condemn or that stays.
THEOREM ProgramPurges == MainSpec => RunPurges
<1>1. MainInit => Promised!Init
  <2> SUFFICES ASSUME MainInit PROVE Promised!Init
    OBVIOUS
  <2>1. MInv BY InitMInv
  <2>2. cur_account = 1 /\ server = "listen" /\ mailbox = DOMAIN drop BY DEF MainInit, Init, All
  <2>3. Purged = 0 BY <2>2 DEF Purged
  <2>4. ASSUME NEW a \in DOMAIN Mailboxes PROVE Mailboxes[a] \subseteq Nat
    <3>1. a \in DOMAIN accounts /\ accounts \in Seq(Account) BY <2>1, LogsFacts DEF MInv, Mailboxes
    <3>2. accounts[a] \in Account BY <3>1
    <3>3. Mail(a) \in Seq(Header) BY <3>2, SessionAssumption DEF Account, Mail
    <3>4. DOMAIN Mail(a) \subseteq Nat BY <3>3
    <3>5. Mailboxes[a] = DOMAIN Mail(a)
      <4>1. CASE a = 1
        BY <2>1, <2>2, <4>1, MailboxesAt, AtHand
      <4>2. CASE a # 1
        <5>1. a \notin Begun BY <2>2, <4>2 DEF Begun
        <5> QED BY <3>1, <5>1 DEF Mailboxes
      <4> QED BY <4>1, <4>2
    <3> QED BY <3>4, <3>5
  <2> QED BY <2>3, <2>4 DEF Promised!Init
<1>2. MInv /\ MInv' /\ OwnMail /\ [MainNext]_allVars => [Promised!Next]_(Promised!vars)
  BY RunKinds, SessionStepPurges, NextAccountPurges
<1>3. MInv /\ OwnMail /\ [MainNext]_allVars => MInv' BY NextMInv
<1> QED BY <1>1, <1>2, <1>3, JudgedByOwnMail, PTL DEF MainSpec, RunPurges, Promised!Spec

=============================================================================
