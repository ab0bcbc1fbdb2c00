---------------------------- MODULE ConnectionProofs ----------------------------
(***************************************************************************)
(* Theorems about Connection: its safety properties and the refinement of     *)
(* Opening, for any number of accounts and any settings.                      *)
(***************************************************************************)
EXTENDS Connection, TLAPS

----------------------------------------------------------------------------
(***************************************************************************)
(* The inductive invariant: what c_open holds at each of its calls.            *)
(***************************************************************************)
Calls == Guarded \union {"sigaction", "sigsetjmp", "session", "done", "exit", "undefined"}
SocketOpen == {"gethostbyname", "connect", "SSL_new", "BIO_new_socket", "SSL_connect",
               "alarm (0)", "session"}
Negotiating == {"SSL_CTX_new", "SSL_new", "BIO_new_socket", "SSL_connect"}
Negotiated == {"BIO_new_socket", "SSL_connect", "alarm (0)", "session"}

Typed ==
    /\ run \in Runs
    /\ account \in 1..Len(run.ssl) + 1
    /\ results \in Seq({"ok", "failed"}) /\ Len(results) = account - 1
    /\ pc \in Calls /\ (account > Len(run.ssl) <=> pc = "done")
    /\ verified \in BOOLEAN
    /\ curr_env \in 0..Len(run.ssl)

\* Descriptors and SSL objects are those of accounts up to the one at hand.
Objects ==
    /\ fds \subseteq Accounts /\ ctxs \subseteq Accounts /\ ssls \subseteq ctxs
    /\ \A a \in ctxs : run.ssl[a] = TRUE
    /\ \A a \in fds \union ctxs : a <= account
    /\ pc \in SocketOpen => account \in fds
    /\ pc \in Negotiating => run.ssl[account] = TRUE
    /\ pc \in SocketOpen \union {"socket"} /\ run.ssl[account] = TRUE => account \in ctxs
    /\ pc \in Negotiated /\ run.ssl[account] = TRUE => account \in ssls

\* The jump buffer belongs to the call at hand while the call is guarded.
Jump ==
    /\ pending \in BOOLEAN
    /\ pc \in Guarded => curr_env = account
    /\ pc = "session" => curr_env = account /\ pending = FALSE
    /\ pending = TRUE => run.time_out > 0

Certified ==
    pc \in {"alarm (0)", "session"} /\ run.ssl[account] = TRUE =>
        verified = TRUE \/ run.skip_ssl_verify = TRUE

IInv == Typed /\ Objects /\ Jump /\ Certified /\ SuccessLeavesNothing /\ AlarmOutlivesOnlySsl

LEMMA RunFacts ==
    ASSUME Typed
    PROVE  /\ Len(run.ssl) \in Nat \ {0} /\ Accounts = 1..Len(run.ssl)
           /\ \A a \in Accounts : run.ssl[a] \in BOOLEAN
           /\ run.time_out \in Nat /\ run.skip_ssl_verify \in BOOLEAN
<1>1. run.ssl \in Seq(BOOLEAN) /\ run.ssl # <<>> /\ run.time_out \in Nat /\ run.skip_ssl_verify \in BOOLEAN
  BY RunsAssumption DEF Typed
<1> QED BY <1>1 DEF Accounts

\* The end of an account adds its result to the others.
LEMMA ReturnFacts ==
    ASSUME Typed, NEW r \in {"ok", "failed"}, Return(r), pc # "done"
    PROVE  /\ Typed'
           /\ run' = run /\ account \in Accounts /\ account' = account + 1 /\ curr_env' = curr_env
           /\ pc' \in {"done", "sigaction"}
           /\ results'[account] = r
           /\ \A a \in 1..account - 1 : results'[a] = results[a]
<1>1. results' = Append(results, r) /\ Len(results) = account - 1 /\ results \in Seq({"ok", "failed"})
  BY DEF Return, Typed
<1>2. /\ results' \in Seq({"ok", "failed"}) /\ Len(results') = account /\ results'[account] = r
      /\ \A a \in 1..account - 1 : results'[a] = results[a]
  <2>1. account \in Nat \ {0}
    BY RunFacts DEF Typed
  <2>2. results' = Append(results, r) /\ results \in Seq({"ok", "failed"}) /\ r \in {"ok", "failed"}
    BY <1>1
  <2>3. Len(results') = Len(results) + 1 /\ results'[Len(results) + 1] = r
        /\ \A a \in 1..Len(results) : results'[a] = results[a]
    BY <2>2
  <2> QED BY <1>1, <2>1, <2>2, <2>3
<1>3. Len(run.ssl) \in Nat \ {0} /\ Accounts = 1..Len(run.ssl)
  BY RunFacts
<1>4. account \in Accounts /\ account \in Nat
  BY <1>3 DEF Typed
<1>5. /\ run' = run /\ account' = account + 1 /\ curr_env' = curr_env /\ verified' = FALSE
      /\ pc' = IF account = Len(run.ssl) THEN "done" ELSE "sigaction"
  BY DEF Return
<1>6. account' \in 1..Len(run.ssl) + 1 /\ (account' > Len(run.ssl) <=> pc' = "done")
  BY <1>3, <1>4, <1>5
<1>7. Typed'
  <2>1. pc' \in Calls
    BY <1>5 DEF Calls
  <2>2. account' - 1 = account
    BY <1>4, <1>5
  <2> QED BY <1>2, <1>5, <1>6, <2>1, <2>2 DEF Typed
<1> QED BY <1>2, <1>4, <1>5, <1>7

\* c_open fails: nothing is closed, and an alarm is left only behind SSL.
LEMMA FailurePreserves ==
    ASSUME IInv, Return("failed"), UNCHANGED <<fds, ctxs, ssls>>, pc # "done", pc # "undefined",
           \/ pending' = FALSE
           \/ pending' = pending /\ pc \in (Negotiating \ {"SSL_CTX_new"}) \union {"sigaction", "session"}
    PROVE  IInv'
<1> USE DEF IInv
<1>1. /\ Typed'
      /\ run' = run /\ account \in Accounts /\ account' = account + 1 /\ curr_env' = curr_env
      /\ pc' \in {"done", "sigaction"}
      /\ results'[account] = "failed"
      /\ \A a \in 1..account - 1 : results'[a] = results[a]
  BY ReturnFacts
<1>2. Typed'
  BY ReturnFacts
<1>0. \A a \in fds \union ctxs : a <= account + 1
  <2>1. account \in Nat \ {0} /\ Accounts \subseteq Nat
    BY RunFacts DEF Typed
  <2> QED BY <2>1 DEF Objects
<1>3. Objects'
  BY <1>0, <1>1 DEF Objects, SocketOpen, Negotiating, Negotiated, Accounts
<1>4. Jump'
  BY <1>1 DEF Jump, Guarded
<1>5. Certified'
  BY <1>1 DEF Certified
<1>6. account \in Nat \ {0}
  BY RunFacts DEF Typed
<1>7. SuccessLeavesNothing'
  BY <1>1, <1>6 DEF SuccessLeavesNothing
<1>8. AlarmOutlivesOnlySsl'
  <2>1. CASE pending' = FALSE
    BY <2>1, <1>1 DEF AlarmOutlivesOnlySsl
  <2>2. CASE pc = "session"
    BY <2>2, <1>1 DEF AlarmOutlivesOnlySsl, Jump
  <2>3. CASE pending' = pending /\ pending = TRUE /\ pc = "sigaction"
    <3>1. run.time_out > 0 /\ curr_env \in ctxs /\ curr_env < account /\ results[curr_env] = "failed"
      BY <2>3 DEF AlarmOutlivesOnlySsl, Guarded
    <3>2. curr_env \in 1..account - 1
      BY <3>1, <1>6, RunFacts DEF Objects
    <3> QED BY <3>1, <3>2, <1>1, <1>6 DEF AlarmOutlivesOnlySsl
  <2>4. CASE pending' = pending /\ pending = TRUE /\ pc \in Negotiating \ {"SSL_CTX_new"}
    <3>1. curr_env = account /\ run.time_out > 0 /\ run.ssl[account] = TRUE /\ account \in ctxs
      BY <2>4 DEF Jump, Objects, Negotiating, Guarded, SocketOpen
    <3> QED BY <3>1, <1>1, <1>6 DEF AlarmOutlivesOnlySsl
  <2>5. pending' = FALSE \/ pending' = pending
    OBVIOUS
  <2>6. pending \in BOOLEAN
    BY DEF Jump
  <2>7. pc \in (Negotiating \ {"SSL_CTX_new"}) \union {"sigaction", "session"} \/ pending' = FALSE
    OBVIOUS
  <2> QED BY <2>1, <2>2, <2>3, <2>4, <2>5, <2>6, <2>7
<1> QED BY <1>2, <1>3, <1>4, <1>5, <1>7, <1>8

\* The calls of c_open go on: account, results and run stay.
LEMMA CallFacts ==
    ASSUME Typed, NEW name \in Calls \ {"done", "exit", "undefined"},
           NEW next \in Calls \ {"done", "undefined"}, Call(name, next),
           verified' \in BOOLEAN, curr_env' \in {curr_env, account}
    PROVE  /\ Typed' /\ pc = name /\ pc' = next
           /\ run' = run /\ account' = account /\ results' = results
           /\ account \in Accounts
<1>1. Len(run.ssl) \in Nat \ {0} /\ Accounts = 1..Len(run.ssl)
  BY RunFacts
<1>2. pc = name /\ pc' = next /\ run' = run /\ account' = account /\ results' = results
  BY DEF Call
<1>3. account \in Accounts
  BY <1>1, <1>2 DEF Typed
<1>4. curr_env' \in 0..Len(run.ssl)
  BY <1>1, <1>3 DEF Typed
<1>5. Typed'
  BY <1>2, <1>3, <1>4 DEF Typed
<1> QED BY <1>2, <1>3, <1>5

----------------------------------------------------------------------------
LEMMA InitIInv == Init => IInv
<1> SUFFICES ASSUME Init PROVE IInv
  OBVIOUS
<1>1. run.ssl \in Seq(BOOLEAN) /\ run.ssl # <<>>
  BY RunsAssumption DEF Init
<1>2. Len(run.ssl) \in Nat \ {0}
  BY <1>1
<1>3. Typed
  <2>1. results \in Seq({"ok", "failed"}) /\ Len(results) = 0
    BY DEF Init
  <2>2. pc \in Calls /\ pc = "sigaction" /\ account = 1 /\ run \in Runs /\ curr_env = 0 /\ verified \in BOOLEAN
    BY DEF Init, Calls
  <2> QED BY <1>2, <2>1, <2>2 DEF Typed
<1> QED BY <1>3 DEF Init, IInv, Objects, SocketOpen, Negotiating, Negotiated, Jump, Guarded,
       Certified, SuccessLeavesNothing, AlarmOutlivesOnlySsl

\* The calls of c_open before the connection is there ...
LEMMA BeginningPreserves ==
    ASSUME IInv, Sigaction \/ Sigsetjmp \/ Alarm \/ SslContext \/ OpenSocket
    PROVE  IInv'
<1> USE DEF IInv
<1>0. Accounts \subseteq Nat /\ run.time_out \in Nat
  BY RunFacts
<1>1. CASE Sigaction
  <2>1. Typed' /\ pc = "sigaction" /\ pc' = "sigsetjmp"
        /\ run' = run /\ account' = account /\ results' = results /\ account \in Accounts
    BY <1>1, CallFacts DEF Sigaction, Calls, Typed
  <2> QED BY <2>1, <1>1, <1>0 DEF Sigaction, Accounts, Objects, SocketOpen, Negotiating, Negotiated,
         Jump, Guarded, Certified, SuccessLeavesNothing, AlarmOutlivesOnlySsl
<1>2. CASE Sigsetjmp
  <2>1. Typed' /\ pc = "sigsetjmp" /\ pc' = "alarm"
        /\ run' = run /\ account' = account /\ results' = results /\ account \in Accounts
    BY <1>2, CallFacts DEF Sigsetjmp, Calls, Guarded, Typed
  <2> QED BY <2>1, <1>2, <1>0 DEF Sigsetjmp, Accounts, Objects, SocketOpen, Negotiating, Negotiated,
         Jump, Guarded, Certified, SuccessLeavesNothing, AlarmOutlivesOnlySsl
<1>3. CASE Alarm
  <2> DEFINE n == IF use_ssl THEN "SSL_CTX_new" ELSE "socket"
  <2>1. Typed' /\ pc = "alarm" /\ pc' = n
        /\ run' = run /\ account' = account /\ results' = results /\ account \in Accounts
    BY <1>3, CallFacts DEF Alarm, Calls, Guarded, Typed
  <2>2. use_ssl \in BOOLEAN /\ use_ssl = run.ssl[account]
    BY <2>1, RunFacts DEF use_ssl
  <2> QED BY <2>1, <2>2, <1>3, <1>0 DEF Alarm, Accounts, Objects, SocketOpen, Negotiating, Negotiated,
         Jump, Guarded, Certified, SuccessLeavesNothing, AlarmOutlivesOnlySsl
<1>4. CASE SslContext
  <2>1. Typed' /\ pc = "SSL_CTX_new" /\ pc' = "socket"
        /\ run' = run /\ account' = account /\ results' = results /\ account \in Accounts
    BY <1>4, CallFacts DEF SslContext, Calls, Guarded, Typed
  <2> QED BY <2>1, <1>4, <1>0 DEF SslContext, Accounts, Objects, SocketOpen, Negotiating, Negotiated,
         Jump, Guarded, Certified, SuccessLeavesNothing, AlarmOutlivesOnlySsl, Typed
<1>5. CASE OpenSocket
  <2>1. Typed' /\ pc = "socket" /\ pc' = "gethostbyname"
        /\ run' = run /\ account' = account /\ results' = results /\ account \in Accounts
    BY <1>5, CallFacts DEF OpenSocket, Calls, Guarded, Typed
  <2> QED BY <2>1, <1>5, <1>0 DEF OpenSocket, Accounts, Objects, SocketOpen, Negotiating, Negotiated,
         Jump, Guarded, Certified, SuccessLeavesNothing, AlarmOutlivesOnlySsl, Typed
<1> QED BY <1>1, <1>2, <1>3, <1>4, <1>5

\* ... and those that need it.
LEMMA NegotiationPreserves ==
    ASSUME IInv, LookUp \/ Connect \/ SslNew \/ SslNewFails \/ Bio \/ SslConnect \/ Opened
    PROVE  IInv'
<1> USE DEF IInv
<1>0. Accounts \subseteq Nat /\ run.time_out \in Nat
  BY RunFacts
<1>1. CASE LookUp
  <2>1. Typed' /\ pc = "gethostbyname" /\ pc' = "connect"
        /\ run' = run /\ account' = account /\ results' = results /\ account \in Accounts
    BY <1>1, CallFacts DEF LookUp, Calls, Guarded, Typed
  <2> QED BY <2>1, <1>1, <1>0 DEF LookUp, Accounts, Objects, SocketOpen, Negotiating, Negotiated,
         Jump, Guarded, Certified, SuccessLeavesNothing, AlarmOutlivesOnlySsl
<1>2. CASE Connect
  <2> DEFINE n == IF use_ssl THEN "SSL_new" ELSE "alarm (0)"
  <2>1. Typed' /\ pc = "connect" /\ pc' = n
        /\ run' = run /\ account' = account /\ results' = results /\ account \in Accounts
    BY <1>2, CallFacts DEF Connect, Calls, Guarded, Typed
  <2>2. use_ssl \in BOOLEAN /\ use_ssl = run.ssl[account]
    BY <2>1, RunFacts DEF use_ssl
  <2> QED BY <2>1, <2>2, <1>2, <1>0 DEF Connect, Accounts, Objects, SocketOpen, Negotiating, Negotiated,
         Jump, Guarded, Certified, SuccessLeavesNothing, AlarmOutlivesOnlySsl
<1>3. CASE SslNew
  <2>1. Typed' /\ pc = "SSL_new" /\ pc' = "BIO_new_socket"
        /\ run' = run /\ account' = account /\ results' = results /\ account \in Accounts
    BY <1>3, CallFacts DEF SslNew, Calls, Guarded, Typed
  <2> QED BY <2>1, <1>3, <1>0 DEF SslNew, Accounts, Objects, SocketOpen, Negotiating, Negotiated,
         Jump, Guarded, Certified, SuccessLeavesNothing, AlarmOutlivesOnlySsl
<1>4. CASE SslNewFails
  <2>1. Typed' /\ pc = "SSL_new" /\ pc' = "exit"
        /\ run' = run /\ account' = account /\ results' = results /\ account \in Accounts
    BY <1>4, CallFacts DEF SslNewFails, Calls, Guarded, Typed
  <2> QED BY <2>1, <1>4, <1>0 DEF SslNewFails, Accounts, Objects, SocketOpen, Negotiating, Negotiated,
         Jump, Guarded, Certified, SuccessLeavesNothing, AlarmOutlivesOnlySsl
<1>5. CASE Bio
  <2>1. Typed' /\ pc = "BIO_new_socket" /\ pc' = "SSL_connect"
        /\ run' = run /\ account' = account /\ results' = results /\ account \in Accounts
    BY <1>5, CallFacts DEF Bio, Calls, Guarded, Typed
  <2> QED BY <2>1, <1>5, <1>0 DEF Bio, Accounts, Objects, SocketOpen, Negotiating, Negotiated,
         Jump, Guarded, Certified, SuccessLeavesNothing, AlarmOutlivesOnlySsl
<1>6. CASE SslConnect
  <2>0. PICK ok \in BOOLEAN : verify_callback(ok) /\ verified' = ok
    BY <1>6 DEF SslConnect
  <2>1. Typed' /\ pc = "SSL_connect" /\ pc' = "alarm (0)"
        /\ run' = run /\ account' = account /\ results' = results /\ account \in Accounts
    BY <2>0, <1>6, CallFacts DEF SslConnect, Calls, Guarded, Typed
  <2>2. verified' = TRUE \/ run.skip_ssl_verify = TRUE
    BY <2>0, RunFacts DEF verify_callback
  <2> QED BY <2>1, <2>2, <1>6, <1>0 DEF SslConnect, Accounts, Objects, SocketOpen, Negotiating, Negotiated,
         Jump, Guarded, Certified, SuccessLeavesNothing, AlarmOutlivesOnlySsl
<1>7. CASE Opened
  <2>1. Typed' /\ pc = "alarm (0)" /\ pc' = "session"
        /\ run' = run /\ account' = account /\ results' = results /\ account \in Accounts
    BY <1>7, CallFacts DEF Opened, Calls, Guarded, Typed
  <2> QED BY <2>1, <1>7, <1>0 DEF Opened, Accounts, Objects, SocketOpen, Negotiating, Negotiated,
         Jump, Guarded, Certified, SuccessLeavesNothing, AlarmOutlivesOnlySsl, Typed
<1> QED BY <1>1, <1>2, <1>3, <1>4, <1>5, <1>6, <1>7

\* Every way out of c_open.
LEMMA FailuresPreserve ==
    ASSUME IInv, SigactionFails \/ SocketFails \/ LookUpFails \/ ConnectFails \/ BioFails
                 \/ SslConnectFails \/ TimeOut \/ LogoutFails
    PROVE  IInv'
<1>1. Return("failed") /\ UNCHANGED <<fds, ctxs, ssls>>
  BY DEF SigactionFails, SocketFails, LookUpFails, ConnectFails, BioFails, SslConnectFails,
         TimeOut, LogoutFails, Failure, FailureAlarmed
<1>2. pc # "done" /\ pc # "undefined"
  BY DEF SigactionFails, SocketFails, LookUpFails, ConnectFails, BioFails, SslConnectFails,
         TimeOut, LogoutFails, Guarded
<1>3. \/ pending' = FALSE
      \/ pending' = pending /\ pc \in (Negotiating \ {"SSL_CTX_new"}) \union {"sigaction", "session"}
  BY DEF SigactionFails, SocketFails, LookUpFails, ConnectFails, BioFails, SslConnectFails,
         TimeOut, LogoutFails, Failure, FailureAlarmed, Negotiating
<1> QED BY <1>1, <1>2, <1>3, FailurePreserves

\* The alarm of another account finds nothing that the invariant speaks about.
LEMMA WildJumpPreserves ==
    ASSUME IInv, WildJump
    PROVE  IInv'
<1> USE DEF IInv
<1>1. /\ pending = TRUE /\ pc \notin Guarded \union {"done", "exit", "undefined", "session"}
      /\ pc' = "undefined" /\ pending' = FALSE
      /\ UNCHANGED <<run, account, curr_env, fds, ctxs, ssls, results, verified>>
  BY DEF WildJump, Running, Jump, Guarded
<1>2. Typed'
  BY <1>1 DEF Typed, Calls
<1>3. AlarmOutlivesOnlySsl'
  BY <1>1 DEF AlarmOutlivesOnlySsl
<1> QED BY <1>1, <1>2, <1>3 DEF Accounts, Objects, SocketOpen, Negotiating, Negotiated, Jump,
       Guarded, Certified, SuccessLeavesNothing

\* The end of a session: c_close gives back everything c_open took for the account.
LEMMA SessionEndsPreserves ==
    ASSUME IInv, SessionEnds
    PROVE  IInv'
<1> USE DEF IInv
<1>1. PICK r \in {"ok", "failed"} : Return(r)
  BY DEF SessionEnds
<1>2. pc = "session" /\ pending' = pending /\ pending = FALSE
  BY DEF SessionEnds, Jump
<1>3. /\ Typed'
      /\ run' = run /\ account \in Accounts /\ account' = account + 1 /\ curr_env' = curr_env
      /\ pc' \in {"done", "sigaction"}
      /\ results'[account] = r
      /\ \A a \in 1..account - 1 : results'[a] = results[a]
  BY <1>1, <1>2, ReturnFacts
<1>4. account \in Nat \ {0} /\ run.ssl[account] \in BOOLEAN /\ Accounts \subseteq Nat
  BY <1>3, RunFacts DEF Typed
<1>5. /\ fds' = fds \ {account}
      /\ ctxs' \subseteq ctxs /\ ssls' \subseteq ssls /\ ssls' \subseteq ctxs'
      /\ account \notin ctxs'
  <2>1. CASE use_ssl
    BY <2>1 DEF SessionEnds, c_close, Objects
  <2>2. CASE ~use_ssl
    BY <2>2 DEF SessionEnds, c_close, Objects, use_ssl
  <2> QED BY <2>1, <2>2
<1>0. \A a \in fds \union ctxs : a <= account + 1
  BY <1>4 DEF Objects
<1>6. Objects'
  BY <1>0, <1>3, <1>5 DEF Objects, SocketOpen, Negotiating, Negotiated, Accounts
<1>7. Jump' /\ Certified' /\ AlarmOutlivesOnlySsl'
  BY <1>2, <1>3 DEF Jump, Guarded, Certified, AlarmOutlivesOnlySsl
<1>8. SuccessLeavesNothing'
  <2> SUFFICES ASSUME NEW a \in 1..account, results'[a] = "ok"
               PROVE  a \notin fds' \union ctxs' \union ssls'
    BY <1>3, <1>4 DEF SuccessLeavesNothing
  <2>1. CASE a = account
    BY <2>1, <1>5
  <2>2. CASE a \in 1..account - 1
    BY <2>2, <1>3, <1>5 DEF SuccessLeavesNothing
  <2> QED BY <2>1, <2>2, <1>4
<1> QED BY <1>3, <1>6, <1>7, <1>8

LEMMA NextIInv == IInv /\ [Next]_vars => IInv'
<1> SUFFICES ASSUME IInv, [Next]_vars PROVE IInv'
  OBVIOUS
<1>1. CASE Next
  BY <1>1, BeginningPreserves, NegotiationPreserves, FailuresPreserve, WildJumpPreserves,
     SessionEndsPreserves
  DEF Next, LocalNext, Blocking, Signal
<1>2. CASE UNCHANGED vars
  BY <1>2 DEF vars, IInv, Typed, Accounts, Objects, Jump, Certified, SuccessLeavesNothing,
     AlarmOutlivesOnlySsl
<1> QED BY <1>1, <1>2
----------------------------------------------------------------------------
\* IInv, the inductive invariant, holds in every state: what the objects, the alarm and
\* the descriptors are at each place of c_open, c_read and c_close.
THEOREM Invariance == Spec => []IInv
<1>1. Init => IInv
  BY InitIInv
<1>2. IInv /\ [Next]_vars => IInv'
  BY NextIInv
<1> QED BY <1>1, <1>2, PTL DEF Spec

\* TypeOK: the number of results, the place in the run and the objects fit together.
THEOREM TypeCorrect == Spec => []TypeOK
<1>1. IInv => TypeOK
  BY RunFacts DEF IInv, Typed, Objects, Jump, TypeOK, Calls
<1> QED BY <1>1, Invariance, PTL

\* No alarm, no missing descriptor and no refused certificate in a session
\* (Account::check), whatever became of the accounts before.
THEOREM SessionsUndisturbed == Spec => []SessionUndisturbed
<1>1. IInv => SessionUndisturbed
  <2> SUFFICES ASSUME IInv, pc = "session"
               PROVE  /\ ~pending /\ account \in fds
                      /\ use_ssl => account \in ctxs \intersect ssls /\ (verified \/ run.skip_ssl_verify)
    BY DEF SessionUndisturbed
  <2>1. ~pending /\ account \in fds
    BY DEF IInv, Jump, Objects, SocketOpen
  <2>2. ASSUME use_ssl PROVE account \in ctxs \intersect ssls /\ (verified \/ run.skip_ssl_verify)
    <3>1. run.ssl[account] = TRUE
      <4>1. account \in Accounts
        BY DEF IInv, Objects, SocketOpen
      <4>2. run.ssl[account] \in BOOLEAN
        BY <4>1, RunFacts DEF IInv
      <4> QED BY <4>2, <2>2 DEF use_ssl
    <3> QED BY <3>1 DEF IInv, Objects, SocketOpen, Negotiated, Certified
  <2> QED BY <2>1, <2>2
<1> QED BY <1>1, Invariance, PTL

\* An account that was checked with success leaves nothing open (c_close).
THEOREM NothingLeft == Spec => []SuccessLeavesNothing
<1>1. IInv => SuccessLeavesNothing
  BY DEF IInv
<1> QED BY <1>1, Invariance, PTL

\* Only a failed SSL negotiation leaves an alarm to the next account (c_open).
THEOREM OnlySslLeavesAlarms == Spec => []AlarmOutlivesOnlySsl
<1>1. IInv => AlarmOutlivesOnlySsl
  BY DEF IInv
<1> QED BY <1>1, Invariance, PTL
----------------------------------------------------------------------------
(***************************************************************************)
(* Connection implements Opening: for the rest of the program an account's     *)
(* connection opens and is closed or abandoned, or does not open, in one step  *)
(* each.                                                                      *)
(***************************************************************************)
Held == (fds \union ctxs \union ssls) \ {account}
Promised == <<Len(run.ssl), results, pc = "session", Held>>

\* What an account that comes to its end holds is held from then on.
LEMMA ReturnOpening ==
    ASSUME IInv, NEW r \in {"ok", "failed"}, Return(r), pc # "done",
           fds' \subseteq fds, ctxs' \subseteq ctxs, ssls' \subseteq ssls
    PROVE  /\ Len(results) + 1 = account /\ account <= Len(run.ssl)
           /\ run' = run /\ results' = Append(results, r) /\ pc' # "session"
           /\ Held' = fds' \union ctxs' \union ssls'
<1>1. run' = run /\ account' = account + 1 /\ account \in Accounts /\ pc' \in {"done", "sigaction"}
  BY ReturnFacts DEF IInv
<1>2. Len(run.ssl) \in Nat \ {0} /\ Accounts = 1..Len(run.ssl)
  BY RunFacts DEF IInv
<1>3. Len(results) = account - 1 /\ results' = Append(results, r)
  BY DEF IInv, Typed, Return
<1>4. account' \notin fds' \union ctxs' \union ssls'
  <2>1. \A a \in fds \union ctxs \union ssls : a <= account
    BY DEF IInv, Objects
  <2>2. account \in Nat /\ ~(account + 1 <= account)
    BY <1>1, <1>2
  <2> QED BY <2>1, <2>2, <1>1
<1>5. Held' = fds' \union ctxs' \union ssls'
  BY <1>4 DEF Held
<1> QED BY <1>1, <1>2, <1>3, <1>5

\* An account that fails without c_close: what it holds, if anything, is held from then on.
LEMMA FailureHeld ==
    ASSUME IInv, Return("failed"), pc # "done", UNCHANGED <<fds, ctxs, ssls>>
    PROVE  /\ Held' \in {Held, Held \union {Len(results) + 1}}
           /\ account \in fds => Held' = Held \union {Len(results) + 1}
<1>1. Len(results) + 1 = account /\ Held' = fds' \union ctxs' \union ssls'
  BY ReturnOpening
<1>2. Held' = fds \union ctxs \union ssls
  BY <1>1
<1>3. account \in fds \union ctxs \union ssls => Held' = Held \union {account}
  BY <1>2 DEF Held
<1>4. account \notin fds \union ctxs \union ssls => Held' = Held
  BY <1>2 DEF Held
<1> QED BY <1>1, <1>3, <1>4

\* The steps that are none for the rest of the program.
LEMMA CallOpening ==
    ASSUME IInv, Sigaction \/ Sigsetjmp \/ Alarm \/ SslContext \/ OpenSocket \/ LookUp \/ Connect
                 \/ SslNew \/ SslNewFails \/ Bio \/ SslConnect \/ WildJump
    PROVE  UNCHANGED Promised
<1>1. run' = run /\ results' = results
  BY DEF Sigaction, Sigsetjmp, Alarm, SslContext, OpenSocket, LookUp, Connect, SslNew,
         SslNewFails, Bio, SslConnect, WildJump, Call
<1>2. pc # "session" /\ pc' # "session"
  BY DEF Sigaction, Sigsetjmp, Alarm, SslContext, OpenSocket, LookUp, Connect, SslNew,
         SslNewFails, Bio, SslConnect, WildJump, Call, IInv, Jump
<1>3. /\ account' = account
      /\ fds' \in {fds, fds \union {account}} /\ ctxs' \in {ctxs, ctxs \union {account}}
      /\ ssls' \in {ssls, ssls \union {account}}
  BY DEF Sigaction, Sigsetjmp, Alarm, SslContext, OpenSocket, LookUp, Connect, SslNew,
         SslNewFails, Bio, SslConnect, WildJump, Call
<1>4. Held' = Held
  BY <1>3 DEF Held
<1> QED BY <1>1, <1>2, <1>4 DEF Promised

\* The steps of Connection are steps of Opening, or none.
LEMMA NextOpening ==
    ASSUME IInv, [Next]_vars
    PROVE  [Promise!OpeningNext]_Promised
<1> USE DEF Promise!OpeningNext
<1>1. CASE Sigaction \/ Sigsetjmp \/ Alarm \/ SslContext \/ OpenSocket \/ LookUp \/ Connect
           \/ SslNew \/ SslNewFails \/ Bio \/ SslConnect \/ WildJump
  BY <1>1, CallOpening
<1>2. CASE Opened
  <2>1. /\ pc = "alarm (0)" /\ pc' = "session" /\ run' = run /\ results' = results
        /\ account' = account /\ UNCHANGED <<fds, ctxs, ssls>>
    BY <1>2 DEF Opened, Call
  <2>2. Len(results) + 1 <= Len(run.ssl)
    <3>1. pc \in Calls /\ pc # "done" /\ account \in 1..Len(run.ssl) + 1
          /\ (account > Len(run.ssl) <=> pc = "done") /\ Len(results) = account - 1
      BY <2>1 DEF IInv, Typed
    <3>2. Len(run.ssl) \in Nat
      BY RunFacts DEF IInv
    <3> QED BY <3>1, <3>2
  <2>3. (pc = "session")' = TRUE /\ ~(pc = "session")
    BY <2>1
  <2>4. Held' = Held
    BY <2>1 DEF Held
  <2>5. Promise!Opens
    BY <2>1, <2>2, <2>3, <2>4 DEF Promise!Opens, Promise!AtHand, Held
  <2> QED BY <2>5
<1>3. CASE SigactionFails \/ SocketFails \/ LookUpFails \/ ConnectFails \/ BioFails
           \/ SslConnectFails \/ TimeOut
  <2>1. Return("failed") /\ pc \notin {"session", "done"} /\ UNCHANGED <<fds, ctxs, ssls>>
    BY <1>3 DEF SigactionFails, SocketFails, LookUpFails, ConnectFails, BioFails, SslConnectFails,
         TimeOut, Failure, FailureAlarmed, Guarded
  <2>2. /\ Len(results) + 1 = account /\ account <= Len(run.ssl)
        /\ run' = run /\ results' = Append(results, "failed") /\ pc' # "session"
    BY <2>1, ReturnOpening
  <2>3. Held' \in {Held, Held \union {Len(results) + 1}}
    BY <2>1, FailureHeld
  <2>4. Promise!OpensNot
    BY <2>1, <2>2, <2>3 DEF Promise!OpensNot, Promise!AtHand, Promise!Result, Held
  <2> QED BY <2>4
<1>4. CASE SessionEnds
  <2>1. PICK r \in {"ok", "failed"} : Return(r)
    BY <1>4 DEF SessionEnds
  <2>2. pc = "session" /\ c_close /\ (use_ssl \/ ~use_ssl)
    BY <1>4 DEF SessionEnds
  <2>3. account \in Accounts /\ run.ssl[account] \in BOOLEAN /\ ssls \subseteq ctxs
        /\ (account \in ctxs => run.ssl[account] = TRUE)
    BY <2>1, <2>2, ReturnFacts, RunFacts DEF IInv, Objects
  <2>4. fds' = fds \ {account} /\ ctxs' = ctxs \ {account} /\ ssls' = ssls \ {account}
    <3>1. CASE use_ssl
      BY <3>1, <2>2 DEF c_close
    <3>2. CASE ~use_ssl
      BY <3>2, <2>2, <2>3 DEF c_close, use_ssl
    <3> QED BY <3>1, <3>2
  <2>5. /\ Len(results) + 1 = account /\ run' = run /\ results' = Append(results, r) /\ pc' # "session"
        /\ Held' = fds' \union ctxs' \union ssls'
    BY <2>1, <2>2, <2>4, ReturnOpening
  <2>6. Held' = Held
    BY <2>4, <2>5 DEF Held
  <2>7. Promise!Closes
    BY <2>1, <2>2, <2>5, <2>6 DEF Promise!Closes, Promise!Result, Held
  <2> QED BY <2>7
<1>5. CASE LogoutFails
  <2>1. Return("failed") /\ pc = "session" /\ UNCHANGED <<fds, ctxs, ssls>>
    BY <1>5 DEF LogoutFails, FailureAlarmed
  <2>2. Len(results) + 1 = account /\ run' = run /\ results' = Append(results, "failed") /\ pc' # "session"
    BY <2>1, ReturnOpening
  <2>3. account \in fds
    BY <2>1 DEF IInv, Objects, SocketOpen
  <2>4. Held' = Held \union {Len(results) + 1}
    BY <2>1, <2>3, FailureHeld
  <2>5. Promise!Abandons
    BY <2>1, <2>2, <2>4 DEF Promise!Abandons, Promise!AtHand, Promise!Result, Held
  <2> QED BY <2>5
<1>6. CASE UNCHANGED vars
  BY <1>6 DEF vars, Promised, Held
<1> QED BY <1>1, <1>2, <1>3, <1>4, <1>5, <1>6 DEF Next, LocalNext, Blocking, Signal

\* What c_open, c_close and the end of Account::check do to connections is what Opening
\* promises: every account is tried once, a connection opens, and is closed with all it
\* took or is abandoned by a failed logout, and only an account that failed holds
\* something afterwards.
THEOREM ConnectionOpens == Spec => Opening
<1>1. Init => Promise!OpeningInit
  <2> SUFFICES ASSUME Init PROVE Promise!OpeningInit
    OBVIOUS
  <2>1. Len(run.ssl) \in Nat
    BY InitIInv, RunFacts DEF IInv
  <2> QED BY <2>1 DEF Init, Promise!OpeningInit
<1>2. IInv /\ [Next]_vars => [Promise!OpeningNext]_<<Len(run.ssl), results, pc = "session",
                                                    (fds \union ctxs \union ssls) \ {account}>>
  BY NextOpening DEF Promised, Held
<1> QED BY <1>1, <1>2, Invariance, PTL DEF Spec, Opening, Promise!OpeningSpec
=============================================================================
