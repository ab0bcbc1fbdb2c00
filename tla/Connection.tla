------------------------------ MODULE Connection ------------------------------
(***************************************************************************)
(* Socket::c_open and c_close (src/src/socket.cc) for the accounts of a run,   *)
(* call by call.  c_open guards its blocking calls with alarm (2): SIGALRM     *)
(* jumps with siglongjmp to the sigsetjmp at its beginning.  The alarm, the    *)
(* jump buffer and the SSL objects are global, they outlive a call; a          *)
(* descriptor lives until somebody closes it.                                 *)
(***************************************************************************)
EXTENDS Integers, Sequences, FiniteSets

CONSTANT Runs    \* [ssl, time_out, skip_ssl_verify]: ssl says of each account if it uses SSL

ASSUME RunsAssumption ==
    \A r \in Runs : /\ r.ssl \in Seq(BOOLEAN) /\ r.ssl # <<>>
                    /\ r.time_out \in Nat /\ r.skip_ssl_verify \in BOOLEAN

VARIABLES
    run,
    account,     \* the number of the account at hand
    pc,          \* the next call of c_open, "session", "done", "exit" or "undefined"
    pending,     \* SIGALRM is due
    curr_env,    \* the account in whose c_open sigsetjmp was called last, 0 for none
    fds,         \* accounts whose descriptor is open
    ctxs, ssls,  \* accounts whose SSL_CTX and SSL are allocated
    results,     \* history: what became of the accounts before
    verified     \* history: the certificate of the connection at hand was accepted

vars == <<run, account, pc, pending, curr_env, fds, ctxs, ssls, results, verified>>

Accounts == DOMAIN run.ssl
use_ssl == run.ssl[account]

Init ==
    /\ run \in Runs
    /\ account = 1 /\ pc = "sigaction"
    /\ pending = FALSE /\ curr_env = 0
    /\ fds = {} /\ ctxs = {} /\ ssls = {}
    /\ results = <<>> /\ verified = FALSE

\* The calls after sigsetjmp, up to the return.
Guarded == {"alarm", "SSL_CTX_new", "socket", "gethostbyname", "connect",
            "SSL_new", "BIO_new_socket", "SSL_connect", "alarm (0)"}
Running == pc \notin {"done", "exit", "undefined"}
----------------------------------------------------------------------------
\* The end of Account::check, and the next account.
Return(result) ==
    /\ results' = Append(results, result)
    /\ account' = account + 1
    /\ pc' = IF account = Len(run.ssl) THEN "done" ELSE "sigaction"
    /\ verified' = FALSE
    /\ UNCHANGED <<run, curr_env>>

\* c_open returns GEN_FAILURE_FLAG after alarm (0), or without it.
Failure ==
    /\ Return("failed")
    /\ pending' = FALSE
FailureAlarmed ==
    /\ Return("failed")
    /\ UNCHANGED pending

Call(name, next) ==
    /\ pc = name /\ pc' = next
    /\ UNCHANGED <<run, account, results>>

Sigaction == Call("sigaction", "sigsetjmp") /\ UNCHANGED <<pending, curr_env, fds, ctxs, ssls, verified>>
SigactionFails == pc = "sigaction" /\ FailureAlarmed /\ UNCHANGED <<fds, ctxs, ssls>>

Sigsetjmp ==
    /\ Call("sigsetjmp", "alarm")
    /\ curr_env' = account
    /\ UNCHANGED <<pending, fds, ctxs, ssls, verified>>

\* Mutant: only the SSL negotiation is guarded.
AlarmForSsl ==
    /\ Call("alarm", IF use_ssl THEN "SSL_CTX_new" ELSE "socket")
    /\ pending' = (run.time_out > 0 /\ use_ssl)
    /\ UNCHANGED <<curr_env, fds, ctxs, ssls, verified>>

\* alarm replaces the one that is due, alarm (0) only cancels it.
Alarm ==
    /\ Call("alarm", IF use_ssl THEN "SSL_CTX_new" ELSE "socket")
    /\ pending' = (run.time_out > 0)
    /\ UNCHANGED <<curr_env, fds, ctxs, ssls, verified>>

SslContext ==
    /\ Call("SSL_CTX_new", "socket")
    /\ ctxs' = ctxs \union {account}
    /\ UNCHANGED <<pending, curr_env, fds, ssls, verified>>

OpenSocket ==
    /\ Call("socket", "gethostbyname")
    /\ fds' = fds \union {account}
    /\ UNCHANGED <<pending, curr_env, ctxs, ssls, verified>>
SocketFails == pc = "socket" /\ Failure /\ UNCHANGED <<fds, ctxs, ssls>>

LookUp == Call("gethostbyname", "connect") /\ UNCHANGED <<pending, curr_env, fds, ctxs, ssls, verified>>
LookUpFails == pc = "gethostbyname" /\ Failure /\ UNCHANGED <<fds, ctxs, ssls>>

Connect ==
    /\ Call("connect", IF use_ssl THEN "SSL_new" ELSE "alarm (0)")
    /\ UNCHANGED <<pending, curr_env, fds, ctxs, ssls, verified>>
\* Mutant: this way out forgets the alarm, too.
ConnectFailsAlarmed == pc = "connect" /\ FailureAlarmed /\ UNCHANGED <<fds, ctxs, ssls>>
ConnectFails == pc = "connect" /\ Failure /\ UNCHANGED <<fds, ctxs, ssls>>

SslNew ==
    /\ Call("SSL_new", "BIO_new_socket")
    /\ ssls' = ssls \union {account}
    /\ UNCHANGED <<pending, curr_env, fds, ctxs, verified>>
SslNewFails ==
    /\ Call("SSL_new", "exit")
    /\ UNCHANGED <<pending, curr_env, fds, ctxs, ssls, verified>>

Bio == Call("BIO_new_socket", "SSL_connect") /\ UNCHANGED <<pending, curr_env, fds, ctxs, ssls, verified>>
BioFails == pc = "BIO_new_socket" /\ FailureAlarmed /\ UNCHANGED <<fds, ctxs, ssls>>

\* Mutant of verify_callback: what OpenSSL found is reported and nothing else.
AcceptAll(preverify_ok) == TRUE

verify_callback(preverify_ok) == preverify_ok \/ run.skip_ssl_verify

SslConnect ==
    /\ Call("SSL_connect", "alarm (0)")
    /\ \E ok \in BOOLEAN : verify_callback(ok) /\ verified' = ok
    /\ UNCHANGED <<pending, curr_env, fds, ctxs, ssls>>
SslConnectFails == pc = "SSL_connect" /\ FailureAlarmed /\ UNCHANGED <<fds, ctxs, ssls>>

\* Mutant: the alarm stays on.
OpenedAlarmed == Call("alarm (0)", "session") /\ UNCHANGED <<pending, curr_env, fds, ctxs, ssls, verified>>

\* c_open returns 0.
Opened ==
    /\ Call("alarm (0)", "session")
    /\ pending' = FALSE
    /\ UNCHANGED <<curr_env, fds, ctxs, ssls, verified>>

\* SIGALRM: connect_alarm jumps into the c_open that called sigsetjmp last.  When
\* that call has returned the outcome is undefined.
TimeOut ==
    /\ pending /\ pc \in Guarded /\ curr_env = account
    /\ Failure
    /\ UNCHANGED <<fds, ctxs, ssls>>
WildJump ==
    /\ pending /\ Running /\ ~(pc \in Guarded /\ curr_env = account)
    /\ pending' = FALSE /\ pc' = "undefined"
    /\ UNCHANGED <<run, account, curr_env, fds, ctxs, ssls, results, verified>>
----------------------------------------------------------------------------
\* Mutant of c_close: SSL_free is forgotten.
CloseHalf ==
    /\ fds' = fds \ {account}
    /\ ctxs' = IF use_ssl THEN ctxs \ {account} ELSE ctxs
    /\ UNCHANGED ssls

c_close ==
    /\ fds' = fds \ {account}
    /\ ctxs' = IF use_ssl THEN ctxs \ {account} ELSE ctxs
    /\ ssls' = IF use_ssl THEN ssls \ {account} ELSE ssls

\* Account::check after c_open: the session ends well or badly and the connection is
\* closed.
SessionEnds ==
    /\ pc = "session"
    /\ \E result \in {"ok", "failed"} : Return(result)
    /\ c_close
    /\ UNCHANGED pending

\* Mutant: what logout returns is not looked at.
LogoutForgiven ==
    /\ pc = "session" /\ Return("ok")
    /\ UNCHANGED <<pending, fds, ctxs, ssls>>

\* The last line of Account::check does not call c_close if logout fails.
LogoutFails == pc = "session" /\ FailureAlarmed /\ UNCHANGED <<fds, ctxs, ssls>>

\* The calls of c_open that do not wait, and those that wait for the network, perhaps
\* for ever.
LocalNext ==
    \/ Sigaction \/ SigactionFails \/ Sigsetjmp \/ Alarm \/ SslContext
    \/ OpenSocket \/ SocketFails \/ SslNew \/ SslNewFails \/ Bio \/ BioFails \/ Opened
Blocking ==
    \/ LookUp \/ LookUpFails \/ Connect \/ ConnectFails \/ SslConnect \/ SslConnectFails

Signal == TimeOut \/ WildJump

Next == LocalNext \/ Blocking \/ Signal \/ SessionEnds \/ LogoutFails

\* The program runs on where it does not wait, and the kernel delivers the alarm.  That
\* a session ends is not assumed: c_read may wait for ever.
Spec == Init /\ [][Next]_vars /\ WF_vars(LocalNext) /\ WF_vars(Signal)
----------------------------------------------------------------------------
TypeOK ==
    /\ run \in Runs
    /\ account \in 1..Len(run.ssl) + 1 /\ Len(results) = account - 1
    /\ pc \in Guarded \union {"sigaction", "sigsetjmp", "session", "done", "exit", "undefined"}
    /\ account > Len(run.ssl) <=> pc = "done"
    /\ pending \in BOOLEAN /\ verified \in BOOLEAN
    /\ curr_env \in 0..Len(run.ssl)
    /\ fds \subseteq Accounts /\ ctxs \subseteq Accounts /\ ssls \subseteq ctxs

\* While an account is being read no alarm is due, so that no jump can take its
\* session away; its descriptor is open; and with SSL the server's certificate was
\* accepted or the user asked not to look at it.
SessionUndisturbed ==
    pc = "session" =>
        /\ ~pending
        /\ account \in fds
        /\ use_ssl => account \in ctxs \intersect ssls /\ (verified \/ run.skip_ssl_verify)

\* An alarm is due outside of c_open, or jumps into a call that has returned, only
\* when the c_open that called sigsetjmp last gave up its SSL negotiation: without SSL
\* and without a time out no connection is disturbed by the one before.
AlarmOutlivesOnlySsl ==
    (pending /\ pc \notin Guarded \union {"exit"}) \/ pc = "undefined" =>
        /\ run.time_out > 0
        /\ curr_env \in ctxs /\ curr_env < account /\ results[curr_env] = "failed"

\* An account that returned 0 has left no descriptor and no SSL object behind, so what
\* is left open is at most one descriptor for every account that failed.
SuccessLeavesNothing ==
    \A a \in 1..account - 1 : results[a] = "ok" => a \notin fds \union ctxs \union ssls

\* With a time out c_open returns, whatever the network does.
OpenReturns == run.time_out > 0 /\ pc \in Guarded ~> pc \notin Guarded

\* c_open with all its calls is one step for the rest of the program: every account is
\* tried once; a connection is closed with its descriptor and its SSL objects, or
\* Account::check abandons it because logout failed, and says so in its result.
Promise == INSTANCE Opening WITH
    accounts <- Len(run.ssl), open <- (pc = "session"),
    held <- (fds \union ctxs \union ssls) \ {account}
Opening == Promise!OpeningSpec
=============================================================================
