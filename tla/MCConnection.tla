---------------------------- MODULE MCConnection ----------------------------
(***************************************************************************)
(* Up to three accounts with and without SSL, one after the other.            *)
(***************************************************************************)
EXTENDS Connection

MCRuns == [ssl : UNION {[1..n -> BOOLEAN] : n \in 1..3}, time_out : {0, 30}, skip_ssl_verify : BOOLEAN]
=============================================================================
