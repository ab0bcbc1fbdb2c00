------------------------------- MODULE Measures -------------------------------
(***************************************************************************)
(* Tuples of numbers that measure how much a loop or a scan has left to do,     *)
(* the first number counting most.                                           *)
(***************************************************************************)
EXTENDS Integers

\* The measure s is below t: where they first differ s has the lesser number.
Nearer(s, t) ==
    \E k \in DOMAIN s : s[k] \in 0..t[k] - 1 /\ \A j \in 1..k - 1 : s[j] = t[j]
=============================================================================
