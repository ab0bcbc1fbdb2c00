------------------------------- MODULE Opening -------------------------------
(***************************************************************************)
(* What Socket::c_open, c_close and Account::check promise the rest of the     *)
(* program: accounts are tried one after the other.  A connection does not     *)
(* open, or it opens and is closed with everything that was allocated for it,  *)
(* or, when the logout fails, it is abandoned.  Only an account that failed    *)
(* holds something afterwards, and nothing is given back later.                *)
(***************************************************************************)
EXTENDS Naturals, Sequences

VARIABLES
    accounts,   \* how many there are
    results,    \* what became of those tried so far
    open,       \* the program has a connection to use
    held        \* accounts tried that still hold a descriptor or SSL objects

OpeningInit == accounts \in Nat /\ results = <<>> /\ open = FALSE /\ held = {}

AtHand == Len(results) + 1
Result(r) == results' = Append(results, r) /\ UNCHANGED accounts

Opens ==
    /\ ~open /\ AtHand <= accounts
    /\ open' = TRUE
    /\ UNCHANGED <<accounts, results, held>>
OpensNot ==
    /\ ~open /\ AtHand <= accounts
    /\ Result("failed")
    /\ held' \in {held, held \union {AtHand}}
    /\ UNCHANGED open
Closes ==
    /\ open /\ open' = FALSE
    /\ \E r \in {"ok", "failed"} : Result(r)
    /\ UNCHANGED held
Abandons ==
    /\ open /\ open' = FALSE
    /\ Result("failed")
    /\ held' = held \union {AtHand}

OpeningNext == Opens \/ OpensNot \/ Closes \/ Abandons
OpeningSpec == OpeningInit /\ [][OpeningNext]_<<accounts, results, open, held>>
=============================================================================
