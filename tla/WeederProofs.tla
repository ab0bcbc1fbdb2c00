---------------------------- MODULE WeederProofs ----------------------------
(***************************************************************************)
(* Theorems about Weeder: its type invariant and every safety property its   *)
(* runs check, for all preferences, headers and numbers of headers.          *)
(***************************************************************************)
EXTENDS Weeder, WeedRulesProofs

----------------------------------------------------------------------------
(***************************************************************************)
(* The inductive invariant: every verdict in the log is the one is_weed gives *)
(* for the IDs of the headers before it, and msg_ids holds those IDs.         *)
(***************************************************************************)
SeenBefore(k) ==
    IF prefs.del_duplicates
    THEN {i \in Body : \E j \in 1..(k - 1) : i = IDof(j) /\ IDof(j) # NoText}
    ELSE {}

Verdicts ==
    \A k \in DOMAIN log : log[k].weed = is_weed(prefs, SeenBefore(k), log[k].header)

IInv ==
    /\ TypeOK
    /\ msg_ids = SeenBefore(Len(log) + 1)
    /\ Verdicts

\* The invariant holds before the first header ...
LEMMA InitIInv == Init => IInv
<1> SUFFICES ASSUME Init PROVE IInv
  OBVIOUS
<1>1. TypeOK BY DEF Init, TypeOK
<1>2. msg_ids = SeenBefore(Len(log) + 1)
  BY DEF Init, SeenBefore
<1>3. Verdicts BY DEF Init, Verdicts
<1> QED BY <1>1, <1>2, <1>3 DEF IInv

\* ... and every call of is_weed preserves it.
LEMMA NextIInv == IInv /\ [Next]_vars => IInv'
<1> SUFFICES ASSUME IInv, [Next]_vars PROVE IInv'
  OBVIOUS
<1> USE DEF IInv
<1>1. CASE UNCHANGED vars
  BY <1>1 DEF vars, TypeOK, SeenBefore, Verdicts, IDof
<1>2. ASSUME NEW h \in Headers, Examine(h) PROVE IInv'
  <2> DEFINE w == is_weed(prefs, msg_ids, h)
  <2>0. PICK n \in Nat : n = Len(log)
    BY DEF TypeOK
  <2>1. h \in Header /\ n \in Nat /\ log \in Seq([header : Headers, weed : {0, 1}])
    BY WeederAssumption DEF TypeOK
  <2>2. w \in {0, 1} BY is_weedType
  <2>3. prefs' = prefs /\ log' = Append(log, [header |-> h, weed |-> w])
    BY <1>2 DEF Examine
  <2>4. Len(log') = n + 1 /\ log'[n + 1] = [header |-> h, weed |-> w]
        /\ \A k \in 1..n : log'[k] = log[k]
    <3> HIDE DEF w
    <3> QED BY <2>0, <2>1, <2>2, <2>3
  <2>5. msg_ids' = Remember(prefs, msg_ids, h) BY <1>2 DEF Examine
  <2>6. TypeOK'
    <3>1. log' \in Seq([header : Headers, weed : {0, 1}])
      <4> HIDE DEF w
      <4> QED BY <2>1, <2>2, <2>3
    <3>2. msg_ids' \subseteq Body
      BY <2>1, <2>5, IDType DEF Remember, TypeOK
    <3> QED BY <2>3, <3>1, <3>2 DEF TypeOK
  <2>7. \A k \in 1..n : SeenBefore(k)' = SeenBefore(k)
    <3> TAKE k \in 1..n
    <3>1. \A j \in 1..(k - 1) : j \in 1..n BY <2>1
    <3>2. \A j \in 1..(k - 1) : IDof(j)' = IDof(j)
      BY <2>4, <3>1 DEF IDof
    <3> QED BY <2>3, <3>2 DEF SeenBefore
  <2>8. (msg_ids = SeenBefore(Len(log) + 1))'
    <3>1. \A j \in 1..n : IDof(j)' = IDof(j) BY <2>4 DEF IDof
    <3>2. IDof(n + 1)' = ID(h) BY <2>4 DEF IDof
    <3>3. 1..((n + 2) - 1) = (1..n) \union {n + 1} /\ 1..((n + 1) - 1) = 1..n
      BY <2>1
    <3>4. Len(log') + 1 = n + 2 BY <2>1, <2>4
    <3>5. SeenBefore(n + 2)' = Remember(prefs, SeenBefore(n + 1), h)
      BY <2>1, <2>3, <3>1, <3>2, <3>3, IDType DEF SeenBefore, Remember
    <3> QED BY <2>0, <2>5, <3>4, <3>5
  <2>9. Verdicts'
    <3> SUFFICES ASSUME NEW k \in DOMAIN log'
                 PROVE  log'[k].weed = is_weed(prefs', SeenBefore(k)', log'[k].header)
      BY DEF Verdicts
    <3>1. DOMAIN log' = 1..(n + 1) BY <2>4, <2>6 DEF TypeOK
    <3>2. CASE k \in 1..n
      BY <2>1, <2>3, <2>4, <2>7, <3>2 DEF Verdicts
    <3>3. CASE k = n + 1
      <4>1. SeenBefore(n + 1)' = SeenBefore(n + 1)
        <5>1. \A j \in 1..((n + 1) - 1) : IDof(j)' = IDof(j)
          BY <2>1, <2>4 DEF IDof
        <5> QED BY <2>3, <5>1 DEF SeenBefore
      <4>2. w = is_weed(prefs', SeenBefore(k)', h)
        BY <2>0, <2>3, <3>3, <4>1
      <4> QED BY <2>4, <3>3, <4>2
    <3> QED BY <2>1, <3>1, <3>2, <3>3
  <2> QED BY <2>6, <2>8, <2>9
<1> QED BY <1>1, <1>2 DEF Next

\* The log is always a record of what is_weed had to answer.
THEOREM Invariance == Spec => []IInv
BY InitIInv, NextIInv, PTL DEF Spec

\* The weeder's state keeps its types whatever headers arrive in whatever order.
THEOREM TypeCorrect == Spec => []TypeOK
<1>1. IInv => TypeOK BY DEF IInv
<1> QED BY Invariance, <1>1, PTL

----------------------------------------------------------------------------
(***************************************************************************)
(* What the inductive invariant says of the mails.                           *)
(***************************************************************************)
\* A position of the log and its message ID.
LEMMA LogEntry ==
    ASSUME TypeOK, NEW k \in DOMAIN log
    PROVE  /\ k \in 1..Len(log) /\ k \in Nat
           /\ log[k].header \in Header
           /\ log[k].weed \in {0, 1}
           /\ IDof(k) \in Body \union {NoText}
<1>1. Len(log) \in Nat /\ DOMAIN log = 1..Len(log) BY DEF TypeOK
<1>2. log[k] \in [header : Headers, weed : {0, 1}]
  <2>1. log \in Seq([header : Headers, weed : {0, 1}]) BY DEF TypeOK
  <2>2. k \in 1..Len(log) BY <1>1
  <2> QED BY <2>1, <2>2, ElementOfSeq, Zenon
<1>3. log[k].header \in Header BY <1>2, WeederAssumption
<1> QED BY <1>1, <1>2, <1>3, IDType DEF IDof

\* A mail that the rules do not condemn is deleted only after an earlier copy.
LEMMA DuplicateHasCopy ==
    ASSUME IInv, NEW k \in DOMAIN log, ~Kept(k), ~WeedByRules(prefs, log[k].header)
    PROVE  prefs.del_duplicates /\ \E j \in DOMAIN log : Copies(j, k)
<1>1. TypeOK /\ Verdicts BY DEF IInv
<1>2. is_weed(prefs, SeenBefore(k), log[k].header) # 0
  BY <1>1 DEF Verdicts, Kept
<1>3. check_duplicates(prefs, SeenBefore(k), log[k].header) = 1
  BY <1>2 DEF is_weed
<1>4. prefs.del_duplicates /\ IDof(k) # NoText /\ IDof(k) \in SeenBefore(k)
  BY <1>3 DEF check_duplicates, IDof
<1>5. PICK j \in 1..(k - 1) : IDof(k) = IDof(j)
  BY <1>4 DEF SeenBefore
<1>6. k \in 1..Len(log) /\ Len(log) \in Nat /\ DOMAIN log = 1..Len(log)
  BY <1>1, LogEntry DEF TypeOK
<1>7. j \in DOMAIN log /\ j < k BY <1>5, <1>6
<1> QED BY <1>4, <1>5, <1>7 DEF Copies

\* With DEL_DUPLICATES no two copies of a mail are kept, in whatever order the
\* accounts are read and whatever other mails lie between the copies.
THEOREM NoSecondCopy == Spec => []OneCopyKept
<1>1. IInv => OneCopyKept
  <2> SUFFICES ASSUME IInv, prefs.del_duplicates,
                      NEW j \in DOMAIN log, NEW k \in DOMAIN log,
                      Copies(j, k), Kept(k)
               PROVE  FALSE
    BY DEF OneCopyKept
  <2>1. TypeOK /\ Verdicts BY DEF IInv
  <2>2. j \in 1..(k - 1) /\ IDof(j) = IDof(k) /\ IDof(k) # NoText
    BY <2>1, LogEntry DEF Copies
  <2>3. IDof(k) \in SeenBefore(k)
    BY <2>1, <2>2, LogEntry DEF SeenBefore
  <2>4. check_duplicates(prefs, SeenBefore(k), log[k].header) = 1
    BY <2>2, <2>3 DEF check_duplicates, IDof
  <2>5. log[k].weed = 1 BY <2>1, <2>4 DEF Verdicts, is_weed
  <2> QED BY <2>5 DEF Kept
<1> QED BY Invariance, <1>1, PTL

\* The first of several copies is judged by the rules alone: every deletion goes
\* back to a rule, or to a copy that was kept.
THEOREM LossesJustified == Spec => []LossIsJustified
<1>1. IInv => LossIsJustified
  <2> SUFFICES ASSUME IInv, NEW k \in DOMAIN log, ~Kept(k),
                      ~WeedByRules(prefs, log[k].header)
               PROVE  /\ prefs.del_duplicates
                      /\ \E j \in DOMAIN log :
                            /\ Copies(j, k)
                            /\ Kept(j) \/ WeedByRules(prefs, log[j].header)
    BY DEF LossIsJustified
  <2>1. TypeOK BY DEF IInv
  <2>2. prefs.del_duplicates /\ \E j \in DOMAIN log : Copies(j, k)
    BY DuplicateHasCopy
  <2> DEFINE Earlier == {j \in DOMAIN log : Copies(j, k)}
  <2>3. Earlier \in SUBSET Nat /\ Earlier # {}
    BY <2>1, <2>2, LogEntry
  <2>4. PICK first \in Earlier : \A j \in Earlier : first <= j
    <3> HIDE DEF Earlier
    <3> QED BY <2>3, SmallestOfNaturals
  <2>5. ~ \E i \in DOMAIN log : Copies(i, first)
    <3> SUFFICES ASSUME NEW i \in DOMAIN log, Copies(i, first) PROVE FALSE
      OBVIOUS
    <3>1. i \in Nat /\ first \in Nat /\ k \in Nat BY <2>1, LogEntry
    <3>2. Copies(i, k) BY <3>1, <2>4 DEF Copies
    <3> QED BY <2>4, <3>1, <3>2 DEF Copies
  <2>6. Kept(first) \/ WeedByRules(prefs, log[first].header)
    BY <2>5, DuplicateHasCopy
  <2> QED BY <2>2, <2>4, <2>6
<1> QED BY Invariance, <1>1, PTL

\* Only an earlier copy can delete a friend's mail within MAXSIZE_ALLOW that has no line
\* longer than MAXLENGTH.
THEOREM FriendsKept == Spec => []FriendsSurvive
<1>1. IInv => FriendsSurvive
  <2> SUFFICES ASSUME IInv, NEW k \in DOMAIN log, ~Kept(k),
                      Allowed(prefs, log[k].header),
                      ~MaxsizeAllowExceeded(prefs, log[k].header)
               PROVE  \E j \in DOMAIN log : Copies(j, k)
    BY DEF FriendsSurvive
  <2>1. check_allow_rules(prefs, log[k].header) = 0
    BY DEF check_allow_rules
  <2>2. ~WeedByRules(prefs, log[k].header)
    BY <2>1 DEF WeedByRules
  <2> QED BY <2>2, DuplicateHasCopy
<1> QED BY Invariance, <1>1, PTL
=============================================================================
