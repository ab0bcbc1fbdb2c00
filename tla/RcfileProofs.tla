----------------------------- MODULE RcfileProofs -----------------------------
(***************************************************************************)
(* Theorems of the preparations of the program: what the preferences hold      *)
(* once the command line and the rcfile are read, for every command line and    *)
(* every set of files.                                                       *)
(***************************************************************************)
EXTENDS Rcfile, TLAPS, FiniteSetTheorems, SequenceTheorems

FileLine == RuleLine \union OtherLine
Opt == [opt : STRING, optarg : STRING]
Spot == [file : STRING, line : Nat]
Pair == Nat \X Nat

\* The text without lines.
Nothing == [p \in {} |-> ""]
----------------------------------------------------------------------------
(***************************************************************************)
(* The inductive invariant.                                                *)
(***************************************************************************)
Reading == {"parse", "log", "compile", "check"}

\* The scanner is in the main rcfile, or in a file that the line it is at includes.
InMain ==
    /\ Len(input) = 1
    /\ input[1].line \in 1..Len(Main) + 1
    /\ sub_file = "" /\ input[1].line = num_lines + 1
InIncluded ==
    /\ Len(input) = 2
    /\ input[1].line \in 1..Len(Main) /\ Main[input[1].line].key = "include"
    /\ input[2].file = Main[input[1].line].val /\ input[2].file \in DOMAIN world.files
    /\ input[2].line \in 1..Len(Included(input[1].line)) + 1
    /\ sub_file = input[2].file
    /\ input[2].line = num_lines + 1 /\ input[1].line = temp_num_lines + 1
InFile ==
    /\ prefs.rc_file \in DOMAIN world.files
    /\ input[1].file = prefs.rc_file
    /\ InMain \/ InIncluded

ScanPlace ==
    /\ world \in Worlds
    /\ input \in Seq(Spot)
    /\ phase = "options" => input = <<>> /\ num_lines = 0 /\ sub_file = "" /\ within = FALSE
    /\ phase \in Reading => InFile /\ argv = <<>>
    /\ phase \in Reading \ {"parse"} =>
          Len(input) = 1 /\ input[1].line = Len(Main) + 1 /\ within = FALSE
    /\ phase # "exit" => report = NoReport
    /\ TrueReport

\* The text up to line i of the main file, with the first k lines of the file that
\* line i includes.
PassedPlaces(files, main, i, k) ==
    {<<m, 0>> : m \in {n \in DOMAIN main : n < i /\ main[n].key # "include"}}
    \union (UNION {{m} \X DOMAIN files[main[m].val] :
                      m \in {n \in DOMAIN main : n < i /\ main[n].key = "include"}})
    \union {<<i, j>> : j \in 1..k}
TextTo(files, main, i, k) ==
    [p \in PassedPlaces(files, main, i, k) |->
        IF p[2] = 0 THEN main[p[1]] ELSE files[main[p[1]].val][p[2]]]

\* The place the scanner is at, and the text it has taken in.
IncludedRead == IF Len(input) = 2 THEN input[2].line - 1 ELSE 0
Cursor == <<input[1].line, IF Len(input) = 2 THEN input[2].line ELSE 0>>
TextSoFar == IF phase \in Reading THEN TextTo(world.files, Main, input[1].line, IncludedRead)
             ELSE Nothing

CaseAfter(t) ==
    IF \E q \in DOMAIN t : IsLast(q, Positions(t, {"reg_case"})) /\ t[q].val = "yes"
    THEN "case" ELSE "nocase"

\* Every account holds the values that stand last before its PORT line.
AccountsTaken(t, cur_account, accounts) ==
    /\ \A k \in AccountKey : \A p \in DOMAIN t :
          IsLast(p, Positions(t, {k})) => cur_account[k] = t[p].val
    /\ Len(accounts) = Cardinality(Ports(t))
    /\ \A p \in Ports(t) : \A k \in AccountKey : \A q \in DOMAIN t :
          IsLast(q, {x \in Positions(t, {k}) : ~Before(p, x)}) =>
              accounts[Rank(p, Ports(t))][k] = t[q].val

Changed(t, options, n, changed) ==
    \A key \in Sticky :
        key \in changed <=> OptionsFor(options, n, key) # {} \/ Positions(t, {key}) # {}

Understood(t, open) ==
    /\ Positions(t, {"junk", "shell", "include"}) = {}
    /\ Positions(t, {"open"}) # {} => open

TextType(t) == DOMAIN t \subseteq Pair /\ IsFiniteSet(DOMAIN t)

Obeyed(t, options, n, p, open) ==
    /\ TextType(t)
    /\ RulesTaken(t, p.filters, p.negatives)
    /\ p.icase = CaseAfter(t)
    /\ FirstCounts(t, options, n, p.sticky)
    /\ Changed(t, options, n, p.changed)
    /\ LastCounts(t, p.settings)
    /\ TypeWanted(t, p.reg_type)
    /\ AccountsTaken(t, p.cur_account, p.accounts)
    /\ Understood(t, open)

Compiling ==
    /\ phase \notin {"compile", "check", "exit"} => compiled = 0
    /\ phase \in {"compile", "check"} =>
          /\ compiled <= Len(InOrder)
          /\ \A j \in 1..compiled : <<InOrder[j].id, prefs.reg_type>> \in Compiles
    /\ phase \in {"compile", "check"} => prefs.sticky["logfile"] \in world.writable
    /\ phase = "check" => compiled = Len(InOrder)

OptionsLeft ==
    /\ argv \in Seq(Opt) /\ Len(argv) <= Len(world.argv)
    /\ \A k \in 1..Len(argv) : argv[k] = world.argv[Len(world.argv) - Len(argv) + k]

RcInv ==
    /\ TypeOK
    /\ ScanPlace
    /\ OptionsLeft
    /\ phase # "exit" => Obeyed(TextSoFar, world.argv, Len(world.argv) - Len(argv), prefs, within)
    /\ Compiling
----------------------------------------------------------------------------
(***************************************************************************)
(* A text that grows by the line l at the place c, behind all others.         *)
(***************************************************************************)
Grows(t, c, l, u) ==
    /\ TextType(t) /\ c \in Pair
    /\ \A q \in DOMAIN t : Before(q, c)
    /\ DOMAIN u = DOMAIN t \union {c}
    /\ u[c] = l /\ \A p \in DOMAIN t : u[p] = t[p]

\* Places are ordered.
LEMMA PlacesOrdered ==
    ASSUME NEW p \in Pair, NEW q \in Pair
    PROVE  /\ ~Before(p, p)
           /\ Before(p, q) => ~Before(q, p) /\ p # q
           /\ p # q => Before(p, q) \/ Before(q, p)
           /\ \A x \in Pair : Before(p, q) /\ Before(q, x) => Before(p, x)
  BY DEF Pair, Before

Grown(t, c, l, u) ==
    /\ DOMAIN t \subseteq Pair /\ IsFiniteSet(DOMAIN t) /\ c \in Pair
    /\ c \notin DOMAIN t /\ ~Before(c, c)
    /\ \A q \in DOMAIN t : Before(q, c) /\ ~Before(c, q)
    /\ DOMAIN u = DOMAIN t \union {c}
    /\ u[c] = l /\ \A p \in DOMAIN t : u[p] = t[p]
    /\ TextType(u)

\* The new place is behind every other and not among them.
LEMMA Growth ==
    ASSUME NEW t, NEW c, NEW l, NEW u, Grows(t, c, l, u)
    PROVE  Grown(t, c, l, u)
<1>1. /\ DOMAIN t \subseteq Pair /\ IsFiniteSet(DOMAIN t) /\ c \in Pair
      /\ \A q \in DOMAIN t : Before(q, c)
      /\ DOMAIN u = DOMAIN t \union {c}
      /\ u[c] = l /\ \A p \in DOMAIN t : u[p] = t[p]
  BY Zenon DEF Grows, TextType
<1>2. ~Before(c, c) BY <1>1, PlacesOrdered
<1>3. \A q \in DOMAIN t : Before(q, c) /\ ~Before(c, q) BY <1>1, PlacesOrdered
<1>4. c \notin DOMAIN t BY <1>2, <1>3
<1>5. TextType(u)
  <2>1. IsFiniteSet(DOMAIN t \union {c}) BY <1>1, FS_AddElement
  <2> QED BY <2>1, <1>1 DEF TextType
<1> QED BY <1>1, <1>2, <1>3, <1>4, <1>5, Zenon DEF Grown

\* Its places with given keywords.
PositionsOf(t, c, l, u, keys) ==
    /\ Positions(u, keys) = IF l.key \in keys THEN Positions(t, keys) \union {c}
                            ELSE Positions(t, keys)
    /\ Positions(t, keys) \subseteq DOMAIN t /\ IsFiniteSet(Positions(t, keys))

\* The lines with certain keywords are those of before, and the new one if it has one.
LEMMA PositionsGrow ==
    ASSUME NEW t, NEW c, NEW l, NEW u, Grows(t, c, l, u), NEW keys
    PROVE  PositionsOf(t, c, l, u, keys)
<1>a. Grown(t, c, l, u) BY Growth
<1>1. /\ c \notin DOMAIN t /\ DOMAIN u = DOMAIN t \union {c}
      /\ u[c] = l /\ \A p \in DOMAIN t : u[p] = t[p]
  BY <1>a DEF Grown
<1>2. Positions(t, keys) \subseteq DOMAIN t BY DEF Positions
<1>3. IsFiniteSet(DOMAIN t) BY <1>a DEF Grown
<1>4. IsFiniteSet(Positions(t, keys)) BY <1>2, <1>3, FS_Subset
<1>5. \A p : p \in Positions(u, keys) <=> p \in Positions(t, keys) \/ (p = c /\ l.key \in keys)
  BY <1>1 DEF Positions
<1>6. CASE l.key \in keys BY <1>2, <1>4, <1>5, <1>6 DEF PositionsOf
<1>7. CASE l.key \notin keys BY <1>2, <1>4, <1>5, <1>7 DEF PositionsOf
<1> QED BY <1>6, <1>7

\* First, last and rank in a set of places that grows.
LEMMA LastGrown ==
    ASSUME NEW S, NEW c, \A q \in S : Before(q, c) /\ ~Before(c, q), ~Before(c, c), c \notin S
    PROVE  /\ \A p : IsLast(p, S \union {c}) <=> p = c
           /\ \A p : IsFirst(p, S \union {c}) <=> IF S = {} THEN p = c ELSE IsFirst(p, S)
<1>1. \A p : IsLast(p, S \union {c}) <=> p = c BY DEF IsLast
<1>2. ASSUME NEW p PROVE IsFirst(p, S \union {c}) <=> IF S = {} THEN p = c ELSE IsFirst(p, S)
  <2>1. CASE S = {} BY <2>1 DEF IsFirst
  <2>2. CASE S # {}
    <3>1. PICK q \in S : TRUE BY <2>2
    <3> QED BY <3>1, <2>2 DEF IsFirst
  <2> QED BY <2>1, <2>2
<1> QED BY <1>1, <1>2

\* A place behind the others gets the next rank; theirs stay.
LEMMA RankGrown ==
    ASSUME NEW S, NEW c, \A q \in S : Before(q, c) /\ ~Before(c, q), ~Before(c, c), c \notin S,
           IsFiniteSet(S), \A q \in S : ~Before(q, q)
    PROVE  /\ IsFiniteSet(S \union {c}) /\ Cardinality(S) \in Nat
           /\ Cardinality(S \union {c}) = Cardinality(S) + 1
           /\ Rank(c, S \union {c}) = Cardinality(S) + 1
           /\ \A p \in S : Rank(p, S \union {c}) = Rank(p, S) /\ Rank(p, S) \in 1..Cardinality(S)
<1>1. IsFiniteSet(S \union {c}) /\ Cardinality(S) \in Nat
      /\ Cardinality(S \union {c}) = Cardinality(S) + 1
  BY FS_AddElement, FS_CardinalityType
<1>2. {q \in S \union {c} : ~Before(c, q)} = S \union {c} OBVIOUS
<1>3. ASSUME NEW p \in S PROVE Rank(p, S \union {c}) = Rank(p, S) /\ Rank(p, S) \in 1..Cardinality(S)
  <2> DEFINE R == {q \in S : ~Before(p, q)}
  <2>1. {q \in S \union {c} : ~Before(p, q)} = R OBVIOUS
  <2>2. R \subseteq S /\ p \in R OBVIOUS
  <2>3. IsFiniteSet(R) /\ Cardinality(R) \in Nat /\ Cardinality(R) <= Cardinality(S)
    <3> HIDE DEF R
    <3> QED BY <2>2, FS_Subset, FS_CardinalityType
  <2>4. Cardinality(R) # 0
    <3> HIDE DEF R
    <3> QED BY <2>2, <2>3, FS_EmptySet
  <2>5. Rank(p, S) = Cardinality(R) BY DEF Rank
  <2>6. Rank(p, S \union {c}) = Cardinality(R) BY <2>1, Zenon DEF Rank
  <2> HIDE DEF R
  <2> QED BY <2>3, <2>4, <2>5, <2>6, <1>1
<1> QED BY <1>1, <1>2, <1>3, Zenon DEF Rank

\* The lines with one keyword.
KeyLines(t, c, l, u, key) ==
    /\ l.key = key =>
          /\ Positions(u, {key}) = Positions(t, {key}) \union {c}
          /\ Positions(u, {key}) # {}
          /\ \A p : IsLast(p, Positions(u, {key})) <=> p = c
          /\ \A p : IsFirst(p, Positions(u, {key})) <=>
                       IF Positions(t, {key}) = {} THEN p = c ELSE IsFirst(p, Positions(t, {key}))
    /\ l.key # key => Positions(u, {key}) = Positions(t, {key})

\* What is first and last among the lines with a keyword, once the text has grown.
LEMMA KeyGrown ==
    ASSUME NEW t, NEW c, NEW l, NEW u, Grows(t, c, l, u), NEW key
    PROVE  KeyLines(t, c, l, u, key)
<1>a. Grown(t, c, l, u) BY Growth
<1>b. PositionsOf(t, c, l, u, {key}) BY PositionsGrow
<1>1. /\ Positions(u, {key}) = IF l.key \in {key} THEN Positions(t, {key}) \union {c}
                               ELSE Positions(t, {key})
      /\ Positions(t, {key}) \subseteq DOMAIN t
  BY <1>b DEF PositionsOf
<1>2. PICK S : S = Positions(t, {key}) OBVIOUS
<1>3. c \notin S /\ ~Before(c, c) /\ \A q \in S : Before(q, c) /\ ~Before(c, q)
  BY <1>1, <1>2, <1>a DEF Grown
<1>4. /\ \A p : IsLast(p, S \union {c}) <=> p = c
      /\ \A p : IsFirst(p, S \union {c}) <=> IF S = {} THEN p = c ELSE IsFirst(p, S)
  BY <1>3, LastGrown
<1>5. CASE l.key = key
  <2>1. Positions(u, {key}) = S \union {c} BY <1>1, <1>2, <1>5
  <2>2. S \union {c} # {} OBVIOUS
  <2> QED BY <2>1, <2>2, <1>2, <1>4, <1>5, Zenon DEF KeyLines
<1>6. CASE l.key # key BY <1>1, <1>6 DEF KeyLines
<1> QED BY <1>5, <1>6

\* The lines there were keep their places.
LEMMA LineKept ==
    ASSUME NEW t, NEW c, NEW l, NEW u, Grows(t, c, l, u), NEW keys, NEW p \in Positions(t, keys)
    PROVE  p \in DOMAIN t /\ p \in DOMAIN u /\ u[p] = t[p] /\ t[p].key \in keys
<1>a. Grown(t, c, l, u) BY Growth
<1>1. p \in DOMAIN t /\ t[p].key \in keys BY DEF Positions
<1>2. u[p] = t[p] BY <1>1, <1>a DEF Grown
<1>3. p \in DOMAIN u BY <1>1, <1>a DEF Grown
<1> QED BY <1>1, <1>2, <1>3

\* Statements of which the last counts: the values, REG_TYPE and REG_CASE.
LEMMA SettingsGrow ==
    ASSUME NEW t, NEW c, NEW l, NEW u, Grows(t, c, l, u),
           NEW s \in [Setting -> STRING], LastCounts(t, s), NEW s2,
           s2 = IF l.key \in Setting THEN [s EXCEPT ![l.key] = l.val] ELSE s
    PROVE  LastCounts(u, s2)
<1>a. Grown(t, c, l, u) BY Growth
<1> SUFFICES ASSUME NEW key \in Setting
             PROVE  /\ \A p \in DOMAIN u : IsLast(p, Positions(u, {key})) => s2[key] = u[p].val
                    /\ Positions(u, {key}) = {} /\ key # "maxsize_score" => s2[key] = Defaults[key]
  BY DEF LastCounts
<1>b. KeyLines(t, c, l, u, key) BY KeyGrown
<1>1. CASE l.key = key
  <2>1. Positions(u, {key}) # {} /\ \A p : IsLast(p, Positions(u, {key})) <=> p = c
    BY <1>1, <1>b DEF KeyLines
  <2>2. s2[key] = l.val BY <1>1
  <2>3. u[c] = l BY <1>a DEF Grown
  <2> QED BY <2>1, <2>2, <2>3
<1>2. CASE l.key # key
  <2>1. Positions(u, {key}) = Positions(t, {key}) BY <1>2, <1>b DEF KeyLines
  <2>2. s2[key] = s[key] BY <1>2
  <2>3. /\ \A p \in DOMAIN t : IsLast(p, Positions(t, {key})) => s[key] = t[p].val
        /\ Positions(t, {key}) = {} /\ key # "maxsize_score" => s[key] = Defaults[key]
    BY Zenon DEF LastCounts
  <2>4. ASSUME NEW p, IsLast(p, Positions(t, {key})) PROVE s[key] = u[p].val
    <3>1. p \in Positions(t, {key}) BY <2>4 DEF IsLast
    <3>2. p \in DOMAIN t /\ u[p] = t[p] BY <3>1, LineKept
    <3> QED BY <3>2, <2>3, <2>4
  <2> QED BY <2>1, <2>2, <2>3, <2>4, Zenon
<1> QED BY <1>1, <1>2

\* The last REG_TYPE line counts.
LEMMA TypeGrows ==
    ASSUME NEW t, NEW c, NEW l, NEW u, Grows(t, c, l, u), NEW r, TypeWanted(t, r), NEW r2,
           r2 = IF l.key = "reg_type" THEN l.val ELSE r
    PROVE  TypeWanted(u, r2)
<1>a. Grown(t, c, l, u) BY Growth
<1>b. KeyLines(t, c, l, u, "reg_type") BY KeyGrown
<1>1. CASE l.key = "reg_type"
  <2>1. Positions(u, {"reg_type"}) # {} /\ \A p : IsLast(p, Positions(u, {"reg_type"})) <=> p = c
    BY <1>1, <1>b DEF KeyLines
  <2>2. u[c] = l BY <1>a DEF Grown
  <2>3. r2 = l.val BY <1>1
  <2> QED BY <2>1, <2>2, <2>3 DEF TypeWanted
<1>2. CASE l.key # "reg_type"
  <2>1. Positions(u, {"reg_type"}) = Positions(t, {"reg_type"}) BY <1>2, <1>b DEF KeyLines
  <2>2. r2 = r BY <1>2
  <2>3. ASSUME NEW p, IsLast(p, Positions(t, {"reg_type"})) PROVE r = u[p].val
    <3>1. p \in Positions(t, {"reg_type"}) BY <2>3 DEF IsLast
    <3>2. p \in DOMAIN t /\ u[p] = t[p] BY <3>1, LineKept
    <3> QED BY <3>2, <2>3 DEF TypeWanted
  <2>4. Positions(t, {"reg_type"}) = {} => r = "basic" BY DEF TypeWanted
  <2> QED BY <2>1, <2>2, <2>3, <2>4, Zenon DEF TypeWanted
<1> QED BY <1>1, <1>2

\* The last REG_CASE line counts.
LEMMA CaseGrows ==
    ASSUME NEW t, NEW c, NEW l, NEW u, Grows(t, c, l, u)
    PROVE  CaseAfter(u) = IF l.key # "reg_case" THEN CaseAfter(t)
                          ELSE IF l.val = "yes" THEN "case" ELSE "nocase"
<1>a. Grown(t, c, l, u) BY Growth
<1>b. KeyLines(t, c, l, u, "reg_case") BY KeyGrown
<1>1. u[c] = l /\ c \in DOMAIN u
  <2>1. u[c] = l BY <1>a DEF Grown
  <2>2. c \in DOMAIN u BY <1>a DEF Grown
  <2> QED BY <2>1, <2>2
<1>2. CASE l.key = "reg_case"
  <2>1. \A p : IsLast(p, Positions(u, {"reg_case"})) <=> p = c BY <1>2, <1>b DEF KeyLines
  <2>2. (\E q \in DOMAIN u : IsLast(q, Positions(u, {"reg_case"})) /\ u[q].val = "yes")
        <=> l.val = "yes"
    BY <2>1, <1>1
  <2> QED BY <2>2, <1>2, Zenon DEF CaseAfter
<1>3. CASE l.key # "reg_case"
  <2>1. Positions(u, {"reg_case"}) = Positions(t, {"reg_case"}) BY <1>3, <1>b DEF KeyLines
  <2>2. \A q : IsLast(q, Positions(t, {"reg_case"})) =>
                  q \in DOMAIN t /\ q \in DOMAIN u /\ u[q] = t[q]
    <3> TAKE q
    <3> HAVE IsLast(q, Positions(t, {"reg_case"}))
    <3>1. q \in Positions(t, {"reg_case"}) BY DEF IsLast
    <3> QED BY <3>1, LineKept
  <2>3. (\E q \in DOMAIN u : IsLast(q, Positions(u, {"reg_case"})) /\ u[q].val = "yes")
        <=> (\E q \in DOMAIN t : IsLast(q, Positions(t, {"reg_case"})) /\ t[q].val = "yes")
    BY <2>1, <2>2
  <2> QED BY <2>3, <1>3, Zenon DEF CaseAfter
<1> QED BY <1>2, <1>3

\* Statements of which the first counts, unless an option was given.
LEMMA StickyGrows ==
    ASSUME NEW t, NEW c, NEW l, NEW u, Grows(t, c, l, u), NEW o, NEW n,
           NEW s \in [Sticky -> STRING], NEW ch \in SUBSET Sticky,
           FirstCounts(t, o, n, s), Changed(t, o, n, ch), NEW s2, NEW ch2,
           IF l.key \in Sticky /\ l.key \notin ch
           THEN s2 = [s EXCEPT ![l.key] = l.val] /\ ch2 = ch \union {l.key}
           ELSE s2 = s /\ ch2 = ch
    PROVE  FirstCounts(u, o, n, s2) /\ Changed(u, o, n, ch2)
<1>a. Grown(t, c, l, u) BY Growth
<1>1. u[c] = l BY <1>a DEF Grown
<1>2. ASSUME NEW key \in Sticky, NEW given, given = OptionsFor(o, n, key)
      PROVE  /\ \A k \in given : (\A j \in given : k <= j) => s2[key] = OptionValue(o[k])
             /\ given = {} =>
                   \A p \in DOMAIN u : IsFirst(p, Positions(u, {key})) => s2[key] = u[p].val
             /\ key \in ch2 <=> given # {} \/ Positions(u, {key}) # {}
  <2>b. KeyLines(t, c, l, u, key) BY KeyGrown
  <2>1. /\ \A k \in given : (\A j \in given : k <= j) => s[key] = OptionValue(o[k])
        /\ given = {} =>
              \A p \in DOMAIN t : IsFirst(p, Positions(t, {key})) => s[key] = t[p].val
    BY <1>2, Zenon DEF FirstCounts
  <2>2. key \in ch <=> given # {} \/ Positions(t, {key}) # {}
    BY <1>2, Zenon DEF Changed
  <2>3. \A p : IsFirst(p, Positions(t, {key})) => p \in DOMAIN t /\ u[p] = t[p]
    <3> TAKE p
    <3> HAVE IsFirst(p, Positions(t, {key}))
    <3>1. p \in Positions(t, {key}) BY DEF IsFirst
    <3> QED BY <3>1, LineKept
  <2>4. CASE l.key = key
    <3>1. /\ Positions(u, {key}) # {}
          /\ \A p : IsFirst(p, Positions(u, {key})) <=>
                       IF Positions(t, {key}) = {} THEN p = c ELSE IsFirst(p, Positions(t, {key}))
      BY <2>4, <2>b DEF KeyLines
    <3>2. CASE key \in ch
      <4>1. s2 = s /\ ch2 = ch BY <3>2, <2>4
      <4>2. given = {} => Positions(t, {key}) # {} BY <2>2, <3>2
      <4> QED BY <4>1, <4>2, <3>1, <3>2, <2>1, <2>2, <2>3, Zenon
    <3>3. CASE key \notin ch
      <4>1. s2[key] = l.val /\ key \in ch2 BY <3>3, <2>4
      <4>2. given = {} /\ Positions(t, {key}) = {} BY <2>2, <3>3
      <4> QED BY <4>1, <4>2, <3>1, <1>1, Zenon
    <3> QED BY <3>2, <3>3
  <2>5. CASE l.key # key
    <3>1. Positions(u, {key}) = Positions(t, {key}) BY <2>5, <2>b DEF KeyLines
    <3>2. s2[key] = s[key] /\ (key \in ch2 <=> key \in ch) BY <2>5
    <3> QED BY <3>1, <3>2, <2>1, <2>2, <2>3, Zenon
  <2> QED BY <2>4, <2>5
<1>3. FirstCounts(u, o, n, s2) BY <1>2, Zenon DEF FirstCounts
<1>4. Changed(u, o, n, ch2) BY <1>2, Zenon DEF Changed
<1> QED BY <1>3, <1>4

\* Terms that the program does not go on after.
LEMMA UnderstoodGrows ==
    ASSUME NEW t, NEW c, NEW l, NEW u, Grows(t, c, l, u), NEW open, NEW open2,
           Understood(t, open), l.key \notin {"junk", "shell", "include"},
           open => open2, l.key = "open" => open2
    PROVE  Understood(u, open2)
<1>c. PositionsOf(t, c, l, u, {"junk", "shell", "include"}) BY PositionsGrow
<1>b. KeyLines(t, c, l, u, "open") BY KeyGrown
<1>1. Positions(u, {"junk", "shell", "include"}) = Positions(t, {"junk", "shell", "include"})
  BY <1>c DEF PositionsOf
<1>2. CASE l.key = "open" BY <1>1, <1>2 DEF Understood
<1>3. CASE l.key # "open"
  <2>1. Positions(u, {"open"}) = Positions(t, {"open"}) BY <1>3, <1>b DEF KeyLines
  <2> QED BY <1>1, <2>1 DEF Understood
<1> QED BY <1>2, <1>3

\* One element more.
Longer(s, e, s2) ==
    /\ Len(s2) = Len(s) + 1 /\ s2[Len(s) + 1] = e
    /\ \A i \in 1..Len(s) : s2[i] = s[i]

\* What Append does to a sequence.
LEMMA Appended ==
    ASSUME NEW T, NEW s \in Seq(T), NEW e \in T
    PROVE  Longer(s, e, Append(s, e))
  BY DEF Longer

\* What a line says of a rule does not change when the text grows: REG_CASE lines
\* behind it do not count.
WrittenKept(t, c, u) ==
    /\ \A p \in DOMAIN t : CaseBefore(u, p) = CaseBefore(t, p)
    /\ CaseBefore(u, c) = CaseAfter(t)
    /\ \A p \in DOMAIN t : AsWritten(u, p) = AsWritten(t, p)

\* Only the lines before a rule have a say in its case.
LEMMA WrittenGrows ==
    ASSUME NEW t, NEW c, NEW l, NEW u, Grows(t, c, l, u)
    PROVE  WrittenKept(t, c, u)
<1> DEFINE K == {"reg_case"}
<1>a. Grown(t, c, l, u) BY Growth
<1>b. PositionsOf(t, c, l, u, K) BY PositionsGrow
<1>1. /\ Positions(u, K) = Positions(t, K) \/ Positions(u, K) = Positions(t, K) \union {c}
      /\ Positions(t, K) \subseteq DOMAIN t
  BY <1>b DEF PositionsOf
<1>2. /\ ~Before(c, c) /\ \A q \in DOMAIN t : Before(q, c) /\ ~Before(c, q)
      /\ DOMAIN u = DOMAIN t \union {c} /\ \A p \in DOMAIN t : u[p] = t[p]
  BY <1>a DEF Grown
<1>3. PICK S : S = Positions(t, K) OBVIOUS
<1>4. PICK U : U = Positions(u, K) OBVIOUS
<1>5. S \subseteq DOMAIN t /\ (U = S \/ U = S \union {c}) BY <1>1, <1>3, <1>4
<1>6. ASSUME NEW R \in SUBSET S
      PROVE  (\E q \in DOMAIN u : IsLast(q, R) /\ u[q].val = "yes")
             <=> (\E q \in DOMAIN t : IsLast(q, R) /\ t[q].val = "yes")
  BY <1>2, <1>5 DEF IsLast
<1>7. \A p \in DOMAIN t : CaseBefore(u, p) = CaseBefore(t, p)
  <2> TAKE p \in DOMAIN t
  <2>1. PICK R : R = {x \in S : Before(x, p)} OBVIOUS
  <2>2. R = {x \in U : Before(x, p)} BY <2>1, <1>2, <1>5
  <2>3. R \in SUBSET S BY <2>1
  <2>4. (\E q \in DOMAIN u : IsLast(q, R) /\ u[q].val = "yes")
        <=> (\E q \in DOMAIN t : IsLast(q, R) /\ t[q].val = "yes")
    BY <2>3, <1>6
  <2>5. CaseBefore(u, p) = IF \E q \in DOMAIN u : IsLast(q, R) /\ u[q].val = "yes"
                           THEN "case" ELSE "nocase"
    BY <2>2, <1>4, Zenon DEF CaseBefore
  <2>6. CaseBefore(t, p) = IF \E q \in DOMAIN t : IsLast(q, R) /\ t[q].val = "yes"
                           THEN "case" ELSE "nocase"
    BY <2>1, <1>3, Zenon DEF CaseBefore
  <2> QED BY <2>4, <2>5, <2>6, Zenon
<1>8. CaseBefore(u, c) = CaseAfter(t)
  <2>1. S = {x \in U : Before(x, c)} BY <1>2, <1>5
  <2>2. S \in SUBSET S OBVIOUS
  <2>3. (\E q \in DOMAIN u : IsLast(q, S) /\ u[q].val = "yes")
        <=> (\E q \in DOMAIN t : IsLast(q, S) /\ t[q].val = "yes")
    BY <2>2, <1>6
  <2>4. CaseBefore(u, c) = IF \E q \in DOMAIN u : IsLast(q, S) /\ u[q].val = "yes"
                           THEN "case" ELSE "nocase"
    BY <2>1, <1>4, Zenon DEF CaseBefore
  <2>5. CaseAfter(t) = IF \E q \in DOMAIN t : IsLast(q, S) /\ t[q].val = "yes"
                       THEN "case" ELSE "nocase"
    BY <1>3, Zenon DEF CaseAfter
  <2> QED BY <2>3, <2>4, <2>5, Zenon
<1>9. \A p \in DOMAIN t : AsWritten(u, p) = AsWritten(t, p)
  BY <1>2, <1>7, Zenon DEF AsWritten
<1> QED BY <1>7, <1>8, <1>9 DEF WrittenKept

\* One kind of rules: the filters of the kind are what its lines say, in their order.
KindTaken(t, at, fs, negative) ==
    /\ Len(fs) = Cardinality(at)
    /\ \A p \in at : fs[Rank(p, at)] = AsWritten(t, p)
    /\ negative = Cardinality({p \in at : t[p].operat = "<>"})

\* RulesTaken, one kind of rules at a time.
LEMMA ByKind ==
    ASSUME NEW t, NEW f, NEW n
    PROVE  RulesTaken(t, f, n) <=> \A r \in Rules : KindTaken(t, Positions(t, {r}), f[r], n[r])
  BY Zenon DEF RulesTaken, KindTaken

\* A line of another kind leaves the filters of this kind as they were.
LEMMA KindKept ==
    ASSUME NEW t, NEW c, NEW l, NEW u, Grows(t, c, l, u), NEW S, S \subseteq DOMAIN t,
           NEW fs, NEW k, KindTaken(t, S, fs, k)
    PROVE  KindTaken(u, S, fs, k)
<1>a. Grown(t, c, l, u) BY Growth
<1>b. WrittenKept(t, c, u) BY WrittenGrows
<1>1. \A p \in S : u[p] = t[p] BY <1>a DEF Grown
<1>2. \A p \in S : AsWritten(u, p) = AsWritten(t, p) BY <1>b DEF WrittenKept
<1>3. {p \in S : u[p].operat = "<>"} = {p \in S : t[p].operat = "<>"} BY <1>1
<1> QED BY <1>2, <1>3, Zenon DEF KindTaken

\* A rule of this kind becomes its last filter.
LEMMA KindGrows ==
    ASSUME NEW t, NEW c, NEW l, NEW u, Grows(t, c, l, u), NEW S, S \subseteq DOMAIN t,
           NEW fs \in Seq(Filter), NEW k \in Nat, KindTaken(t, S, fs, k),
           l.operat \in {"=", "<>"}
    PROVE  KindTaken(u, S \union {c}, Append(fs, AsWritten(u, c)),
                     IF l.operat = "=" THEN k ELSE k + 1)
<1>a. Grown(t, c, l, u) BY Growth
<1>b. WrittenKept(t, c, u) BY WrittenGrows
<1>1. /\ IsFiniteSet(DOMAIN t) /\ c \notin S /\ ~Before(c, c)
      /\ \A q \in S : Before(q, c) /\ ~Before(c, q) /\ u[q] = t[q]
      /\ u[c] = l
  BY <1>a DEF Grown
<1>2. \A q \in S : ~Before(q, q)
  <2>1. DOMAIN t \subseteq Pair BY <1>a DEF Grown
  <2> QED BY <2>1, PlacesOrdered
<1>3. IsFiniteSet(S) BY <1>1, FS_Subset
<1>4. /\ IsFiniteSet(S \union {c}) /\ Cardinality(S) \in Nat
      /\ Cardinality(S \union {c}) = Cardinality(S) + 1
      /\ Rank(c, S \union {c}) = Cardinality(S) + 1
      /\ \A p \in S : Rank(p, S \union {c}) = Rank(p, S) /\ Rank(p, S) \in 1..Cardinality(S)
  BY <1>1, <1>2, <1>3, RankGrown
<1>5. /\ Len(fs) = Cardinality(S)
      /\ \A p \in S : fs[Rank(p, S)] = AsWritten(t, p)
      /\ k = Cardinality({p \in S : t[p].operat = "<>"})
  BY Zenon DEF KindTaken
<1>6. PICK w : w = AsWritten(u, c) OBVIOUS
<1>7. PICK gs : gs = Append(fs, w) OBVIOUS
<1>8. /\ Len(gs) = Len(fs) + 1 /\ gs[Len(fs) + 1] = w
      /\ \A i \in 1..Len(fs) : gs[i] = fs[i]
  BY <1>7
<1>9. Len(gs) = Cardinality(S \union {c}) BY <1>8, <1>5, <1>4
<1>10. \A p \in S \union {c} : gs[Rank(p, S \union {c})] = AsWritten(u, p)
  <2>1. gs[Rank(c, S \union {c})] = AsWritten(u, c) BY <1>4, <1>5, <1>6, <1>8
  <2>2. ASSUME NEW p \in S PROVE gs[Rank(p, S \union {c})] = AsWritten(u, p)
    <3>1. Rank(p, S \union {c}) = Rank(p, S) /\ Rank(p, S) \in 1..Len(fs) BY <1>4, <1>5
    <3>2. gs[Rank(p, S)] = fs[Rank(p, S)] BY <3>1, <1>8, Zenon
    <3>3. AsWritten(u, p) = AsWritten(t, p) BY <1>b DEF WrittenKept
    <3> QED BY <3>1, <3>2, <3>3, <1>5
  <2> QED BY <2>1, <2>2
<1>11. (IF l.operat = "=" THEN k ELSE k + 1) = Cardinality({p \in S \union {c} : u[p].operat = "<>"})
  <2>1. PICK M : M = {p \in S : t[p].operat = "<>"} OBVIOUS
  <2>2. IsFiniteSet(M) /\ c \notin M BY <2>1, <1>1, <1>3, FS_Subset
  <2>3. CASE l.operat = "="
    <3>1. {p \in S \union {c} : u[p].operat = "<>"} = M BY <2>1, <2>3, <1>1
    <3> QED BY <3>1, <2>1, <2>3, <1>5
  <2>4. CASE l.operat = "<>"
    <3>1. {p \in S \union {c} : u[p].operat = "<>"} = M \union {c} BY <2>1, <2>4, <1>1
    <3>2. Cardinality(M \union {c}) = Cardinality(M) + 1 BY <2>2, FS_AddElement
    <3> QED BY <3>1, <3>2, <2>1, <2>4, <1>5
  <2> QED BY <2>3, <2>4
<1>12. KindTaken(u, S \union {c}, gs, IF l.operat = "=" THEN k ELSE k + 1)
  BY <1>9, <1>10, <1>11, Zenon DEF KindTaken
<1> QED BY <1>6, <1>7, <1>12

RuleEffect(u, c, l, f, n, f2, n2) ==
    /\ l.key \in Rules =>
          /\ l.operat \in {"=", "<>"}
          /\ f2 = [f EXCEPT ![l.key] = Append(@, AsWritten(u, c))]
          /\ n2 = [n EXCEPT ![l.key] = IF l.operat = "=" THEN @ ELSE @ + 1]
    /\ l.key \notin Rules => f2 = f /\ n2 = n

\* A rule is taken in: add_allow_rule, add_deny_rule, add_score.
LEMMA RulesGrow ==
    ASSUME NEW t, NEW c, NEW l, NEW u, Grows(t, c, l, u),
           NEW f \in [Rules -> Seq(Filter)], NEW n \in [Rules -> Nat], RulesTaken(t, f, n),
           NEW f2, NEW n2,
           RuleEffect(u, c, l, f, n, f2, n2)
    PROVE  RulesTaken(u, f2, n2)
<1> SUFFICES ASSUME NEW r \in Rules PROVE KindTaken(u, Positions(u, {r}), f2[r], n2[r])
  BY ByKind
<1>0. /\ l.key \in Rules =>
            /\ l.operat \in {"=", "<>"}
            /\ f2 = [f EXCEPT ![l.key] = Append(@, AsWritten(u, c))]
            /\ n2 = [n EXCEPT ![l.key] = IF l.operat = "=" THEN @ ELSE @ + 1]
      /\ l.key \notin Rules => f2 = f /\ n2 = n
  BY Zenon DEF RuleEffect
<1>a. KindTaken(t, Positions(t, {r}), f[r], n[r]) BY ByKind
<1>b. PositionsOf(t, c, l, u, {r}) BY PositionsGrow
<1>1. PICK S : S = Positions(t, {r}) OBVIOUS
<1>2. /\ S \subseteq DOMAIN t
      /\ l.key = r => Positions(u, {r}) = S \union {c}
      /\ l.key # r => Positions(u, {r}) = S
  BY <1>b, <1>1 DEF PositionsOf
<1>3. CASE l.key = r
  <2>1. /\ f2[r] = Append(f[r], AsWritten(u, c))
        /\ n2[r] = (IF l.operat = "=" THEN n[r] ELSE n[r] + 1)
        /\ l.operat \in {"=", "<>"}
    BY <1>0, <1>3, Zenon
  <2>2. KindTaken(u, S \union {c}, Append(f[r], AsWritten(u, c)),
                  IF l.operat = "=" THEN n[r] ELSE n[r] + 1)
    BY <1>a, <1>1, <1>2, <2>1, KindGrows
  <2> QED BY <2>1, <2>2, <1>2, <1>3
<1>4. CASE l.key # r
  <2>1. f2[r] = f[r] /\ n2[r] = n[r] BY <1>0, <1>4
  <2>2. KindTaken(u, S, f[r], n[r]) BY <1>a, <1>1, <1>2, KindKept
  <2> QED BY <2>1, <2>2, <1>2, <1>4
<1> QED BY <1>3, <1>4

AccountEffect(l, a, as, a2, as2) ==
    /\ a2 = IF l.key \in AccountKey THEN [a EXCEPT ![l.key] = l.val] ELSE a
    /\ as2 = IF l.key = "port" THEN Append(as, a2) ELSE as
    /\ l.key \in AccountKey => l.val \in STRING

\* The lines of an account block: set_server and its kin write to cur_account, and
\* set_port pushes a copy of it.
LEMMA AccountsGrow ==
    ASSUME NEW t, NEW c, NEW l, NEW u, Grows(t, c, l, u),
           NEW a \in [AccountKey -> STRING], NEW as \in Seq(Account), AccountsTaken(t, a, as),
           NEW a2, NEW as2,
           AccountEffect(l, a, as, a2, as2)
    PROVE  AccountsTaken(u, a2, as2)
<1>0. /\ a2 = IF l.key \in AccountKey THEN [a EXCEPT ![l.key] = l.val] ELSE a
      /\ as2 = IF l.key = "port" THEN Append(as, a2) ELSE as
      /\ l.key \in AccountKey => l.val \in STRING
  BY Zenon DEF AccountEffect
<1>a. Grown(t, c, l, u) BY Growth
<1>b. \A k : KeyLines(t, c, l, u, k) BY KeyGrown
<1>c. PositionsOf(t, c, l, u, {"port"}) BY PositionsGrow
<1>1. /\ IsFiniteSet(DOMAIN t) /\ c \notin DOMAIN t /\ ~Before(c, c)
      /\ DOMAIN u = DOMAIN t \union {c} /\ u[c] = l
      /\ \A q \in DOMAIN t : Before(q, c) /\ ~Before(c, q) /\ u[q] = t[q]
  BY <1>a DEF Grown
<1>2. \A q \in DOMAIN t : ~Before(q, q)
  <2>1. DOMAIN t \subseteq Pair BY <1>a DEF Grown
  <2> QED BY <2>1, PlacesOrdered
<1>3. /\ \A k \in AccountKey : \A p \in DOMAIN t :
            IsLast(p, Positions(t, {k})) => a[k] = t[p].val
      /\ Len(as) = Cardinality(Ports(t))
      /\ \A p \in Ports(t) : \A k \in AccountKey : \A q \in DOMAIN t :
            IsLast(q, {x \in Positions(t, {k}) : ~Before(p, x)}) =>
                as[Rank(p, Ports(t))][k] = t[q].val
  BY Zenon DEF AccountsTaken
<1>4. ASSUME NEW k \in AccountKey, NEW p \in DOMAIN u, IsLast(p, Positions(u, {k}))
      PROVE  a2[k] = u[p].val
  <2>b. KeyLines(t, c, l, u, k) BY <1>b
  <2>1. CASE l.key = k
    <3>1. p = c BY <2>b, <2>1, <1>4 DEF KeyLines
    <3>2. a2[k] = l.val BY <1>0, <2>1
    <3> QED BY <3>1, <3>2, <1>1
  <2>2. CASE l.key # k
    <3>1. IsLast(p, Positions(t, {k})) BY <2>b, <2>2, <1>4 DEF KeyLines
    <3>2. p \in Positions(t, {k}) BY <3>1 DEF IsLast
    <3>3. p \in DOMAIN t /\ u[p] = t[p] BY <3>2, LineKept
    <3>4. a2[k] = a[k] BY <1>0, <2>2
    <3> QED BY <3>1, <3>3, <3>4, <1>3
  <2> QED BY <2>1, <2>2
<1>5. PICK S : S = Ports(t) OBVIOUS
<1>6. PICK U : U = Ports(u) OBVIOUS
<1>7. /\ S \subseteq DOMAIN t /\ IsFiniteSet(S)
      /\ U = IF l.key = "port" THEN S \union {c} ELSE S
  BY <1>c, <1>5, <1>6 DEF PositionsOf, Ports
<1>8. /\ IsFiniteSet(S \union {c}) /\ Cardinality(S) \in Nat
      /\ Cardinality(S \union {c}) = Cardinality(S) + 1
      /\ Rank(c, S \union {c}) = Cardinality(S) + 1
      /\ \A p \in S : Rank(p, S \union {c}) = Rank(p, S) /\ Rank(p, S) \in 1..Cardinality(S)
  <2>1. /\ \A q \in S : Before(q, c) /\ ~Before(c, q)
        /\ ~Before(c, c) /\ c \notin S /\ \A q \in S : ~Before(q, q)
    BY <1>1, <1>2, <1>7
  <2> QED BY <2>1, <1>7, RankGrown
<1>9. /\ Len(as2) = Cardinality(U)
      /\ \A p \in S : Rank(p, U) = Rank(p, S) /\ as2[Rank(p, U)] = as[Rank(p, S)]
      /\ c \in U => as2[Rank(c, U)] = a2
  <2>1. CASE l.key = "port"
    <3>1. as2 = Append(as, a2) BY <1>0, <2>1
    <3>0. a2 \in Account BY <1>0 DEF Account
    <3>2. /\ Len(as2) = Len(as) + 1 /\ as2[Len(as) + 1] = a2
          /\ \A i \in 1..Len(as) : as2[i] = as[i]
      <4>1. Longer(as, a2, Append(as, a2)) BY <3>0, Appended
      <4> QED BY <4>1, <3>1 DEF Longer
    <3> QED BY <3>2, <2>1, <1>7, <1>8, <1>3, <1>5
  <2>2. CASE l.key # "port"
    <3>1. U = S /\ as2 = as BY <1>0, <2>2, <1>7
    <3>2. c \notin U BY <3>1, <1>7, <1>1
    <3> QED BY <3>1, <3>2, <1>3, <1>5
  <2> QED BY <2>1, <2>2
<1>10. ASSUME NEW p \in U, NEW k \in AccountKey, NEW q \in DOMAIN u,
              IsLast(q, {x \in Positions(u, {k}) : ~Before(p, x)})
       PROVE  as2[Rank(p, U)][k] = u[q].val
  <2>a. PositionsOf(t, c, l, u, {k}) BY PositionsGrow
  <2>1. PICK K : K = Positions(t, {k}) OBVIOUS
  <2>2. PICK K2 : K2 = Positions(u, {k}) OBVIOUS
  <2>3. K \subseteq DOMAIN t /\ (K2 = K \/ K2 = K \union {c}) BY <2>a, <2>1, <2>2 DEF PositionsOf
  <2>4. CASE p = c
    <3>1. {x \in K2 : ~Before(p, x)} = K2 BY <2>4, <2>3, <1>1
    <3>2. IsLast(q, Positions(u, {k})) BY <3>1, <2>2, <1>10
    <3> QED BY <3>2, <1>4, <1>9, <2>4
  <2>5. CASE p \in S
    <3>1. {x \in K2 : ~Before(p, x)} = {x \in K : ~Before(p, x)}
      BY <2>5, <2>3, <1>1, <1>7
    <3>2. IsLast(q, {x \in Positions(t, {k}) : ~Before(p, x)}) BY <3>1, <2>1, <2>2, <1>10
    <3>3. q \in DOMAIN t BY <3>2, <2>1, <2>3 DEF IsLast
    <3>4. as[Rank(p, S)][k] = t[q].val BY <3>2, <3>3, <2>5, <1>3, <1>5
    <3> QED BY <3>3, <3>4, <2>5, <1>9, <1>1
  <2>6. p = c \/ p \in S BY <1>7
  <2> QED BY <2>4, <2>5, <2>6
<1>11. Len(as2) = Cardinality(Ports(u)) BY <1>6, <1>9
<1>12. \A p \in Ports(u) : \A k \in AccountKey : \A q \in DOMAIN u :
          IsLast(q, {x \in Positions(u, {k}) : ~Before(p, x)}) =>
              as2[Rank(p, Ports(u))][k] = u[q].val
  BY <1>6, <1>10, Zenon
<1> QED BY <1>4, <1>11, <1>12, Zenon DEF AccountsTaken
----------------------------------------------------------------------------
(***************************************************************************)
(* What a line does to the preferences.                                     *)
(***************************************************************************)
Takes(p, l, p2) ==
    /\ l.key \in Rules =>
          /\ p2.filters = [p.filters EXCEPT ![l.key] =
                              Append(@, [id |-> l.id, negative |-> l.operat # "=",
                                         ccase |-> IF l.ccase = "default" THEN p.icase ELSE l.ccase])]
          /\ p2.negatives = [p.negatives EXCEPT ![l.key] = IF l.operat = "=" THEN @ ELSE @ + 1]
    /\ l.key \notin Rules => p2.filters = p.filters /\ p2.negatives = p.negatives
    /\ p2.icase = IF l.key # "reg_case" THEN p.icase
                  ELSE IF l.val = "yes" THEN "case" ELSE "nocase"
    /\ IF l.key \in Sticky /\ l.key \notin p.changed
       THEN p2.sticky = [p.sticky EXCEPT ![l.key] = l.val] /\ p2.changed = p.changed \union {l.key}
       ELSE p2.sticky = p.sticky /\ p2.changed = p.changed
    /\ p2.settings = IF l.key \in Setting THEN [p.settings EXCEPT ![l.key] = l.val] ELSE p.settings
    /\ p2.reg_type = IF l.key = "reg_type" THEN l.val ELSE p.reg_type
    /\ p2.cur_account = IF l.key \in AccountKey THEN [p.cur_account EXCEPT ![l.key] = l.val]
                        ELSE p.cur_account
    /\ p2.accounts = IF l.key = "port" THEN Append(p.accounts, p2.cur_account) ELSE p.accounts

\* The types of the fields.
LEMMA PreferencesFields ==
    ASSUME NEW p \in PreferencesType
    PROVE  /\ p.settings \in [Setting -> STRING] /\ p.sticky \in [Sticky -> STRING]
           /\ p.changed \in SUBSET Sticky /\ p.icase \in {"case", "nocase"}
           /\ p.reg_type \in RegTypes /\ p.rc_file \in STRING
           /\ p.filters \in [Rules -> Seq(Filter)] /\ p.negatives \in [Rules -> Nat]
           /\ p.cur_account \in [AccountKey -> STRING] /\ p.accounts \in Seq(Account)
  BY DEF PreferencesType, Account

\* The text grows by a line that is obeyed.
LEMMA LineObeyed ==
    ASSUME NEW t, NEW c, NEW l \in FileLine, NEW u, Grows(t, c, l, u), NEW o, NEW n,
           NEW p \in PreferencesType, NEW p2, NEW open, NEW open2,
           Obeyed(t, o, n, p, open), Takes(p, l, p2),
           l.key \notin {"junk", "shell", "include"}, open => open2, l.key = "open" => open2
    PROVE  Obeyed(u, o, n, p2, open2)
<1>a. Grown(t, c, l, u) BY Growth
<1>b. WrittenKept(t, c, u) BY WrittenGrows
<1>1. /\ RulesTaken(t, p.filters, p.negatives)
      /\ p.icase = CaseAfter(t)
      /\ FirstCounts(t, o, n, p.sticky)
      /\ Changed(t, o, n, p.changed)
      /\ LastCounts(t, p.settings)
      /\ TypeWanted(t, p.reg_type)
      /\ AccountsTaken(t, p.cur_account, p.accounts)
      /\ Understood(t, open)
  BY Zenon DEF Obeyed
<1>2. /\ p.settings \in [Setting -> STRING] /\ p.sticky \in [Sticky -> STRING]
      /\ p.changed \in SUBSET Sticky /\ p.icase \in {"case", "nocase"}
      /\ p.filters \in [Rules -> Seq(Filter)] /\ p.negatives \in [Rules -> Nat]
      /\ p.cur_account \in [AccountKey -> STRING] /\ p.accounts \in Seq(Account)
  BY PreferencesFields
<1>3. l.key \notin Rules => l.val \in STRING BY DEF FileLine, RuleLine, OtherLine
<1>4. l.key \in Rules => l.operat \in {"=", "<>"} BY DEF FileLine, RuleLine, OtherLine
<1>5. TextType(u) BY <1>a DEF Grown
<1>6. RulesTaken(u, p2.filters, p2.negatives)
  <2>1. ASSUME l.key \in Rules
        PROVE  /\ l.operat \in {"=", "<>"}
               /\ p2.filters = [p.filters EXCEPT ![l.key] = Append(@, AsWritten(u, c))]
               /\ p2.negatives = [p.negatives EXCEPT ![l.key] = IF l.operat = "=" THEN @ ELSE @ + 1]
    <3>1. CaseBefore(u, c) = p.icase BY <1>b, <1>1 DEF WrittenKept
    <3>2. u[c] = l BY <1>a DEF Grown
    <3>3. AsWritten(u, c) = [id |-> l.id, negative |-> l.operat = "<>",
                             ccase |-> IF l.ccase = "default" THEN p.icase ELSE l.ccase]
      BY <3>1, <3>2, Zenon DEF AsWritten
    <3>4. (l.operat = "<>") = (l.operat # "=") BY <2>1, <1>4
    <3>5. /\ p2.filters = [p.filters EXCEPT ![l.key] =
                              Append(@, [id |-> l.id, negative |-> l.operat # "=",
                                         ccase |-> IF l.ccase = "default" THEN p.icase ELSE l.ccase])]
          /\ p2.negatives = [p.negatives EXCEPT ![l.key] = IF l.operat = "=" THEN @ ELSE @ + 1]
      BY <2>1, Zenon DEF Takes
    <3>6. AsWritten(u, c) = [id |-> l.id, negative |-> l.operat # "=",
                             ccase |-> IF l.ccase = "default" THEN p.icase ELSE l.ccase]
      BY <3>3, <3>4
    <3> QED BY <3>5, <3>6, <2>1, <1>4, Zenon
  <2>2. l.key \notin Rules => p2.filters = p.filters /\ p2.negatives = p.negatives
    BY Zenon DEF Takes
  <2>3. PICK f : f = p.filters OBVIOUS
  <2>4. PICK g : g = p.negatives OBVIOUS
  <2>5. PICK f2 : f2 = p2.filters OBVIOUS
  <2>6. PICK g2 : g2 = p2.negatives OBVIOUS
  <2>7. f \in [Rules -> Seq(Filter)] /\ g \in [Rules -> Nat] /\ RulesTaken(t, f, g)
    BY <2>3, <2>4, <1>1, <1>2, Zenon
  <2>8. RuleEffect(u, c, l, f, g, f2, g2)
    BY <2>1, <2>2, <2>3, <2>4, <2>5, <2>6, Zenon DEF RuleEffect
  <2>9. RulesTaken(u, f2, g2) BY <2>7, <2>8, RulesGrow, Zenon
  <2> QED BY <2>5, <2>6, <2>9, Zenon
<1>7. p2.icase = CaseAfter(u)
  <2>1. p2.icase = IF l.key # "reg_case" THEN p.icase
                   ELSE IF l.val = "yes" THEN "case" ELSE "nocase"
    BY Zenon DEF Takes
  <2>2. CaseAfter(u) = IF l.key # "reg_case" THEN CaseAfter(t)
                       ELSE IF l.val = "yes" THEN "case" ELSE "nocase"
    BY CaseGrows
  <2> QED BY <2>1, <2>2, <1>1, Zenon
<1>8. FirstCounts(u, o, n, p2.sticky) /\ Changed(u, o, n, p2.changed)
  <2>1. IF l.key \in Sticky /\ l.key \notin p.changed
        THEN p2.sticky = [p.sticky EXCEPT ![l.key] = l.val] /\ p2.changed = p.changed \union {l.key}
        ELSE p2.sticky = p.sticky /\ p2.changed = p.changed
    BY Zenon DEF Takes
  <2> QED BY <2>1, <1>1, <1>2, StickyGrows, Zenon
<1>9. LastCounts(u, p2.settings)
  <2>1. p2.settings = IF l.key \in Setting THEN [p.settings EXCEPT ![l.key] = l.val] ELSE p.settings
    BY Zenon DEF Takes
  <2> QED BY <2>1, <1>1, <1>2, SettingsGrow, Zenon
<1>10. TypeWanted(u, p2.reg_type)
  <2>1. p2.reg_type = IF l.key = "reg_type" THEN l.val ELSE p.reg_type BY Zenon DEF Takes
  <2> QED BY <2>1, <1>1, TypeGrows, Zenon
<1>11. AccountsTaken(u, p2.cur_account, p2.accounts)
  <2>1. /\ p2.cur_account = IF l.key \in AccountKey THEN [p.cur_account EXCEPT ![l.key] = l.val]
                            ELSE p.cur_account
        /\ p2.accounts = IF l.key = "port" THEN Append(p.accounts, p2.cur_account) ELSE p.accounts
    BY Zenon DEF Takes
  <2>2. l.key \in AccountKey => l.val \in STRING BY <1>3 DEF AccountKey, Rules
  <2>3. PICK a : a = p.cur_account OBVIOUS
  <2>4. PICK as : as = p.accounts OBVIOUS
  <2>5. PICK a2 : a2 = p2.cur_account OBVIOUS
  <2>6. PICK as2 : as2 = p2.accounts OBVIOUS
  <2>7. a \in [AccountKey -> STRING] /\ as \in Seq(Account) /\ AccountsTaken(t, a, as)
    BY <2>3, <2>4, <1>1, <1>2, Zenon
  <2>8. AccountEffect(l, a, as, a2, as2)
    BY <2>1, <2>2, <2>3, <2>4, <2>5, <2>6, Zenon DEF AccountEffect
  <2>9. AccountsTaken(u, a2, as2) BY <2>7, <2>8, AccountsGrow, Zenon
  <2> QED BY <2>5, <2>6, <2>9, Zenon
<1>12. Understood(u, open2) BY <1>1, UnderstoodGrows
<1> QED BY <1>5, <1>6, <1>7, <1>8, <1>9, <1>10, <1>11, <1>12, Zenon DEF Obeyed
----------------------------------------------------------------------------
(***************************************************************************)
(* The text the scanner has taken in.                                       *)
(***************************************************************************)
IsPassed(files, main, i, k, p) ==
    \/ \E n \in DOMAIN main : n < i /\ main[n].key # "include" /\ p = <<n, 0>>
    \/ \E n \in DOMAIN main : /\ n < i /\ main[n].key = "include"
                              /\ \E j \in DOMAIN files[main[n].val] : p = <<n, j>>
    \/ \E j \in 1..k : p = <<i, j>>

\* PassedPlaces place by place.
LEMMA PassedOnes ==
    ASSUME NEW files, NEW main, NEW i, NEW k, NEW p
    PROVE  p \in PassedPlaces(files, main, i, k) <=> IsPassed(files, main, i, k, p)
<1> DEFINE A == {<<m, 0>> : m \in {n \in DOMAIN main : n < i /\ main[n].key # "include"}}
           I == {n \in DOMAIN main : n < i /\ main[n].key = "include"}
           D(m) == DOMAIN files[main[m].val]
           B == UNION {{m} \X D(m) : m \in I}
           C == {<<i, j>> : j \in 1..k}
<1>1. PassedPlaces(files, main, i, k) = (A \union B) \union C
  BY DEF PassedPlaces
<1>2. p \in A <=> \E n \in DOMAIN main : n < i /\ main[n].key # "include" /\ p = <<n, 0>>
  BY Zenon
<1>3. p \in B <=> \E m \in I : p \in {m} \X D(m) BY Zenon
<1>4. ASSUME NEW m, NEW E PROVE p \in {m} \X E <=> \E j \in E : p = <<m, j>> OBVIOUS
<1>5. \A m : m \in I <=> m \in DOMAIN main /\ m < i /\ main[m].key = "include" OBVIOUS
<1>6. p \in C <=> \E j \in 1..k : p = <<i, j>> BY Zenon
<1> HIDE DEF A, B, C, I, D
<1>7. \A m : p \in {m} \X D(m) <=> \E j \in D(m) : p = <<m, j>> BY <1>4
<1>8. p \in PassedPlaces(files, main, i, k) <=> p \in A \/ p \in B \/ p \in C BY <1>1
<1>9. p \in B <=> \E m \in DOMAIN main : /\ m < i /\ main[m].key = "include"
                                          /\ \E j \in D(m) : p = <<m, j>>
  BY <1>3, <1>5, <1>7, Zenon
<1> QED BY <1>2, <1>6, <1>8, <1>9, Zenon DEF IsPassed, D

\* The line at the scanner's place is the next one of the text.
LEMMA MainRead ==
    ASSUME NEW files, NEW main \in Seq(FileLine), NEW i \in 1..Len(main), main[i].key # "include",
           TextType(TextTo(files, main, i, 0))
    PROVE  Grows(TextTo(files, main, i, 0), <<i, 0>>, main[i], TextTo(files, main, i + 1, 0))
<1>0. DOMAIN main = 1..Len(main) /\ Len(main) \in Nat OBVIOUS
<1>1. PICK P : P = PassedPlaces(files, main, i, 0) OBVIOUS
<1>2. PICK Q : Q = PassedPlaces(files, main, i + 1, 0) OBVIOUS
<1>3. \A p : p \in P <=>
               \/ \E n \in DOMAIN main : n < i /\ main[n].key # "include" /\ p = <<n, 0>>
               \/ \E n \in DOMAIN main : /\ n < i /\ main[n].key = "include"
                                         /\ \E j \in DOMAIN files[main[n].val] : p = <<n, j>>
  <2>1. ~ \E j \in 1..0 : TRUE OBVIOUS
  <2>2. \A p : p \in P <=> IsPassed(files, main, i, 0, p) BY <1>1, PassedOnes
  <2> QED BY <2>1, <2>2, Zenon DEF IsPassed
<1>4. \A p : p \in Q <=>
               \/ \E n \in DOMAIN main : n < i + 1 /\ main[n].key # "include" /\ p = <<n, 0>>
               \/ \E n \in DOMAIN main : /\ n < i + 1 /\ main[n].key = "include"
                                         /\ \E j \in DOMAIN files[main[n].val] : p = <<n, j>>
  <2>1. ~ \E j \in 1..0 : TRUE OBVIOUS
  <2>2. \A p : p \in Q <=> IsPassed(files, main, i + 1, 0, p) BY <1>2, PassedOnes
  <2> QED BY <2>1, <2>2, Zenon DEF IsPassed
<1>5. \A n \in DOMAIN main : n < i + 1 <=> n < i \/ n = i BY <1>0
<1>6. Q = P \union {<<i, 0>>}
  <2>1. \A p : p \in Q <=> p \in P \/ p = <<i, 0>> BY <1>0, <1>3, <1>4, <1>5, Zenon
  <2> QED BY <2>1
<1>7. \A p \in P : Before(p, <<i, 0>>)
  <2>1. \A p \in P : \E n \in DOMAIN main : n < i /\ \E j : p = <<n, j>> BY <1>3, Zenon
  <2> QED BY <2>1 DEF Before
<1>8. /\ DOMAIN TextTo(files, main, i, 0) = P /\ DOMAIN TextTo(files, main, i + 1, 0) = Q
      /\ \A p \in P : TextTo(files, main, i + 1, 0)[p] = TextTo(files, main, i, 0)[p]
  BY <1>1, <1>2, <1>6 DEF TextTo
<1>9. TextTo(files, main, i + 1, 0)[<<i, 0>>] = main[i]
  <2>1. <<i, 0>> \in PassedPlaces(files, main, i + 1, 0) BY <1>2, <1>6
  <2> QED BY <2>1 DEF TextTo
<1>10. <<i, 0>> \in Pair BY <1>0 DEF Pair
<1> QED BY <1>6, <1>7, <1>8, <1>9, <1>10, Zenon DEF Grows

\* Reading a line of an included file lets the text grow by that line.
LEMMA IncludedLineRead ==
    ASSUME NEW files, NEW main \in Seq(FileLine), NEW i \in 1..Len(main), main[i].key = "include",
           files[main[i].val] \in Seq(FileLine), NEW k \in Nat, k + 1 \in 1..Len(files[main[i].val]),
           TextType(TextTo(files, main, i, k))
    PROVE  Grows(TextTo(files, main, i, k), <<i, k + 1>>, files[main[i].val][k + 1],
                 TextTo(files, main, i, k + 1))
<1>0. DOMAIN main = 1..Len(main) /\ Len(main) \in Nat OBVIOUS
<1>1. PICK P : P = PassedPlaces(files, main, i, k) OBVIOUS
<1>2. PICK Q : Q = PassedPlaces(files, main, i, k + 1) OBVIOUS
<1>3. \A p : p \in P <=>
               \/ \E n \in DOMAIN main : n < i /\ main[n].key # "include" /\ p = <<n, 0>>
               \/ \E n \in DOMAIN main : /\ n < i /\ main[n].key = "include"
                                         /\ \E j \in DOMAIN files[main[n].val] : p = <<n, j>>
               \/ \E j \in 1..k : p = <<i, j>>
  <2>1. \A p : p \in P <=> IsPassed(files, main, i, k, p) BY <1>1, PassedOnes
  <2> QED BY <2>1, Zenon DEF IsPassed
<1>4. \A p : p \in Q <=>
               \/ \E n \in DOMAIN main : n < i /\ main[n].key # "include" /\ p = <<n, 0>>
               \/ \E n \in DOMAIN main : /\ n < i /\ main[n].key = "include"
                                         /\ \E j \in DOMAIN files[main[n].val] : p = <<n, j>>
               \/ \E j \in 1..(k + 1) : p = <<i, j>>
  <2>1. \A p : p \in Q <=> IsPassed(files, main, i, k + 1, p) BY <1>2, PassedOnes
  <2> QED BY <2>1, Zenon DEF IsPassed
<1>5. \A j : j \in 1..(k + 1) <=> j \in 1..k \/ j = k + 1 OBVIOUS
<1>6. Q = P \union {<<i, k + 1>>}
  <2>1. \A p : p \in Q <=> p \in P \/ p = <<i, k + 1>> BY <1>3, <1>4, <1>5, Zenon
  <2> QED BY <2>1
<1>7. \A p \in P : Before(p, <<i, k + 1>>)
  <2>1. \A p \in P : \/ \E n \in DOMAIN main : n < i /\ \E j : p = <<n, j>>
                     \/ \E j \in 1..k : p = <<i, j>>
    BY <1>3, Zenon
  <2>2. \A j \in 1..k : j < k + 1 OBVIOUS
  <2> QED BY <2>1, <2>2 DEF Before
<1>8. /\ DOMAIN TextTo(files, main, i, k) = P /\ DOMAIN TextTo(files, main, i, k + 1) = Q
      /\ \A p \in P : TextTo(files, main, i, k + 1)[p] = TextTo(files, main, i, k)[p]
  BY <1>1, <1>2, <1>6 DEF TextTo
<1>9. TextTo(files, main, i, k + 1)[<<i, k + 1>>] = files[main[i].val][k + 1]
  <2>1. <<i, k + 1>> \in PassedPlaces(files, main, i, k + 1) BY <1>2, <1>6
  <2>2. k + 1 # 0 OBVIOUS
  <2> QED BY <2>1, <2>2 DEF TextTo
<1>10. <<i, k + 1>> \in Pair BY <1>0 DEF Pair
<1> QED BY <1>6, <1>7, <1>8, <1>9, <1>10, Zenon DEF Grows

\* The end of an included file leaves the text as it is.
LEMMA IncludedLeft ==
    ASSUME NEW files, NEW main \in Seq(FileLine), NEW i \in 1..Len(main), main[i].key = "include",
           files[main[i].val] \in Seq(FileLine)
    PROVE  TextTo(files, main, i, Len(files[main[i].val])) = TextTo(files, main, i + 1, 0)
<1>0. DOMAIN main = 1..Len(main) /\ Len(main) \in Nat OBVIOUS
<1>1. PICK P : P = PassedPlaces(files, main, i, Len(files[main[i].val])) OBVIOUS
<1>2. PICK Q : Q = PassedPlaces(files, main, i + 1, 0) OBVIOUS
<1>3. \A p : p \in P <=>
               \/ \E n \in DOMAIN main : n < i /\ main[n].key # "include" /\ p = <<n, 0>>
               \/ \E n \in DOMAIN main : /\ n < i /\ main[n].key = "include"
                                         /\ \E j \in DOMAIN files[main[n].val] : p = <<n, j>>
               \/ \E j \in DOMAIN files[main[i].val] : p = <<i, j>>
  <2>1. DOMAIN files[main[i].val] = 1..Len(files[main[i].val]) OBVIOUS
  <2>2. \A p : p \in P <=> IsPassed(files, main, i, Len(files[main[i].val]), p) BY <1>1, PassedOnes
  <2> QED BY <2>1, <2>2, Zenon DEF IsPassed
<1>4. \A p : p \in Q <=>
               \/ \E n \in DOMAIN main : n < i + 1 /\ main[n].key # "include" /\ p = <<n, 0>>
               \/ \E n \in DOMAIN main : /\ n < i + 1 /\ main[n].key = "include"
                                         /\ \E j \in DOMAIN files[main[n].val] : p = <<n, j>>
  <2>1. ~ \E j \in 1..0 : TRUE OBVIOUS
  <2>2. \A p : p \in Q <=> IsPassed(files, main, i + 1, 0, p) BY <1>2, PassedOnes
  <2> QED BY <2>1, <2>2, Zenon DEF IsPassed
<1>5. \A n \in DOMAIN main : n < i + 1 <=> n < i \/ n = i BY <1>0
<1>6. P = Q
  <2>1. \A p : p \in Q <=> p \in P BY <1>0, <1>3, <1>4, <1>5, Zenon
  <2> QED BY <2>1
<1> QED BY <1>1, <1>2, <1>6, Zenon DEF TextTo

\* Nothing is read yet.
LEMMA NothingRead ==
    ASSUME NEW files, NEW main \in Seq(FileLine)
    PROVE  TextTo(files, main, 1, 0) = Nothing
<1>1. PassedPlaces(files, main, 1, 0) = {}
  <2>1. \A n \in DOMAIN main : ~(n < 1) OBVIOUS
  <2>2. ~ \E j \in 1..0 : TRUE OBVIOUS
  <2>3. \A p : ~IsPassed(files, main, 1, 0, p) BY <2>1, <2>2, Zenon DEF IsPassed
  <2>4. \A p : p \notin PassedPlaces(files, main, 1, 0) BY <2>3, PassedOnes
  <2> QED BY <2>4
<1> QED BY <1>1 DEF TextTo, Nothing
----------------------------------------------------------------------------
(***************************************************************************)
(* The member functions of Preferences do to the preferences what the line     *)
(* says.                                                                    *)
(***************************************************************************)
NegativesCounted(p) == \A r \in Rules : p.negatives[r] \in 0..Len(p.filters[r])

Sound(p, l, p2) ==
    /\ p2 \in PreferencesType /\ NegativesCounted(p2)
    /\ p2.rc_file = p.rc_file
    /\ Takes(p, l, p2)

\* add_allow_rule, add_deny_rule and add_score do what the line says.
LEMMA RuleTaken ==
    ASSUME NEW p \in PreferencesType, NegativesCounted(p), NEW l \in FileLine, l.key \in Rules
    PROVE  Sound(p, l, AddRule(p, l))
<1> DEFINE p2 == AddRule(p, l)
           w == [id |-> l.id, negative |-> l.operat # "=",
                 ccase |-> IF l.ccase = "default" THEN p.icase ELSE l.ccase]
<1>1. l \in RuleLine BY DEF FileLine, OtherLine
<1>2. w \in Filter
  <2>1. p.icase \in {"case", "nocase"} BY PreferencesFields
  <2>2. l.id \in STRING /\ l.ccase \in {"default", "case", "nocase"} BY <1>1 DEF RuleLine
  <2> QED BY <2>1, <2>2 DEF Filter
<1>3. p.filters \in [Rules -> Seq(Filter)] /\ p.negatives \in [Rules -> Nat]
  BY PreferencesFields
<1>4. p2 = [p EXCEPT !.filters[l.key] = Append(@, w),
                     !.negatives[l.key] = IF l.operat = "=" THEN @ ELSE @ + 1]
  BY Zenon DEF AddRule
<1> HIDE DEF p2, w
<1>5. PICK fs : fs = [p.filters EXCEPT ![l.key] = Append(@, w)] OBVIOUS
<1>6. PICK ns : ns = [p.negatives EXCEPT ![l.key] = IF l.operat = "=" THEN @ ELSE @ + 1] OBVIOUS
<1>7. fs \in [Rules -> Seq(Filter)] /\ ns \in [Rules -> Nat] BY <1>2, <1>3, <1>5, <1>6
<1>8. p2 = [p EXCEPT !.filters = fs, !.negatives = ns] BY <1>4, <1>5, <1>6 DEF PreferencesType
<1>9. /\ p2 \in PreferencesType /\ p2.filters = fs /\ p2.negatives = ns
      /\ p2.rc_file = p.rc_file /\ p2.icase = p.icase /\ p2.sticky = p.sticky
      /\ p2.changed = p.changed /\ p2.settings = p.settings /\ p2.reg_type = p.reg_type
      /\ p2.cur_account = p.cur_account /\ p2.accounts = p.accounts
  BY <1>7, <1>8 DEF PreferencesType
<1>10. NegativesCounted(p2)
  <2> SUFFICES ASSUME NEW r \in Rules PROVE ns[r] \in 0..Len(fs[r]) BY <1>9 DEF NegativesCounted
  <2>1. p.negatives[r] \in 0..Len(p.filters[r]) BY DEF NegativesCounted
  <2>2. PICK f : f = p.filters[r] OBVIOUS
  <2>3. f \in Seq(Filter) /\ Len(f) \in Nat BY <2>2, <1>3
  <2>4. CASE r = l.key
    <3>1. Longer(f, w, Append(f, w)) BY <2>3, <1>2, Appended
    <3>2. Len(Append(f, w)) = Len(f) + 1 BY <3>1 DEF Longer
    <3>3. fs[r] = Append(f, w) BY <2>2, <2>4, <1>3, <1>5
    <3>4. ns[r] = p.negatives[r] \/ ns[r] = p.negatives[r] + 1 BY <2>4, <1>3, <1>6
    <3> QED BY <3>2, <3>3, <3>4, <2>1, <2>2, <2>3
  <2>5. CASE r # l.key BY <2>5, <2>1, <1>3, <1>5, <1>6
  <2> QED BY <2>4, <2>5
<1>11. Takes(p, l, p2)
  <2>1. /\ p2.filters = [p.filters EXCEPT ![l.key] = Append(@, w)]
        /\ p2.negatives = [p.negatives EXCEPT ![l.key] = IF l.operat = "=" THEN @ ELSE @ + 1]
    BY <1>5, <1>6, <1>9
  <2>2. /\ l.key # "reg_case" /\ l.key \notin Sticky /\ l.key \notin Setting
        /\ l.key # "reg_type" /\ l.key \notin AccountKey /\ l.key # "port"
    BY DEF Rules, Sticky, Setting, AccountKey
  <2> QED BY <2>1, <2>2, <1>9, Zenon DEF Takes, w
<1> QED BY <1>9, <1>10, <1>11 DEF Sound, p2

\* The preferences with one member changed.
LEMMA Untaken ==
    ASSUME NEW p \in PreferencesType, NegativesCounted(p), NEW l, NEW p2,
           p2 \in PreferencesType, p2.filters = p.filters, p2.negatives = p.negatives,
           p2.rc_file = p.rc_file, l.key \notin Rules,
           p2.icase = IF l.key # "reg_case" THEN p.icase
                      ELSE IF l.val = "yes" THEN "case" ELSE "nocase",
           IF l.key \in Sticky /\ l.key \notin p.changed
           THEN p2.sticky = [p.sticky EXCEPT ![l.key] = l.val] /\ p2.changed = p.changed \union {l.key}
           ELSE p2.sticky = p.sticky /\ p2.changed = p.changed,
           p2.settings = IF l.key \in Setting THEN [p.settings EXCEPT ![l.key] = l.val] ELSE p.settings,
           p2.reg_type = IF l.key = "reg_type" THEN l.val ELSE p.reg_type,
           p2.cur_account = IF l.key \in AccountKey THEN [p.cur_account EXCEPT ![l.key] = l.val]
                            ELSE p.cur_account,
           p2.accounts = IF l.key = "port" THEN Append(p.accounts, p2.cur_account) ELSE p.accounts
    PROVE  Sound(p, l, p2)
<1>1. NegativesCounted(p2) BY DEF NegativesCounted
<1>2. Takes(p, l, p2) BY DEF Takes
<1> QED BY <1>1, <1>2 DEF Sound

\* So does a setter that overwrites,
LEMMA ValueTaken ==
    ASSUME NEW p \in PreferencesType, NegativesCounted(p), NEW l, l.key \in Setting, l.val \in STRING
    PROVE  Sound(p, l, [p EXCEPT !.settings[l.key] = l.val])
<1>1. PICK s : s = [p.settings EXCEPT ![l.key] = l.val] OBVIOUS
<1>2. s \in [Setting -> STRING] BY <1>1, PreferencesFields
<1>3. PICK p2 : p2 = [p EXCEPT !.settings[l.key] = l.val] OBVIOUS
<1>4. p2 = [p EXCEPT !.settings = s] BY <1>1, <1>3 DEF PreferencesType
<1>5. /\ p2 \in PreferencesType /\ p2.filters = p.filters /\ p2.negatives = p.negatives
      /\ p2.rc_file = p.rc_file /\ p2.icase = p.icase /\ p2.sticky = p.sticky
      /\ p2.changed = p.changed /\ p2.settings = s /\ p2.reg_type = p.reg_type
      /\ p2.cur_account = p.cur_account /\ p2.accounts = p.accounts
  BY <1>2, <1>4 DEF PreferencesType
<1>6. /\ l.key # "reg_case" /\ l.key \notin Sticky /\ l.key \notin Rules
      /\ l.key # "reg_type" /\ l.key \notin AccountKey /\ l.key # "port"
  BY DEF Rules, Sticky, Setting, AccountKey
<1>7. Sound(p, l, p2) BY <1>1, <1>5, <1>6, Untaken, Zenon
<1> QED BY <1>3, <1>7, Zenon

\* one that leaves alone what was set before,
LEMMA StickyTaken ==
    ASSUME NEW p \in PreferencesType, NegativesCounted(p), NEW l, l.key \in Sticky, l.val \in STRING
    PROVE  Sound(p, l, SetSticky(p, l.key, l.val))
<1>1. PICK s : s = [p.sticky EXCEPT ![l.key] = l.val] OBVIOUS
<1>2. PICK c : c = p.changed \union {l.key} OBVIOUS
<1>3. s \in [Sticky -> STRING] /\ c \in SUBSET Sticky BY <1>1, <1>2, PreferencesFields
<1>4. PICK p2 : p2 = SetSticky(p, l.key, l.val) OBVIOUS
<1>5. /\ l.key # "reg_case" /\ l.key \notin Setting /\ l.key \notin Rules
      /\ l.key # "reg_type" /\ l.key \notin AccountKey /\ l.key # "port"
  BY DEF Rules, Sticky, Setting, AccountKey
<1>6. Sound(p, l, p2)
  <2>1. CASE l.key \in p.changed
    <3>1. p2 = p BY <2>1, <1>4 DEF SetSticky
    <3> QED BY <2>1, <3>1, <1>5, Untaken, Zenon
  <2>2. CASE l.key \notin p.changed
    <3>1. p2 = [p EXCEPT !.sticky = s, !.changed = c]
      BY <2>2, <1>1, <1>2, <1>4 DEF SetSticky, PreferencesType
    <3>2. /\ p2 \in PreferencesType /\ p2.filters = p.filters /\ p2.negatives = p.negatives
          /\ p2.rc_file = p.rc_file /\ p2.icase = p.icase /\ p2.sticky = s
          /\ p2.changed = c /\ p2.settings = p.settings /\ p2.reg_type = p.reg_type
          /\ p2.cur_account = p.cur_account /\ p2.accounts = p.accounts
      BY <1>3, <3>1 DEF PreferencesType
    <3> QED BY <2>2, <3>2, <1>1, <1>2, <1>5, Untaken, Zenon
  <2> QED BY <2>1, <2>2
<1> QED BY <1>4, <1>6, Zenon

\* set_default_case,
LEMMA CaseTaken ==
    ASSUME NEW p \in PreferencesType, NegativesCounted(p), NEW l, l.key = "reg_case"
    PROVE  Sound(p, l, set_default_case(p, l.val))
<1>1. PICK s : s = IF l.val = "yes" THEN "case" ELSE "nocase" OBVIOUS
<1>2. s \in {"case", "nocase"} BY <1>1
<1>3. PICK p2 : p2 = set_default_case(p, l.val) OBVIOUS
<1>4. p2 = [p EXCEPT !.icase = s] BY <1>1, <1>3 DEF set_default_case
<1>5. /\ p2 \in PreferencesType /\ p2.filters = p.filters /\ p2.negatives = p.negatives
      /\ p2.rc_file = p.rc_file /\ p2.icase = s /\ p2.sticky = p.sticky
      /\ p2.changed = p.changed /\ p2.settings = p.settings /\ p2.reg_type = p.reg_type
      /\ p2.cur_account = p.cur_account /\ p2.accounts = p.accounts
  BY <1>2, <1>4 DEF PreferencesType
<1>6. /\ l.key \notin Setting /\ l.key \notin Sticky /\ l.key \notin Rules
      /\ l.key # "reg_type" /\ l.key \notin AccountKey /\ l.key # "port"
  BY DEF Rules, Sticky, Setting, AccountKey
<1>7. p2.icase = IF l.key # "reg_case" THEN p.icase
                 ELSE IF l.val = "yes" THEN "case" ELSE "nocase"
  BY <1>1, <1>5
<1>8. Sound(p, l, p2) BY <1>5, <1>6, <1>7, Untaken, Zenon
<1> QED BY <1>3, <1>8, Zenon

\* set_reg_type,
LEMMA TypeTaken ==
    ASSUME NEW p \in PreferencesType, NegativesCounted(p), NEW l, l.key = "reg_type",
           l.val \in RegTypes
    PROVE  Sound(p, l, [p EXCEPT !.reg_type = l.val])
<1>1. PICK p2 : p2 = [p EXCEPT !.reg_type = l.val] OBVIOUS
<1>2. /\ p2 \in PreferencesType /\ p2.filters = p.filters /\ p2.negatives = p.negatives
      /\ p2.rc_file = p.rc_file /\ p2.icase = p.icase /\ p2.sticky = p.sticky
      /\ p2.changed = p.changed /\ p2.settings = p.settings /\ p2.reg_type = l.val
      /\ p2.cur_account = p.cur_account /\ p2.accounts = p.accounts
  BY <1>1 DEF PreferencesType
<1>3. /\ l.key \notin Setting /\ l.key \notin Sticky /\ l.key \notin Rules
      /\ l.key # "reg_case" /\ l.key \notin AccountKey /\ l.key # "port"
  BY DEF Rules, Sticky, Setting, AccountKey
<1>4. Sound(p, l, p2) BY <1>2, <1>3, Untaken, Zenon
<1> QED BY <1>1, <1>4, Zenon

\* the setters of an account,
LEMMA FieldTaken ==
    ASSUME NEW p \in PreferencesType, NegativesCounted(p), NEW l, l.key \in AccountKey \ {"port"},
           l.val \in STRING
    PROVE  Sound(p, l, SetAccount(p, l.key, l.val))
<1>1. PICK a : a = [p.cur_account EXCEPT ![l.key] = l.val] OBVIOUS
<1>2. a \in Account BY <1>1, PreferencesFields DEF Account
<1>3. PICK p2 : p2 = SetAccount(p, l.key, l.val) OBVIOUS
<1>4. p2 = [p EXCEPT !.cur_account = a] BY <1>1, <1>3 DEF SetAccount, PreferencesType
<1>5. /\ p2 \in PreferencesType /\ p2.filters = p.filters /\ p2.negatives = p.negatives
      /\ p2.rc_file = p.rc_file /\ p2.icase = p.icase /\ p2.sticky = p.sticky
      /\ p2.changed = p.changed /\ p2.settings = p.settings /\ p2.reg_type = p.reg_type
      /\ p2.cur_account = a /\ p2.accounts = p.accounts
  BY <1>2, <1>4 DEF PreferencesType
<1>6. /\ l.key \notin Setting /\ l.key \notin Sticky /\ l.key \notin Rules
      /\ l.key # "reg_case" /\ l.key # "reg_type" /\ l.key \in AccountKey /\ l.key # "port"
  BY DEF Rules, Sticky, Setting, AccountKey
<1>7. Sound(p, l, p2) BY <1>1, <1>5, <1>6, Untaken, Zenon
<1> QED BY <1>3, <1>7, Zenon

\* and set_port, which also stores the account.
LEMMA PortTaken ==
    ASSUME NEW p \in PreferencesType, NegativesCounted(p), NEW l, l.key = "port", l.val \in STRING
    PROVE  Sound(p, l, set_port(p, l.val))
<1>1. PICK a : a = [p.cur_account EXCEPT !["port"] = l.val] OBVIOUS
<1>2. PICK as : as = Append(p.accounts, a) OBVIOUS
<1>3. a \in Account BY <1>1, PreferencesFields DEF Account
<1>4. as \in Seq(Account) BY <1>2, <1>3, PreferencesFields
<1>5. PICK p2 : p2 = set_port(p, l.val) OBVIOUS
<1>6. p2 = [p EXCEPT !.cur_account = a, !.accounts = as]
  BY <1>1, <1>2, <1>5 DEF set_port, PreferencesType
<1>7. /\ p2 \in PreferencesType /\ p2.filters = p.filters /\ p2.negatives = p.negatives
      /\ p2.rc_file = p.rc_file /\ p2.icase = p.icase /\ p2.sticky = p.sticky
      /\ p2.changed = p.changed /\ p2.settings = p.settings /\ p2.reg_type = p.reg_type
      /\ p2.cur_account = a /\ p2.accounts = as
  BY <1>3, <1>4, <1>6 DEF PreferencesType
<1>8. /\ l.key \notin Setting /\ l.key \notin Sticky /\ l.key \notin Rules
      /\ l.key # "reg_case" /\ l.key # "reg_type" /\ l.key \in AccountKey
  BY DEF Rules, Sticky, Setting, AccountKey
<1>9. /\ p2.cur_account = IF l.key \in AccountKey THEN [p.cur_account EXCEPT ![l.key] = l.val]
                          ELSE p.cur_account
      /\ p2.accounts = IF l.key = "port" THEN Append(p.accounts, p2.cur_account) ELSE p.accounts
  BY <1>1, <1>2, <1>7, <1>8
<1>10. Sound(p, l, p2) BY <1>7, <1>8, <1>9, Untaken, Zenon
<1> QED BY <1>5, <1>10, Zenon

\* A remark, and an argument that is not closed.
LEMMA NothingTaken ==
    ASSUME NEW p \in PreferencesType, NegativesCounted(p), NEW l, l.key \in {"rem", "open"}
    PROVE  Sound(p, l, p)
<1>1. /\ l.key \notin Setting /\ l.key \notin Sticky /\ l.key \notin Rules
      /\ l.key # "reg_case" /\ l.key # "reg_type" /\ l.key \notin AccountKey /\ l.key # "port"
  BY DEF Rules, Sticky, Setting, AccountKey
<1> QED BY <1>1, Untaken, Zenon
----------------------------------------------------------------------------
(***************************************************************************)
(* The command line.                                                       *)
(***************************************************************************)
LEMMA OptionKeys == DOMAIN OptionKey = {"t", "v", "L"} /\ \A o \in DOMAIN OptionKey : OptionKey[o] \in Sticky
  BY DEF OptionKey, Sticky

\* A text without lines has none with any keyword.
LEMMA NoLines == \A keys : Positions(Nothing, keys) = {}
  BY DEF Positions, Nothing

OptionEffect(e, s, ch, s2, ch2) ==
    IF e.opt \in DOMAIN OptionKey /\ OptionKey[e.opt] \notin ch
    THEN s2 = [s EXCEPT ![OptionKey[e.opt]] = OptionValue(e)] /\ ch2 = ch \union {OptionKey[e.opt]}
    ELSE s2 = s /\ ch2 = ch

\* The first option with a key decides, whatever comes after it.
LEMMA OptionTaken ==
    ASSUME NEW o \in Seq(Opt), NEW n \in Nat, n + 1 \in 1..Len(o),
           NEW s \in [Sticky -> STRING], NEW ch \in SUBSET Sticky, NEW s2, NEW ch2,
           FirstCounts(Nothing, o, n, s), Changed(Nothing, o, n, ch),
           OptionEffect(o[n + 1], s, ch, s2, ch2)
    PROVE  FirstCounts(Nothing, o, n + 1, s2) /\ Changed(Nothing, o, n + 1, ch2)
<1> DEFINE e == o[n + 1]
<1>1. ASSUME NEW key \in Sticky
      PROVE  /\ \A k \in OptionsFor(o, n + 1, key) :
                   (\A j \in OptionsFor(o, n + 1, key) : k <= j) => s2[key] = OptionValue(o[k])
             /\ key \in ch2 <=> OptionsFor(o, n + 1, key) # {}
  <2>1. PICK G : G = OptionsFor(o, n, key) OBVIOUS
  <2>2. G \subseteq 1..n BY <2>1 DEF OptionsFor
  <2>3. \A k \in G : (\A j \in G : k <= j) => s[key] = OptionValue(o[k])
    BY <2>1, Zenon DEF FirstCounts
  <2>4. key \in ch <=> G # {} BY <2>1, NoLines, Zenon DEF Changed
  <2>5. \A k \in 1..(n + 1) : k \in 1..n \/ k = n + 1 OBVIOUS
  <2>6. CASE e.opt \in DOMAIN OptionKey /\ OptionKey[e.opt] = key
    <3>1. OptionsFor(o, n + 1, key) = G \union {n + 1}
      BY <2>1, <2>6 DEF OptionsFor
    <3>2. CASE key \in ch
      <4>1. s2 = s /\ ch2 = ch BY <2>6, <3>2 DEF OptionEffect
      <4>2. G # {} BY <2>4, <3>2
      <4>3. ASSUME NEW k \in G \union {n + 1}, \A j \in G \union {n + 1} : k <= j
            PROVE  k \in G
        <5>1. PICK j \in G : TRUE BY <4>2
        <5> QED BY <5>1, <4>3, <2>2
      <4> QED BY <4>1, <4>2, <4>3, <3>1, <3>2, <2>3
    <3>3. CASE key \notin ch
      <4>1. s2[key] = OptionValue(e) /\ key \in ch2 BY <2>6, <3>3 DEF OptionEffect
      <4>2. G = {} BY <2>4, <3>3
      <4> QED BY <4>1, <4>2, <3>1
    <3> QED BY <3>2, <3>3
  <2>7. CASE ~(e.opt \in DOMAIN OptionKey /\ OptionKey[e.opt] = key)
    <3>1. OptionsFor(o, n + 1, key) = G BY <2>1, <2>7 DEF OptionsFor
    <3>2. s2[key] = s[key] /\ (key \in ch2 <=> key \in ch) BY <2>7 DEF OptionEffect
    <3> QED BY <3>1, <3>2, <2>3, <2>4
  <2> QED BY <2>6, <2>7
<1>2. \A p : p \notin DOMAIN Nothing BY DEF Nothing
<1>3. FirstCounts(Nothing, o, n + 1, s2) BY <1>1, <1>2, Zenon DEF FirstCounts
<1>4. Changed(Nothing, o, n + 1, ch2) BY <1>1, NoLines, Zenon DEF Changed
<1> QED BY <1>3, <1>4
----------------------------------------------------------------------------
(***************************************************************************)
(* The filters in the order in which they are compiled.                       *)
(***************************************************************************)
Joins(T, r, s, m) ==
    /\ m \in Seq(T) /\ Len(m) = Len(r) + Len(s)
    /\ \A i \in 1..Len(r) : m[i] = r[i]
    /\ \A i \in 1..Len(s) : m[Len(r) + i] = s[i]

\* What \o does to two sequences.
LEMMA Joined ==
    ASSUME NEW T, NEW r \in Seq(T), NEW s \in Seq(T)
    PROVE  Joins(T, r, s, r \o s)
  BY DEF Joins

InTurn(T, a, d, s, io) ==
    /\ io \in Seq(T) /\ Len(io) = Len(a) + Len(d) + Len(s)
    /\ \A i \in 1..Len(a) : \E j \in 1..Len(io) : io[j] = a[i]
    /\ \A i \in 1..Len(d) : \E j \in 1..Len(io) : io[j] = d[i]
    /\ \A i \in 1..Len(s) : \E j \in 1..Len(io) : io[j] = s[i]

\* Every filter has its turn.
LEMMA EachInOrder ==
    ASSUME NEW T, NEW a \in Seq(T), NEW d \in Seq(T), NEW s \in Seq(T), NEW io, io = a \o d \o s
    PROVE  InTurn(T, a, d, s, io)
<1>1. PICK m : m = a \o d OBVIOUS
<1>a. Joins(T, a, d, m) BY <1>1, Joined
<1>2. /\ m \in Seq(T) /\ Len(m) = Len(a) + Len(d)
      /\ \A i \in 1..Len(a) : m[i] = a[i]
      /\ \A i \in 1..Len(d) : m[Len(a) + i] = d[i]
  BY <1>a DEF Joins
<1>3. io = m \o s BY <1>1
<1>b. Joins(T, m, s, io) BY <1>2, <1>3, Joined
<1>4. /\ io \in Seq(T) /\ Len(io) = Len(m) + Len(s)
      /\ \A i \in 1..Len(m) : io[i] = m[i]
      /\ \A i \in 1..Len(s) : io[Len(m) + i] = s[i]
  BY <1>b DEF Joins
<1>5. Len(a) \in Nat /\ Len(d) \in Nat /\ Len(s) \in Nat /\ Len(m) \in Nat /\ Len(io) \in Nat
  BY <1>2, <1>4
<1>6. ASSUME NEW i \in 1..Len(a) PROVE \E j \in 1..Len(io) : io[j] = a[i]
  <2>1. i \in 1..Len(m) /\ i \in 1..Len(io) BY <1>2, <1>4, <1>5
  <2> QED BY <2>1, <1>2, <1>4
<1>7. ASSUME NEW i \in 1..Len(d) PROVE \E j \in 1..Len(io) : io[j] = d[i]
  <2>1. Len(a) + i \in 1..Len(m) /\ Len(a) + i \in 1..Len(io) BY <1>2, <1>4, <1>5
  <2> QED BY <2>1, <1>2, <1>4
<1>8. ASSUME NEW i \in 1..Len(s) PROVE \E j \in 1..Len(io) : io[j] = s[i]
  <2>1. Len(m) + i \in 1..Len(io) BY <1>2, <1>4, <1>5
  <2> QED BY <2>1, <1>4
<1> QED BY <1>2, <1>4, <1>6, <1>7, <1>8 DEF InTurn

\* There are as many rules as filters of the three kinds.
LEMMA RulesCounted ==
    ASSUME NEW t, TextType(t)
    PROVE  Cardinality(Positions(t, Rules)) =
               Cardinality(Positions(t, {"allow"})) + Cardinality(Positions(t, {"deny"}))
               + Cardinality(Positions(t, {"score"}))
<1>1. PICK A : A = Positions(t, {"allow"}) OBVIOUS
<1>2. PICK D : D = Positions(t, {"deny"}) OBVIOUS
<1>3. PICK S : S = Positions(t, {"score"}) OBVIOUS
<1>4. IsFiniteSet(DOMAIN t) BY DEF TextType
<1>5. A \subseteq DOMAIN t /\ D \subseteq DOMAIN t /\ S \subseteq DOMAIN t
  BY <1>1, <1>2, <1>3 DEF Positions
<1>6. IsFiniteSet(A) /\ IsFiniteSet(D) /\ IsFiniteSet(S) BY <1>4, <1>5, FS_Subset
<1>7. Positions(t, Rules) = (A \union D) \union S
  BY <1>1, <1>2, <1>3 DEF Positions, Rules
<1>8. A \intersect D = {} /\ (A \union D) \intersect S = {}
  BY <1>1, <1>2, <1>3 DEF Positions
<1>9. IsFiniteSet(A \union D) /\ Cardinality(A \union D) = Cardinality(A) + Cardinality(D)
  <2>1. Cardinality(A \intersect D) = 0 BY <1>8, FS_EmptySet
  <2>2. Cardinality(A) \in Nat /\ Cardinality(D) \in Nat BY <1>6, FS_CardinalityType
  <2>3. /\ IsFiniteSet(A \union D)
        /\ Cardinality(A \union D) = Cardinality(A) + Cardinality(D) - Cardinality(A \intersect D)
    BY <1>6, FS_Union
  <2> QED BY <2>1, <2>2, <2>3
<1>10. Cardinality((A \union D) \union S) = Cardinality(A \union D) + Cardinality(S)
  <2>1. Cardinality((A \union D) \intersect S) = 0 BY <1>8, FS_EmptySet
  <2>2. Cardinality(A \union D) \in Nat /\ Cardinality(S) \in Nat
    BY <1>6, <1>9, FS_CardinalityType
  <2>3. PICK M : M = A \union D OBVIOUS
  <2>4. Cardinality(M \union S) = Cardinality(M) + Cardinality(S) - Cardinality(M \intersect S)
    BY <2>3, <1>6, <1>9, FS_Union
  <2> QED BY <2>1, <2>2, <2>3, <2>4
<1> QED BY <1>1, <1>2, <1>3, <1>7, <1>9, <1>10
----------------------------------------------------------------------------
(***************************************************************************)
(* A whole block: each of its lines is the last one of its keyword before the  *)
(* PORT line, whatever stands before the block.                               *)
(***************************************************************************)
LEMMA WholeBlocksTaken ==
    ASSUME NEW t, TextType(t), NEW a, NEW as, AccountsTaken(t, a, as)
    PROVE  BlocksTaken(t, as)
<1>1. Len(as) = Cardinality(Ports(t)) BY Zenon DEF AccountsTaken
<1>2. ASSUME NEW p \in Ports(t), WholeBlock(t, BlockOf(t, p)), NEW q \in BlockOf(t, p)
      PROVE  as[Rank(p, Ports(t))][t[q].key] = t[q].val
  <2>1. PICK B : B = BlockOf(t, p) OBVIOUS
  <2>2. \A x : x \in B <=> /\ x \in DOMAIN t /\ t[x].key \in AccountKey
                           /\ ~Before(p, x)
                           /\ \A y \in Ports(t) : Before(y, p) => Before(y, x)
    BY <2>1 DEF BlockOf, Positions
  <2>3. q \in B BY <2>1, <1>2
  <2>4. PICK k \in AccountKey : k = t[q].key BY <2>2, <2>3
  <2>5. PICK K : K = {x \in Positions(t, {k}) : ~Before(p, x)} OBVIOUS
  <2>6. \A x : x \in K <=> x \in DOMAIN t /\ t[x].key = k /\ ~Before(p, x)
    BY <2>5 DEF Positions
  <2>7. \A x \in B : t[x].key = k => x = q
    <3>1. WholeBlock(t, B) BY <1>2, <2>1, Zenon
    <3>2. \E r \in B : t[r].key = k /\ \A x \in B : t[x].key = k => x = r
      BY <3>1, <2>4, Zenon DEF WholeBlock
    <3> QED BY <3>2, <2>3, <2>4
  <2>8. DOMAIN t \subseteq Pair BY DEF TextType
  <2>9. Ports(t) \subseteq DOMAIN t BY DEF Ports, Positions
  <2>10. ASSUME NEW x \in K PROVE ~Before(q, x)
    <3> SUFFICES ASSUME Before(q, x) PROVE FALSE OBVIOUS
    <3>1. q \in Pair /\ x \in Pair BY <2>2, <2>3, <2>6, <2>8
    <3>2. ASSUME NEW y \in Ports(t), Before(y, p) PROVE Before(y, x)
      <4>1. Before(y, q) BY <3>2, <2>2, <2>3
      <4>2. y \in Pair BY <2>8, <2>9
      <4> QED BY <4>1, <4>2, <3>1, PlacesOrdered
    <3>3. x \in B BY <3>2, <2>2, <2>6, <2>10
    <3>4. x = q BY <3>3, <2>6, <2>7
    <3> QED BY <3>1, <3>4, PlacesOrdered
  <2>11. IsLast(q, K) BY <2>2, <2>3, <2>4, <2>6, <2>10 DEF IsLast
  <2>12. as[Rank(p, Ports(t))][k] = t[q].val
    <3>1. q \in DOMAIN t BY <2>2, <2>3
    <3>2. IsLast(q, {x \in Positions(t, {k}) : ~Before(p, x)}) BY <2>5, <2>11, Zenon
    <3> QED BY <3>1, <3>2, Zenon DEF AccountsTaken
  <2> QED BY <2>4, <2>12
<1> QED BY <1>1, <1>2, Zenon DEF BlocksTaken
----------------------------------------------------------------------------
(***************************************************************************)
(* The scanner reads a line.                                                *)
(***************************************************************************)
LEMMA WorldFiles ==
    ASSUME world \in Worlds
    PROVE  /\ world.argv \in Seq(Opt)
           /\ \A f \in DOMAIN world.files : world.files[f] \in Seq(FileLine) /\ f \in STRING
<1>1. /\ world.argv \in Seq([opt : STRING, optarg : STRING])
      /\ DOMAIN world.files \subseteq STRING
      /\ \A f \in DOMAIN world.files : world.files[f] \in Seq(RuleLine \union OtherLine)
  BY WorldsAssumption, Zenon
<1> QED BY <1>1 DEF Opt, FileLine

Stepped(s, n, u) ==
    /\ u \in Seq(Spot) /\ Len(u) = Len(s)
    /\ u[n].file = s[n].file /\ u[n].line = s[n].line + 1
    /\ \A j \in 1..Len(s) : j # n => u[j] = s[j]

\* One step down in a file of the include stack.
LEMMA SpotStep ==
    ASSUME NEW s \in Seq(Spot), NEW n \in 1..Len(s)
    PROVE  Stepped(s, n, [s EXCEPT ![n].line = @ + 1])
<1>1. PICK r : r = [s[n] EXCEPT !.line = @ + 1] OBVIOUS
<1>2. s[n] \in Spot OBVIOUS
<1>3. r \in Spot /\ r.file = s[n].file /\ r.line = s[n].line + 1 BY <1>1, <1>2 DEF Spot
<1>4. PICK u : u = [s EXCEPT ![n] = r] OBVIOUS
<1>5. u = [s EXCEPT ![n].line = @ + 1] BY <1>1, <1>4
<1>6. u \in Seq(Spot) /\ Len(u) = Len(s) /\ u[n] = r /\ \A j \in 1..Len(s) : j # n => u[j] = s[j]
  BY <1>3, <1>4
<1>7. Stepped(s, n, u) BY <1>3, <1>6 DEF Stepped
<1> QED BY <1>5, <1>7

InputOK ==
    /\ Len(input) <= 1 + MAX_INCLUDE_DEPTH
    /\ \A i \in DOMAIN input : input[i].line \in 1..Len(world.files[input[i].file]) + 1

\* The scanner stays within its files, of which two are open at most.
LEMMA InputBounded ==
    ASSUME world \in Worlds, input \in Seq(Spot), InFile
    PROVE  InputOK
<1>1. DOMAIN input = 1..Len(input) OBVIOUS
<1>2. Main \in Seq(FileLine) BY WorldFiles DEF InFile, Main
<1>3. CASE InMain
  <2>1. Len(input) = 1 /\ input[1].line \in 1..Len(world.files[input[1].file]) + 1
    BY <1>3 DEF InMain, InFile, Main
  <2> QED BY <2>1, <1>1 DEF InputOK, MAX_INCLUDE_DEPTH
<1>4. CASE InIncluded
  <2>1. /\ Len(input) = 2 /\ input[1].line \in 1..Len(Main)
        /\ input[2].line \in 1..Len(world.files[input[2].file]) + 1
    BY <1>4 DEF InIncluded, Included
  <2>2. input[1].line \in 1..Len(world.files[input[1].file]) + 1
    BY <2>1, <1>2 DEF InFile, Main
  <2> QED BY <2>1, <2>2, <1>1 DEF InputOK, MAX_INCLUDE_DEPTH
<1> QED BY <1>3, <1>4 DEF InFile

\* A line that is no include.
LEMMA ReadLine ==
    ASSUME ScanPlace, phase = "parse", ~AtEnd, Line.key # "include", Newline,
           world' = world, phase' = phase, argv' = argv, report' = report,
           prefs'.rc_file = prefs.rc_file, TextType(TextSoFar), num_lines \in Nat
    PROVE  /\ Line \in FileLine
           /\ Grows(TextSoFar, Cursor, Line, TextSoFar')
           /\ ScanPlace' /\ num_lines' \in Nat
<1>1. /\ world \in Worlds /\ input \in Seq(Spot) /\ InFile /\ argv = <<>> /\ report = NoReport
  BY DEF ScanPlace, Reading
<1>2. /\ \A f \in DOMAIN world.files : world.files[f] \in Seq(FileLine)
      /\ prefs.rc_file \in DOMAIN world.files
      /\ Main \in Seq(FileLine)
  BY <1>1, WorldFiles DEF InFile, Main
<1>3. PICK n : n = Len(input) OBVIOUS
<1>4. n \in {1, 2} /\ n \in 1..Len(input)
  <2>1. Len(input) = 1 \/ Len(input) = 2 BY <1>1, Zenon DEF InFile, InMain, InIncluded
  <2> QED BY <2>1, <1>3
<1>5. input' = [input EXCEPT ![n].line = @ + 1] BY <1>3 DEF Newline
<1>6. Stepped(input, n, input') BY <1>1, <1>4, <1>5, SpotStep
<1>7. /\ input' \in Seq(Spot) /\ Len(input') = n
      /\ input'[n].file = input[n].file /\ input'[n].line = input[n].line + 1
      /\ n = 2 => input'[1] = input[1]
  BY <1>3, <1>4, <1>6 DEF Stepped
<1>8. num_lines' = num_lines + 1 /\ temp_num_lines' = temp_num_lines /\ sub_file' = sub_file
  BY DEF Newline
<1>9. Main' = Main BY DEF Main
<1>10. TextSoFar = TextTo(world.files, Main, input[1].line, IncludedRead)
  BY DEF TextSoFar, Reading
<1>11. TextSoFar' = TextTo(world.files, Main, input'[1].line, IncludedRead')
  BY <1>9 DEF TextSoFar, Reading
<1>12. /\ Line \in FileLine /\ Grows(TextSoFar, Cursor, Line, TextSoFar') /\ InFile'
  <2>1. CASE InMain
    <3>1. n = 1 /\ input[1].line \in 1..Len(Main) + 1 /\ input[1].file = prefs.rc_file
      BY <2>1, <1>1, <1>3 DEF InMain, InFile
    <3>2. Line = Main[input[1].line] /\ input[1].line \in 1..Len(Main)
      <4>1. Place = input[1] BY <3>1, <1>3 DEF Place
      <4>2. Text = Main BY <4>1, <3>1 DEF Text, Main
      <4>3. ~(input[1].line > Len(Main)) BY <4>1, <4>2 DEF AtEnd
      <4>4. Line = Main[input[1].line] BY <4>1, <4>2 DEF Line
      <4> QED BY <4>3, <4>4, <3>1, <1>2
    <3>3. IncludedRead = 0 /\ IncludedRead' = 0 /\ Cursor = <<input[1].line, 0>>
      BY <3>1, <1>3, <1>7 DEF IncludedRead, Cursor
    <3>4. Grows(TextSoFar, Cursor, Line, TextSoFar')
      BY <3>1, <3>2, <3>3, <1>2, <1>7, <1>10, <1>11, MainRead, Zenon
    <3>5. InMain'
      <4>1. input'[1].line \in 1..Len(Main) + 1 BY <3>1, <3>2, <1>2, <1>7
      <4>2. sub_file' = "" /\ input'[1].line = num_lines' + 1
        BY <2>1, <3>1, <1>7, <1>8 DEF InMain
      <4> QED BY <4>1, <4>2, <3>1, <1>7, <1>9 DEF InMain
    <3>6. InFile' BY <3>1, <3>5, <1>2, <1>7 DEF InFile
    <3>7. Line \in FileLine BY <3>2, <1>2
    <3> QED BY <3>4, <3>6, <3>7
  <2>2. CASE InIncluded
    <3>1. PICK i : i = input[1].line OBVIOUS
    <3>2. PICK k : k = IncludedRead OBVIOUS
    <3>3. PICK sub : sub = world.files[Main[i].val] OBVIOUS
    <3>4. /\ n = 2 /\ i \in 1..Len(Main) /\ Main[i].key = "include"
          /\ input[2].file = Main[i].val /\ Main[i].val \in DOMAIN world.files
          /\ input[2].line \in 1..Len(sub) + 1
      BY <2>2, <1>3, <3>1, <3>3 DEF InIncluded, Included
    <3>5. sub \in Seq(FileLine) /\ Len(sub) \in Nat BY <3>3, <3>4, <1>2
    <3>6. Line = sub[input[2].line] /\ input[2].line \in 1..Len(sub)
      <4>1. Place = input[2] BY <3>4, <1>3 DEF Place
      <4>2. Text = sub BY <4>1, <3>3, <3>4 DEF Text
      <4>3. ~(input[2].line > Len(sub)) BY <4>1, <4>2 DEF AtEnd
      <4>4. Line = sub[input[2].line] BY <4>1, <4>2 DEF Line
      <4> QED BY <4>3, <4>4, <3>4, <3>5
    <3>7. k \in Nat /\ k + 1 = input[2].line /\ Cursor = <<i, k + 1>>
      BY <3>1, <3>2, <3>4, <3>5, <1>3 DEF IncludedRead, Cursor
    <3>8. IncludedRead' = k + 1 /\ input'[1].line = i
      BY <3>1, <3>4, <3>7, <1>7 DEF IncludedRead
    <3>9. Grows(TextTo(world.files, Main, i, k), <<i, k + 1>>, sub[k + 1],
                TextTo(world.files, Main, i, k + 1))
      <4>1. TextType(TextTo(world.files, Main, i, k)) BY <1>10, <3>1, <3>2
      <4>2. k + 1 \in 1..Len(sub) BY <3>6, <3>7
      <4> QED BY <4>1, <4>2, <3>3, <3>4, <3>5, <3>7, <1>2, IncludedLineRead
    <3>10. Grows(TextSoFar, Cursor, Line, TextSoFar')
      BY <3>1, <3>2, <3>6, <3>7, <3>8, <3>9, <1>10, <1>11
    <3>11. InIncluded'
      <4>1. Included(i)' = Included(i) BY <1>9 DEF Included
      <4>2. input'[2].line \in 1..Len(sub) + 1 BY <3>4, <3>5, <3>6, <1>7
      <4>3. /\ sub_file' = input'[2].file
            /\ input'[2].line = num_lines' + 1 /\ input'[1].line = temp_num_lines' + 1
        BY <2>2, <3>1, <3>4, <3>8, <1>7, <1>8 DEF InIncluded
      <4>4. input'[2].file = Main[i].val BY <3>4, <1>7
      <4> QED BY <4>2, <4>3, <4>4, <3>3, <3>4, <3>8, <1>7, <1>9 DEF InIncluded, Included
    <3>12. InFile'
      <4>1. input'[1].file = prefs.rc_file BY <3>4, <1>1, <1>7 DEF InFile
      <4> QED BY <4>1, <3>11, <1>2 DEF InFile
    <3>13. Line \in FileLine BY <3>5, <3>6
    <3> QED BY <3>10, <3>12, <3>13
  <2> QED BY <2>1, <2>2, <1>1 DEF InFile
<1>13. ScanPlace'
  BY <1>1, <1>7, <1>12 DEF ScanPlace, Reading, TrueReport
<1> QED BY <1>8, <1>12, <1>13
----------------------------------------------------------------------------
(***************************************************************************)
(* Every step preserves the invariant.                                      *)
(***************************************************************************)
LEMMA TypeParts ==
    TypeOK <=> /\ phase \in Reading \union {"options", "exit"}
               /\ prefs \in PreferencesType /\ NegativesCounted(prefs)
               /\ InputOK /\ within \in BOOLEAN
               /\ num_lines \in Nat /\ temp_num_lines \in Nat /\ compiled \in Nat
               /\ report.line \in Nat
  BY DEF TypeOK, Reading, NegativesCounted, InputOK

\* A line that the parser obeys.
LEMMA StatementStep ==
    ASSUME RcInv, phase = "parse", ~AtEnd, Line.key \notin {"include", "junk", "shell"}, Newline,
           world' = world, phase' = phase, argv' = argv, report' = report, compiled' = compiled,
           Sound(prefs, Line, prefs'),
           within' \in BOOLEAN, within => within', Line.key = "open" => within'
    PROVE  RcInv'
<1>1. /\ ScanPlace /\ OptionsLeft /\ Compiling
      /\ Obeyed(TextSoFar, world.argv, Len(world.argv) - Len(argv), prefs, within)
  BY Zenon DEF RcInv
<1>2. /\ prefs \in PreferencesType /\ num_lines \in Nat /\ temp_num_lines \in Nat
      /\ compiled \in Nat /\ report.line \in Nat
  BY TypeParts DEF RcInv
<1>3. /\ prefs' \in PreferencesType /\ NegativesCounted(prefs')
      /\ prefs'.rc_file = prefs.rc_file /\ Takes(prefs, Line, prefs')
  BY Zenon DEF Sound
<1>4. TextType(TextSoFar) BY <1>1, Zenon DEF Obeyed
<1>5. Line.key # "include" /\ Line.key \notin {"junk", "shell", "include"} OBVIOUS
<1>6. /\ Line \in FileLine
      /\ Grows(TextSoFar, Cursor, Line, TextSoFar')
      /\ ScanPlace' /\ num_lines' \in Nat
  BY <1>1, <1>2, <1>3, <1>4, <1>5, ReadLine
<1>7. Obeyed(TextSoFar', world.argv, Len(world.argv) - Len(argv), prefs', within')
  <2>1. PICK t : t = TextSoFar OBVIOUS
  <2>2. PICK u : u = TextSoFar' OBVIOUS
  <2>3. PICK l : l = Line OBVIOUS
  <2>4. PICK n : n = Len(world.argv) - Len(argv) OBVIOUS
  <2>5. PICK c : c = Cursor OBVIOUS
  <2>6. /\ l \in FileLine /\ Grows(t, c, l, u) /\ Obeyed(t, world.argv, n, prefs, within)
        /\ Takes(prefs, l, prefs') /\ l.key \notin {"junk", "shell", "include"}
        /\ l.key = "open" => within'
    BY <1>1, <1>3, <1>5, <1>6, <2>1, <2>2, <2>3, <2>4, <2>5, Zenon
  <2>7. Obeyed(u, world.argv, n, prefs', within') BY <2>6, <1>2, LineObeyed
  <2> QED BY <2>2, <2>4, <2>7, Zenon
<1>8. TypeOK'
  <2>1. (world \in Worlds /\ input \in Seq(Spot) /\ InFile)'
    BY <1>6 DEF ScanPlace, Reading
  <2>2. InputOK' BY <2>1, InputBounded, PTL
  <2>3. temp_num_lines' = temp_num_lines BY DEF Newline
  <2>4. /\ phase' \in Reading \union {"options", "exit"}
        /\ NegativesCounted(prefs)' /\ within' \in BOOLEAN
        /\ temp_num_lines' \in Nat /\ compiled' \in Nat /\ report'.line \in Nat
    BY <1>2, <1>3, <2>3 DEF Reading
  <2>5. /\ (phase \in Reading \union {"options", "exit"})'
        /\ (prefs \in PreferencesType)' /\ NegativesCounted(prefs)'
        /\ InputOK' /\ (within \in BOOLEAN)'
        /\ (num_lines \in Nat)' /\ (temp_num_lines \in Nat)' /\ (compiled \in Nat)'
        /\ (report.line \in Nat)'
    BY <2>2, <2>4, <1>3, <1>6
  <2> QED BY <2>5, TypeParts, PTL
<1>9. OptionsLeft' BY <1>1 DEF OptionsLeft
<1>10. Compiling' BY <1>1 DEF Compiling
<1>11. Obeyed(TextSoFar, world.argv, Len(world.argv) - Len(argv), prefs, within)' BY <1>7
<1> QED BY <1>6, <1>8, <1>9, <1>10, <1>11, Zenon DEF RcInv

\* The line the parser is at.
LEMMA LineType ==
    ASSUME RcInv, phase = "parse", ~AtEnd
    PROVE  Line \in FileLine
<1>1. ScanPlace BY DEF RcInv
<1>2. /\ world \in Worlds /\ input \in Seq(Spot) /\ InFile BY <1>1 DEF ScanPlace, Reading
<1>3. InputOK BY <1>2, InputBounded
<1>4. /\ \A f \in DOMAIN world.files : world.files[f] \in Seq(FileLine)
      /\ prefs.rc_file \in DOMAIN world.files
  BY <1>2, WorldFiles DEF InFile
<1>5. Len(input) \in DOMAIN input /\ Place.file \in DOMAIN world.files
  <2>0. DOMAIN input = 1..Len(input) BY <1>2
  <2>1. CASE InMain
    <3>1. Len(input) = 1 BY <2>1, Zenon DEF InMain
    <3>2. input[1].file = prefs.rc_file BY <1>2, Zenon DEF InFile
    <3> QED BY <3>1, <3>2, <2>0, <1>4 DEF Place
  <2>2. CASE InIncluded
    <3>1. Len(input) = 2 /\ input[2].file \in DOMAIN world.files BY <2>2, Zenon DEF InIncluded
    <3> QED BY <3>1, <2>0 DEF Place
  <2> QED BY <2>1, <2>2, <1>2 DEF InFile
<1>6. Place.line \in 1..Len(Text) + 1 BY <1>3, <1>5 DEF InputOK, Place, Text
<1>7. Text \in Seq(FileLine) BY <1>4, <1>5 DEF Text
<1>8. Place.line \in 1..Len(Text) BY <1>6, <1>7 DEF AtEnd
<1> QED BY <1>7, <1>8 DEF Line

\* A statement that does what its line says preserves the invariant.
LEMMA StatementEffect ==
    ASSUME RcInv, NEW key, Scanning(key), key \notin {"include", "junk", "shell", "open"},
           NEW p, Sound(prefs, Line, p), Effect(p)
    PROVE  RcInv'
<1>1. /\ phase = "parse" /\ ~AtEnd /\ Line.key = key BY DEF Scanning
<1>2. /\ prefs' = p /\ Newline /\ world' = world /\ phase' = phase /\ argv' = argv
      /\ within' = within /\ compiled' = compiled /\ report' = report
  BY DEF Effect
<1>3. within \in BOOLEAN BY TypeParts DEF RcInv
<1>4. Sound(prefs, Line, prefs') BY <1>2
<1> QED BY <1>1, <1>2, <1>3, <1>4, StatementStep

\* Every statement that does not end the program preserves it.
LEMMA StepStatement ==
    ASSUME RcInv,
           \/ AddFilter \/ SetValue \/ SetOnce \/ SetCase \/ SetRegType
           \/ SetAccountField \/ SetPort \/ Remark \/ OpenArgument
    PROVE  RcInv'
<1>1. prefs \in PreferencesType /\ NegativesCounted(prefs) /\ within \in BOOLEAN
  BY TypeParts DEF RcInv
<1>2. \A key : Scanning(key) => phase = "parse" /\ ~AtEnd /\ Line.key = key BY DEF Scanning
<1>3. \A key : Scanning(key) => Line \in FileLine BY <1>2, LineType
<1>4. ASSUME NEW key, Scanning(key), key \notin Rules PROVE Line.val \in STRING
  <2>1. Line \in FileLine /\ Line.key \notin Rules BY <1>2, <1>3, <1>4
  <2> QED BY <2>1 DEF FileLine, RuleLine, OtherLine
<1>5. CASE AddFilter
  <2>1. PICK key \in Rules : Scanning(key) /\ Effect(AddRule(prefs, Line))
    BY <1>5 DEF AddFilter, Statement
  <2>2. Sound(prefs, Line, AddRule(prefs, Line)) BY <2>1, <1>1, <1>2, <1>3, RuleTaken
  <2>3. key \notin {"include", "junk", "shell", "open"} BY DEF Rules
  <2> QED BY <2>1, <2>2, <2>3, StatementEffect
<1>6. CASE SetValue
  <2>1. PICK key \in Setting : Scanning(key) /\ Effect([prefs EXCEPT !.settings[key] = Line.val])
    BY <1>6 DEF SetValue, Statement
  <2>2. key \notin {"include", "junk", "shell", "open"} /\ key \notin Rules BY DEF Setting, Rules
  <2>3. Line.key = key /\ Line.val \in STRING BY <2>1, <2>2, <1>2, <1>4
  <2>4. Sound(prefs, Line, [prefs EXCEPT !.settings[Line.key] = Line.val])
    BY <2>3, <1>1, ValueTaken
  <2> QED BY <2>1, <2>2, <2>3, <2>4, StatementEffect
<1>7. CASE SetOnce
  <2>1. PICK key \in Sticky : Scanning(key) /\ Effect(SetSticky(prefs, key, Line.val))
    BY <1>7 DEF SetOnce, Statement
  <2>2. key \notin {"include", "junk", "shell", "open"} /\ key \notin Rules BY DEF Sticky, Rules
  <2>3. Line.key = key /\ Line.val \in STRING BY <2>1, <2>2, <1>2, <1>4
  <2>4. Sound(prefs, Line, SetSticky(prefs, Line.key, Line.val)) BY <2>3, <1>1, StickyTaken
  <2> QED BY <2>1, <2>2, <2>3, <2>4, StatementEffect
<1>8. CASE SetCase
  <2>1. Scanning("reg_case") /\ Effect(set_default_case(prefs, Line.val))
    BY <1>8 DEF SetCase, Statement
  <2>2. Sound(prefs, Line, set_default_case(prefs, Line.val)) BY <2>1, <1>1, <1>2, CaseTaken
  <2> QED BY <2>1, <2>2, StatementEffect
<1>9. CASE SetRegType
  <2>1. /\ Scanning("reg_type") /\ Line.val \in RegTypes
        /\ Effect([prefs EXCEPT !.reg_type = Line.val])
    BY <1>9 DEF SetRegType, Statement
  <2>2. Sound(prefs, Line, [prefs EXCEPT !.reg_type = Line.val]) BY <2>1, <1>1, <1>2, TypeTaken
  <2> QED BY <2>1, <2>2, StatementEffect
<1>10. CASE SetAccountField
  <2>1. PICK key \in AccountKey \ {"port"} :
            Scanning(key) /\ Effect(SetAccount(prefs, key, Line.val))
    BY <1>10 DEF SetAccountField, Statement
  <2>2. key \notin {"include", "junk", "shell", "open"} /\ key \notin Rules BY DEF AccountKey, Rules
  <2>3. Line.key = key /\ Line.val \in STRING BY <2>1, <2>2, <1>2, <1>4
  <2>4. Sound(prefs, Line, SetAccount(prefs, Line.key, Line.val)) BY <2>1, <2>3, <1>1, FieldTaken
  <2> QED BY <2>1, <2>2, <2>3, <2>4, StatementEffect
<1>11. CASE SetPort
  <2>1. Scanning("port") /\ Effect(set_port(prefs, Line.val)) BY <1>11 DEF SetPort, Statement
  <2>2. "port" \notin Rules BY DEF Rules
  <2>3. Line.key = "port" /\ Line.val \in STRING BY <2>1, <2>2, <1>2, <1>4
  <2>4. Sound(prefs, Line, set_port(prefs, Line.val)) BY <2>3, <1>1, PortTaken
  <2> QED BY <2>1, <2>4, StatementEffect
<1>12. CASE Remark
  <2>1. Scanning("rem") /\ Effect(prefs) BY <1>12 DEF Remark
  <2>2. Sound(prefs, Line, prefs) BY <2>1, <1>1, <1>2, NothingTaken
  <2> QED BY <2>1, <2>2, StatementEffect
<1>13. CASE OpenArgument
  <2>1. /\ Scanning("open") /\ within' = TRUE /\ Newline
        /\ world' = world /\ phase' = phase /\ argv' = argv /\ prefs' = prefs
        /\ compiled' = compiled /\ report' = report
    BY <1>13 DEF OpenArgument, Statement
  <2>2. Sound(prefs, Line, prefs') BY <2>1, <1>1, <1>2, NothingTaken
  <2>3. phase = "parse" /\ ~AtEnd /\ Line.key = "open" BY <2>1, <1>2
  <2> QED BY <2>1, <2>2, <2>3, StatementStep
<1> QED BY <1>5, <1>6, <1>7, <1>8, <1>9, <1>10, <1>11, <1>12, <1>13

\* The scanner enters a file and comes back from it: the text stays as it is.
LEMMA PlaceMoves ==
    ASSUME RcInv, phase = "parse", phase' = phase, world' = world, argv' = argv, prefs' = prefs,
           within' = within, compiled' = compiled, report' = report,
           input' \in Seq(Spot), InFile', num_lines' \in Nat, temp_num_lines' \in Nat,
           TextSoFar' = TextSoFar
    PROVE  RcInv'
<1>1. /\ ScanPlace /\ OptionsLeft /\ Compiling
      /\ Obeyed(TextSoFar, world.argv, Len(world.argv) - Len(argv), prefs, within)
  BY Zenon DEF RcInv
<1>2. /\ world \in Worlds /\ argv = <<>> /\ report = NoReport BY <1>1 DEF ScanPlace, Reading
<1>3. ScanPlace' BY <1>2 DEF ScanPlace, Reading, TrueReport
<1>4. OptionsLeft' BY <1>1 DEF OptionsLeft
<1>5. Compiling' BY <1>1 DEF Compiling
<1>6. TypeOK'
  <2>1. (world \in Worlds /\ input \in Seq(Spot) /\ InFile)' BY <1>2
  <2>2. InputOK' BY <2>1, InputBounded, PTL
  <2>3. /\ prefs \in PreferencesType /\ NegativesCounted(prefs) /\ within \in BOOLEAN
        /\ compiled \in Nat /\ report.line \in Nat
    BY TypeParts DEF RcInv
  <2>4. NegativesCounted(prefs)' BY <2>3 DEF NegativesCounted
  <2>5. /\ (phase \in Reading \union {"options", "exit"})'
        /\ (prefs \in PreferencesType)' /\ NegativesCounted(prefs)'
        /\ InputOK' /\ (within \in BOOLEAN)'
        /\ (num_lines \in Nat)' /\ (temp_num_lines \in Nat)' /\ (compiled \in Nat)'
        /\ (report.line \in Nat)'
    BY <2>2, <2>3, <2>4 DEF Reading
  <2> QED BY <2>5, TypeParts, PTL
<1>7. Obeyed(TextSoFar, world.argv, Len(world.argv) - Len(argv), prefs, within)' BY <1>1
<1> QED BY <1>3, <1>4, <1>5, <1>6, <1>7, Zenon DEF RcInv

\* An include enters a file whose first line is next, and takes in nothing yet.
LEMMA StepInclude ==
    ASSUME RcInv, Include
    PROVE  RcInv'
<1>1. /\ phase = "parse" /\ ~AtEnd /\ Line.key = "include" /\ Depth < MAX_INCLUDE_DEPTH
      /\ Line.val \in DOMAIN world.files
  BY DEF Include, Scanning, Found
<1>2. /\ temp_num_lines' = num_lines /\ num_lines' = 0 /\ sub_file' = Line.val
      /\ input' = Append(input, [file |-> Line.val, line |-> 1])
      /\ world' = world /\ phase' = phase /\ argv' = argv /\ prefs' = prefs
      /\ within' = within /\ compiled' = compiled /\ report' = report
  BY DEF Include, Enter
<1>3. /\ world \in Worlds /\ input \in Seq(Spot) /\ InFile /\ num_lines \in Nat
  BY <1>1, TypeParts DEF RcInv, ScanPlace, Reading
<1>4. /\ \A f \in DOMAIN world.files : world.files[f] \in Seq(FileLine) /\ f \in STRING
      /\ Main \in Seq(FileLine)
  BY <1>3, WorldFiles DEF InFile, Main
<1>5. Len(input) = 1 /\ InMain
  <2>1. Len(input) < 2 BY <1>1, <1>3 DEF Depth, MAX_INCLUDE_DEPTH
  <2>2. ~InIncluded BY <2>1, <1>3 DEF InIncluded
  <2> QED BY <2>2, <1>3 DEF InFile, InMain
<1>6. Place = input[1] /\ Text = Main /\ Line = Main[input[1].line]
  <2>1. Place = input[1] BY <1>5 DEF Place
  <2>2. Text = Main BY <2>1, <1>3 DEF Text, Main, InFile
  <2> QED BY <2>1, <2>2 DEF Line
<1>7. input[1].line \in 1..Len(Main)
  <2>1. input[1].line \in 1..Len(Main) + 1 BY <1>5 DEF InMain
  <2>2. ~(input[1].line > Len(Main)) BY <1>1, <1>6 DEF AtEnd
  <2> QED BY <2>1, <2>2, <1>4
<1>8. PICK s : s = [file |-> Line.val, line |-> 1] OBVIOUS
<1>9. s \in Spot /\ s.file = Line.val /\ s.line = 1 BY <1>1, <1>4, <1>8 DEF Spot
<1>10. /\ input' \in Seq(Spot) /\ Len(input') = 2
       /\ input'[1] = input[1] /\ input'[2] = s
  <2>1. input' = Append(input, s) BY <1>2, <1>8
  <2>2. Longer(input, s, input') BY <2>1, <1>3, <1>9, Appended
  <2>3. input' \in Seq(Spot) BY <2>1, <1>3, <1>9
  <2> QED BY <2>2, <2>3, <1>5 DEF Longer
<1>11. Main' = Main BY <1>2 DEF Main
<1>12. InFile'
  <2>2. world.files[Line.val] \in Seq(FileLine) BY <1>1, <1>4
  <2>3. 1 \in 1..Len(world.files[Line.val]) + 1 BY <2>2
  <2>4. num_lines + 1 = input[1].line BY <1>5 DEF InMain
  <2>5. InIncluded'
    <3>1. Included(input[1].line)' = world.files[Line.val]
      BY <1>2, <1>6, <1>10, <1>11 DEF Included
    <3>2. input'[2].line = 1 /\ input'[2].file = Line.val BY <1>9, <1>10
    <3> QED BY <3>1, <3>2, <2>3, <2>4, <1>1, <1>2, <1>6, <1>7, <1>10, <1>11 DEF InIncluded, Included
  <2> QED BY <2>5, <1>2, <1>3, <1>10 DEF InFile
<1>13. TextSoFar' = TextSoFar
  <2>1. IncludedRead = 0 BY <1>5 DEF IncludedRead
  <2>2. IncludedRead' = 0 BY <1>9, <1>10 DEF IncludedRead
  <2> QED BY <2>1, <2>2, <1>2, <1>10, <1>11 DEF TextSoFar
<1> QED BY <1>1, <1>2, <1>3, <1>10, <1>12, <1>13, PlaceMoves

\* At the end of an included file all its lines were taken in; the include line is passed.
LEMMA StepLeave ==
    ASSUME RcInv, Leave
    PROVE  RcInv'
<1>1. phase = "parse" /\ AtEnd /\ Depth > 0 BY DEF Leave
<1>2. /\ input' = [Front(input) EXCEPT ![Depth].line = @ + 1]
      /\ num_lines' = temp_num_lines + 1 /\ temp_num_lines' = temp_num_lines /\ sub_file' = ""
      /\ world' = world /\ phase' = phase /\ argv' = argv /\ prefs' = prefs
      /\ within' = within /\ compiled' = compiled /\ report' = report
  BY DEF Leave
<1>3. /\ world \in Worlds /\ input \in Seq(Spot) /\ InFile /\ temp_num_lines \in Nat
  BY <1>1, TypeParts DEF RcInv, ScanPlace, Reading
<1>4. /\ \A f \in DOMAIN world.files : world.files[f] \in Seq(FileLine)
      /\ Main \in Seq(FileLine)
  BY <1>3, WorldFiles DEF InFile, Main
<1>5. Len(input) = 2 /\ InIncluded
  <2>1. Len(input) # 1
    <3>1. Len(input) - 1 > 0 BY <1>1 DEF Depth
    <3>2. PICK n \in Nat : n = Len(input) BY <1>3
    <3>3. n - 1 > 0 BY <3>1, <3>2, Zenon
    <3>4. n # 1 BY <3>3
    <3> QED BY <3>2, <3>4, Zenon
  <2>2. ~InMain BY <2>1 DEF InMain
  <2>3. InIncluded BY <2>2, <1>3 DEF InFile
  <2> QED BY <2>3 DEF InIncluded
<1>6. PICK i : i = input[1].line OBVIOUS
<1>7. PICK sub : sub = world.files[Main[i].val] OBVIOUS
<1>8. /\ i \in 1..Len(Main) /\ Main[i].key = "include"
      /\ input[2].file = Main[i].val /\ Main[i].val \in DOMAIN world.files
      /\ input[2].line \in 1..Len(sub) + 1 /\ i = temp_num_lines + 1
  BY <1>5, <1>6, <1>7 DEF InIncluded, Included
<1>9. sub \in Seq(FileLine) /\ Len(sub) \in Nat BY <1>4, <1>7, <1>8
<1>10. input[2].line = Len(sub) + 1
  <2>1. Place = input[2] BY <1>5 DEF Place
  <2>2. Text = sub BY <2>1, <1>7, <1>8 DEF Text
  <2>3. input[2].line > Len(sub) BY <2>1, <2>2, <1>1 DEF AtEnd
  <2> QED BY <2>3, <1>8, <1>9
<1>11. PICK r : r = Front(input) OBVIOUS
<1>12. r \in Seq(Spot) /\ Len(r) = 1 /\ r[1] = input[1]
  <2>1. r = SubSeq(input, 1, 1) BY <1>3, <1>5, <1>11 DEF Front
  <2> QED BY <2>1, <1>3, <1>5
<1>13. input' = [r EXCEPT ![1].line = @ + 1]
  <2>1. Depth = 1 BY <1>5 DEF Depth
  <2> QED BY <2>1, <1>2, <1>11
<1>14. Stepped(r, 1, input')
  <2>1. 1 \in 1..Len(r) BY <1>12
  <2> QED BY <2>1, <1>12, <1>13, SpotStep
<1>15. /\ input' \in Seq(Spot) /\ Len(input') = 1
       /\ input'[1].file = prefs.rc_file /\ input'[1].line = i + 1
  BY <1>3, <1>6, <1>12, <1>14 DEF Stepped, InFile
<1>16. Main' = Main BY <1>2 DEF Main
<1>17. InFile'
  <2>1. i + 1 \in 1..Len(Main) + 1 BY <1>4, <1>8
  <2>2. InMain' BY <2>1, <1>2, <1>8, <1>15, <1>16 DEF InMain
  <2> QED BY <2>2, <1>2, <1>3, <1>15 DEF InFile
<1>18. TextSoFar' = TextSoFar
  <2>1. IncludedRead = Len(sub) BY <1>5, <1>9, <1>10 DEF IncludedRead
  <2>2. IncludedRead' = 0 BY <1>15 DEF IncludedRead
  <2>3. TextTo(world.files, Main, i, Len(sub)) = TextTo(world.files, Main, i + 1, 0)
    BY <1>4, <1>7, <1>8, <1>9, IncludedLeft
  <2> QED BY <2>1, <2>2, <2>3, <1>2, <1>6, <1>15, <1>16 DEF TextSoFar
<1>19. num_lines' \in Nat /\ temp_num_lines' \in Nat
  <2>1. num_lines' = temp_num_lines + 1 /\ temp_num_lines' = temp_num_lines BY DEF Leave
  <2> QED BY <2>1, <1>3
<1> QED BY <1>1, <1>2, <1>15, <1>17, <1>18, <1>19, PlaceMoves

\* The program goes on without reading or changing a preference.
LEMMA StageStep ==
    ASSUME RcInv, phase \in Reading, phase' \in Reading \ {"parse"},
           world' = world, argv' = argv, prefs' = prefs, scanner' = scanner, report' = report,
           Len(input) = 1, input[1].line = Len(Main) + 1, within = FALSE,
           compiled' \in Nat, Compiling'
    PROVE  RcInv'
<1>1. /\ ScanPlace /\ OptionsLeft
      /\ Obeyed(TextSoFar, world.argv, Len(world.argv) - Len(argv), prefs, within)
  BY Zenon DEF RcInv, Reading
<1>2. /\ input' = input /\ within' = within /\ num_lines' = num_lines
      /\ temp_num_lines' = temp_num_lines /\ sub_file' = sub_file
  BY DEF scanner
<1>3. /\ world \in Worlds /\ input \in Seq(Spot) /\ InFile /\ argv = <<>> /\ report = NoReport
  BY <1>1 DEF ScanPlace, Reading
<1>4. Main' = Main BY DEF Main
<1>5. InFile' BY <1>2, <1>3, <1>4 DEF InFile, InMain, InIncluded, Included
<1>6. ScanPlace' BY <1>2, <1>3, <1>4, <1>5 DEF ScanPlace, Reading, TrueReport
<1>7. OptionsLeft' BY <1>1 DEF OptionsLeft
<1>8. TextSoFar' = TextSoFar BY <1>2, <1>4 DEF TextSoFar, IncludedRead
<1>9. Obeyed(TextSoFar, world.argv, Len(world.argv) - Len(argv), prefs, within)' BY <1>1, <1>2, <1>8
<1>10. TypeOK'
  <2>1. /\ prefs \in PreferencesType /\ NegativesCounted(prefs) /\ within \in BOOLEAN
        /\ num_lines \in Nat /\ temp_num_lines \in Nat /\ report.line \in Nat /\ InputOK
    BY TypeParts DEF RcInv
  <2>2. NegativesCounted(prefs)' /\ InputOK' BY <2>1, <1>2 DEF NegativesCounted, InputOK
  <2>3. /\ (phase \in Reading \union {"options", "exit"})'
        /\ (prefs \in PreferencesType)' /\ NegativesCounted(prefs)'
        /\ InputOK' /\ (within \in BOOLEAN)'
        /\ (num_lines \in Nat)' /\ (temp_num_lines \in Nat)' /\ (compiled \in Nat)'
        /\ (report.line \in Nat)'
    BY <2>1, <2>2, <1>2
  <2> QED BY <2>3, TypeParts, PTL
<1> QED BY <1>6, <1>7, <1>9, <1>10, Zenon DEF RcInv

\* The filters in the order of their compilation.
LEMMA OrderType == RcInv => InOrder \in Seq(Filter)
<1> SUFFICES ASSUME RcInv PROVE InOrder \in Seq(Filter) OBVIOUS
<1>1. prefs.filters \in [Rules -> Seq(Filter)] BY TypeParts, PreferencesFields DEF RcInv
<1>2. /\ prefs.filters["allow"] \in Seq(Filter) /\ prefs.filters["deny"] \in Seq(Filter)
      /\ prefs.filters["score"] \in Seq(Filter)
  BY <1>1 DEF Rules
<1>3. InTurn(Filter, prefs.filters["allow"], prefs.filters["deny"], prefs.filters["score"], InOrder)
  BY <1>2, EachInOrder DEF InOrder
<1> QED BY <1>3 DEF InTurn

\* The stages behind the scanner move on when they are through.
LEMMA StepStage ==
    ASSUME RcInv, Finish \/ OpenLog \/ Compile \/ Check
    PROVE  RcInv'
<1>1. /\ ScanPlace /\ Compiling /\ compiled \in Nat BY TypeParts DEF RcInv
<1>2. InOrder \in Seq(Filter) BY OrderType
<1>3. CASE Finish
  <2>1. /\ phase = "parse" /\ phase' = "log" /\ AtEnd /\ Depth = 0 /\ ~within
        /\ world' = world /\ argv' = argv /\ prefs' = prefs /\ scanner' = scanner
        /\ report' = report /\ compiled' = compiled
    BY <1>3 DEF Finish
  <2>2. /\ world \in Worlds /\ input \in Seq(Spot) /\ InFile BY <2>1, <1>1 DEF ScanPlace, Reading
  <2>3. Len(input) = 1 BY <2>1, <2>2 DEF Depth
  <2>4. Main \in Seq(FileLine) BY <2>2, WorldFiles DEF InFile, Main
  <2>5. input[1].line = Len(Main) + 1
    <3>1. InMain BY <2>2, <2>3 DEF InFile, InIncluded
    <3>2. Place = input[1] BY <2>3 DEF Place
    <3>3. Text = Main BY <3>2, <2>2 DEF Text, Main, InFile
    <3>4. input[1].line > Len(Main) BY <3>2, <3>3, <2>1 DEF AtEnd
    <3>5. input[1].line \in 1..Len(Main) + 1 BY <3>1 DEF InMain
    <3> QED BY <3>4, <3>5, <2>4
  <2>6. Compiling' BY <2>1, <1>1 DEF Compiling
  <2>7. within = FALSE BY <2>1, TypeParts DEF RcInv
  <2> QED BY <2>1, <2>3, <2>5, <2>6, <2>7, <1>1, StageStep DEF Reading
<1>4. ASSUME phase \in {"log", "compile"}
      PROVE  Len(input) = 1 /\ input[1].line = Len(Main) + 1 /\ within = FALSE
  BY <1>1, <1>4 DEF ScanPlace, Reading
<1>5. CASE OpenLog
  <2>1. /\ phase = "log" /\ phase' = "compile" /\ prefs.sticky["logfile"] \in world.writable
        /\ world' = world /\ argv' = argv /\ prefs' = prefs /\ scanner' = scanner
        /\ report' = report /\ compiled' = compiled
    BY <1>5 DEF OpenLog, LogOpens, LogName
  <2>2. compiled = 0 /\ Len(InOrder) \in Nat BY <2>1, <1>1, <1>2 DEF Compiling
  <2>3. InOrder' = InOrder BY <2>1 DEF InOrder
  <2>4. Compiling' BY <2>1, <2>2, <2>3 DEF Compiling
  <2> QED BY <2>1, <2>4, <1>1, <1>4, StageStep DEF Reading
<1>6. CASE Compile
  <2>1. /\ phase = "compile" /\ compiled < Len(InOrder)
        /\ <<InOrder[compiled + 1].id, prefs.reg_type>> \in Compiles
        /\ compiled' = compiled + 1
        /\ world' = world /\ phase' = phase /\ argv' = argv /\ prefs' = prefs
        /\ scanner' = scanner /\ report' = report
    BY <1>6 DEF Compile
  <2>2. InOrder' = InOrder BY <2>1 DEF InOrder
  <2>3. /\ prefs.sticky["logfile"] \in world.writable
        /\ \A j \in 1..compiled : <<InOrder[j].id, prefs.reg_type>> \in Compiles
    BY <2>1, <1>1 DEF Compiling
  <2>4. \A j \in 1..(compiled + 1) : j \in 1..compiled \/ j = compiled + 1 BY <1>1
  <2>5. Len(InOrder) \in Nat BY <1>2
  <2>6. compiled + 1 <= Len(InOrder) BY <2>1, <2>5, <1>1
  <2>7. \A j \in 1..(compiled + 1) : <<InOrder[j].id, prefs.reg_type>> \in Compiles
    BY <2>1, <2>3, <2>4
  <2>8. Compiling' BY <2>1, <2>2, <2>3, <2>6, <2>7 DEF Compiling
  <2> QED BY <2>1, <2>8, <1>1, <1>4, StageStep DEF Reading
<1>7. CASE Check
  <2>1. /\ phase = "compile" /\ phase' = "check" /\ compiled = Len(InOrder)
        /\ world' = world /\ argv' = argv /\ prefs' = prefs /\ scanner' = scanner
        /\ report' = report /\ compiled' = compiled
    BY <1>7 DEF Check
  <2>2. InOrder' = InOrder BY <2>1 DEF InOrder
  <2>3. Compiling' BY <2>1, <2>2, <1>1 DEF Compiling
  <2> QED BY <2>1, <2>3, <1>1, <1>4, StageStep DEF Reading
<1> QED BY <1>3, <1>5, <1>6, <1>7

\* The program ends with the message of an error, or with none.
LEMMA ExitStep ==
    ASSUME RcInv, phase \in Reading \union {"options"}, phase' = "exit",
           world' = world, argv' = argv, scanner' = scanner, compiled' = compiled,
           prefs' \in PreferencesType, NegativesCounted(prefs'),
           report' = report \/ (phase = "parse" /\ report' = [file |-> sub_file, line |-> num_lines + 1])
    PROVE  RcInv'
<1>1. ScanPlace /\ OptionsLeft BY DEF RcInv
<1>2. /\ input' = input /\ within' = within /\ num_lines' = num_lines
      /\ temp_num_lines' = temp_num_lines /\ sub_file' = sub_file
  BY DEF scanner
<1>3. /\ world \in Worlds /\ input \in Seq(Spot) /\ report = NoReport
  BY <1>1 DEF ScanPlace, Reading
<1>4. /\ num_lines \in Nat /\ temp_num_lines \in Nat /\ compiled \in Nat /\ report.line \in Nat
      /\ within \in BOOLEAN /\ InputOK
  BY TypeParts DEF RcInv
<1>5. TrueReport'
  <2>1. CASE report' = report BY <2>1, <1>3 DEF TrueReport
  <2>2. CASE phase = "parse" /\ report' = [file |-> sub_file, line |-> num_lines + 1]
    <3>1. InFile BY <2>2, <1>1 DEF ScanPlace, Reading
    <3>2. CASE InMain
      <4>1. Len(input) = 1 /\ sub_file = "" /\ input[1].line = num_lines + 1
        BY <3>2 DEF InMain
      <4>2. Depth = 0 /\ Place = input[1]
        <5>1. Depth = 1 - 1 BY <4>1, Zenon DEF Depth
        <5>2. Place = input[1] BY <4>1, Zenon DEF Place
        <5> QED BY <5>1, <5>2
      <4>3. Depth' = Depth /\ Place' = Place BY <1>2 DEF Depth, Place
      <4>4. report' = [file |-> IF Depth = 0 THEN "" ELSE Place.file, line |-> Place.line]
        BY <4>1, <4>2, <2>2
      <4> QED BY <4>3, <4>4, Zenon DEF TrueReport
    <3>3. CASE InIncluded
      <4>1. Len(input) = 2 /\ sub_file = input[2].file /\ input[2].line = num_lines + 1
        BY <3>3 DEF InIncluded
      <4>2. Depth # 0 /\ Place = input[2]
        <5>1. Depth = 2 - 1 BY <4>1, Zenon DEF Depth
        <5>2. Place = input[2] BY <4>1, Zenon DEF Place
        <5> QED BY <5>1, <5>2
      <4>3. Depth' = Depth /\ Place' = Place BY <1>2 DEF Depth, Place
      <4>4. report' = [file |-> IF Depth = 0 THEN "" ELSE Place.file, line |-> Place.line]
        BY <4>1, <4>2, <2>2
      <4> QED BY <4>3, <4>4, Zenon DEF TrueReport
    <3> QED BY <3>1, <3>2, <3>3 DEF InFile
  <2> QED BY <2>1, <2>2
<1>6. ScanPlace' BY <1>2, <1>3, <1>5 DEF ScanPlace, Reading
<1>7. OptionsLeft' BY <1>1 DEF OptionsLeft
<1>8. Compiling' BY DEF Compiling
<1>9. TypeOK'
  <2>1. NegativesCounted(prefs)' OBVIOUS
  <2>2. InputOK' BY <1>2, <1>4 DEF InputOK
  <2>3. report'.line \in Nat BY <1>4
  <2>4. /\ (phase \in Reading \union {"options", "exit"})'
        /\ (prefs \in PreferencesType)' /\ NegativesCounted(prefs)'
        /\ InputOK' /\ (within \in BOOLEAN)'
        /\ (num_lines \in Nat)' /\ (temp_num_lines \in Nat)' /\ (compiled \in Nat)'
        /\ (report.line \in Nat)'
    BY <2>1, <2>2, <2>3, <1>2, <1>4
  <2> QED BY <2>4, TypeParts, PTL
<1>10. (phase # "exit" =>
            Obeyed(TextSoFar, world.argv, Len(world.argv) - Len(argv), prefs, within))'
  OBVIOUS
<1> QED BY <1>6, <1>7, <1>8, <1>9, <1>10, Zenon DEF RcInv

\* Of a program that has ended only the report and the types are left to show.
LEMMA StepExit ==
    ASSUME RcInv,
           \/ OptionExits \/ OpenFails \/ StatementExits \/ LexicalOrSyntaxError
           \/ IncludeFails \/ FinishWithin \/ StartFails \/ CompileFails
    PROVE  RcInv'
<1>1. prefs \in PreferencesType /\ NegativesCounted(prefs) BY TypeParts DEF RcInv
<1>2. ASSUME ExitQuietly, phase \in Reading \union {"options"} PROVE RcInv'
  <2>1. /\ phase' = "exit" /\ world' = world /\ argv' = argv /\ prefs' = prefs
        /\ scanner' = scanner /\ compiled' = compiled /\ report' = report
    BY <1>2 DEF ExitQuietly, Exit
  <2>2. prefs' \in PreferencesType /\ NegativesCounted(prefs') BY <2>1, <1>1
  <2> QED BY <2>1, <2>2, <1>2, ExitStep
<1>3. ASSUME ExitHere, phase = "parse" PROVE RcInv'
  <2>1. /\ phase' = "exit" /\ world' = world /\ argv' = argv /\ prefs' = prefs
        /\ scanner' = scanner /\ compiled' = compiled
        /\ report' = [file |-> sub_file, line |-> num_lines + 1]
    BY <1>3 DEF ExitHere, Exit
  <2>2. prefs' \in PreferencesType /\ NegativesCounted(prefs') BY <2>1, <1>1
  <2> QED BY <2>1, <2>2, <1>3, ExitStep DEF Reading
<1>4. CASE OptionExits BY <1>2, <1>4 DEF OptionExits
<1>5. CASE OpenFails
  <2>1. /\ phase = "options" /\ phase' = "exit" /\ world' = world /\ argv' = argv
        /\ scanner' = scanner /\ compiled' = compiled /\ report' = report
        /\ prefs' = prefs \/ prefs' = [prefs EXCEPT !.rc_file = HomeWin]
    BY <1>5 DEF OpenFails
  <2>2. /\ prefs' \in PreferencesType /\ prefs'.negatives = prefs.negatives
        /\ prefs'.filters = prefs.filters
    <3>1. CASE prefs' = prefs BY <3>1, <1>1
    <3>2. CASE prefs' = [prefs EXCEPT !.rc_file = HomeWin]
      <4>1. HomeWin \in STRING BY ValuesAssumption
      <4> QED BY <3>2, <4>1, <1>1 DEF PreferencesType
    <3> QED BY <3>1, <3>2, <2>1
  <2>3. NegativesCounted(prefs') BY <2>2, <1>1 DEF NegativesCounted
  <2> QED BY <2>1, <2>2, <2>3, ExitStep
<1>6. CASE StatementExits
  <2>1. ExitQuietly /\ phase = "parse" BY <1>6 DEF StatementExits, Statement, Scanning
  <2> QED BY <2>1, <1>2 DEF Reading
<1>7. CASE LexicalOrSyntaxError
  <2>1. ExitHere /\ phase = "parse" BY <1>7 DEF LexicalOrSyntaxError, Scanning
  <2> QED BY <2>1, <1>3
<1>8. CASE IncludeFails
  <2>1. ExitQuietly /\ phase = "parse" BY <1>8 DEF IncludeFails, Scanning
  <2> QED BY <2>1, <1>2 DEF Reading
<1>9. CASE FinishWithin
  <2>1. ExitHere /\ phase = "parse" BY <1>9 DEF FinishWithin
  <2> QED BY <2>1, <1>3
<1>10. CASE StartFails BY <1>2, <1>10 DEF StartFails, Reading
<1>11. CASE CompileFails BY <1>2, <1>11 DEF CompileFails, Reading
<1> QED BY <1>4, <1>5, <1>6, <1>7, <1>8, <1>9, <1>10, <1>11

\* An option is looked at.
LEMMA StepOption ==
    ASSUME RcInv, Option
    PROVE  RcInv'
<1> DEFINE e == Head(argv)
           val == IF e.opt = "t" THEN "yes" ELSE e.optarg
<1>1. /\ phase = "options" /\ argv # <<>> /\ argv' = Tail(argv)
      /\ world' = world /\ phase' = phase /\ scanner' = scanner
      /\ compiled' = compiled /\ report' = report
  BY DEF Option
<1>2. \/ e.opt \in DOMAIN OptionKey /\ prefs' = SetSticky(prefs, OptionKey[e.opt], val)
      \/ e.opt \in Flags /\ prefs' = [prefs EXCEPT !.flags = @ \union {e.opt}]
      \/ e.opt = "M" /\ prefs' = [prefs EXCEPT !.rc_file = val]
  BY DEF Option
<1>3. /\ ScanPlace /\ OptionsLeft /\ Compiling
      /\ Obeyed(TextSoFar, world.argv, Len(world.argv) - Len(argv), prefs, within)
      /\ prefs \in PreferencesType /\ NegativesCounted(prefs)
  BY <1>1, TypeParts DEF RcInv
<1>4. /\ input' = input /\ within' = within /\ num_lines' = num_lines
      /\ temp_num_lines' = temp_num_lines /\ sub_file' = sub_file
  BY <1>1 DEF scanner
<1>5. PICK o : o = world.argv OBVIOUS
<1>6. PICK n : n = Len(o) - Len(argv) OBVIOUS
<1>7. o \in Seq(Opt) /\ world \in Worlds BY <1>3, <1>5, WorldFiles DEF ScanPlace
<1>8. /\ argv \in Seq(Opt) /\ Len(argv) \in Nat \ {0} /\ Len(argv) <= Len(o)
      /\ \A k \in 1..Len(argv) : argv[k] = o[Len(o) - Len(argv) + k]
  BY <1>1, <1>3, <1>5 DEF OptionsLeft
<1>9. Tail(argv) \in Seq(Opt) /\ Len(Tail(argv)) = Len(argv) - 1
      /\ \A k \in 1..Len(argv) - 1 : Tail(argv)[k] = argv[k + 1]
  BY <1>1, <1>8
<1>10. n \in Nat /\ n + 1 \in 1..Len(o) /\ e = o[n + 1] /\ e \in Opt
  <2>1. n \in Nat /\ n + 1 \in 1..Len(o) BY <1>6, <1>7, <1>8
  <2>2. e = argv[1] /\ 1 \in 1..Len(argv) BY <1>8
  <2>3. argv[1] = o[n + 1] BY <2>2, <1>6, <1>8
  <2> QED BY <2>1, <2>2, <2>3, <1>7
<1>11. Len(world'.argv) - Len(argv') = n + 1 BY <1>1, <1>5, <1>6, <1>7, <1>8, <1>9
<1>12. OptionsLeft'
  <2>1. \A k \in 1..Len(argv) - 1 : Tail(argv)[k] = o[Len(o) - (Len(argv) - 1) + k]
    <3> TAKE k \in 1..Len(argv) - 1
    <3>1. k + 1 \in 1..Len(argv) BY <1>8
    <3>2. argv[k + 1] = o[Len(o) - Len(argv) + (k + 1)] BY <3>1, <1>8
    <3>3. Len(o) - Len(argv) + (k + 1) = Len(o) - (Len(argv) - 1) + k BY <1>7, <1>8
    <3> QED BY <3>2, <3>3, <1>9
  <2> QED BY <2>1, <1>1, <1>5, <1>8, <1>9 DEF OptionsLeft
<1> HIDE DEF e
<1>13. /\ prefs' \in PreferencesType
       /\ prefs'.filters = prefs.filters /\ prefs'.negatives = prefs.negatives
       /\ prefs'.icase = prefs.icase /\ prefs'.settings = prefs.settings
       /\ prefs'.reg_type = prefs.reg_type /\ prefs'.cur_account = prefs.cur_account
       /\ prefs'.accounts = prefs.accounts
       /\ OptionEffect(e, prefs.sticky, prefs.changed, prefs'.sticky, prefs'.changed)
  <2>0. val \in STRING /\ (e.opt \in DOMAIN OptionKey => val = OptionValue(e))
    <3>1. e.optarg \in STRING BY <1>10 DEF Opt
    <3>2. CASE e.opt = "t" BY <3>2, ValuesAssumption DEF OptionValue
    <3>3. CASE e.opt # "t" BY <3>1, <3>3 DEF OptionValue
    <3> QED BY <3>2, <3>3
  <2> HIDE DEF val
  <2>1. CASE e.opt \in DOMAIN OptionKey /\ prefs' = SetSticky(prefs, OptionKey[e.opt], val)
    <3>1. PICK key \in Sticky : key = OptionKey[e.opt] BY <2>1, OptionKeys
    <3>2. PICK s : s = [prefs.sticky EXCEPT ![key] = val] OBVIOUS
    <3>3. PICK c : c = prefs.changed \union {key} OBVIOUS
    <3>4. s \in [Sticky -> STRING] /\ c \in SUBSET Sticky
      BY <3>1, <3>2, <3>3, <2>0, <1>3, PreferencesFields
    <3>5. CASE key \in prefs.changed
      <4>1. prefs' = prefs BY <2>1, <3>1, <3>5 DEF SetSticky
      <4> QED BY <4>1, <3>1, <3>5, <1>3, Zenon DEF OptionEffect
    <3>6. CASE key \notin prefs.changed
      <4>1. prefs' = [prefs EXCEPT !.sticky = s, !.changed = c]
        BY <2>1, <3>1, <3>2, <3>3, <3>6, <1>3 DEF SetSticky, PreferencesType
      <4>2. /\ prefs' \in PreferencesType
            /\ prefs'.filters = prefs.filters /\ prefs'.negatives = prefs.negatives
            /\ prefs'.icase = prefs.icase /\ prefs'.settings = prefs.settings
            /\ prefs'.reg_type = prefs.reg_type /\ prefs'.cur_account = prefs.cur_account
            /\ prefs'.accounts = prefs.accounts /\ prefs'.sticky = s /\ prefs'.changed = c
        BY <4>1, <3>4, <1>3 DEF PreferencesType
      <4>3. OptionEffect(e, prefs.sticky, prefs.changed, s, c)
        BY <2>0, <2>1, <3>1, <3>2, <3>3, <3>6, Zenon DEF OptionEffect
      <4> QED BY <4>2, <4>3, Zenon
    <3> QED BY <3>5, <3>6
  <2>2. CASE e.opt \in Flags /\ prefs' = [prefs EXCEPT !.flags = @ \union {e.opt}]
    <3>1. e.opt \notin DOMAIN OptionKey BY <2>2, OptionKeys DEF Flags
    <3>2. /\ prefs' \in PreferencesType
          /\ prefs'.filters = prefs.filters /\ prefs'.negatives = prefs.negatives
          /\ prefs'.icase = prefs.icase /\ prefs'.settings = prefs.settings
          /\ prefs'.reg_type = prefs.reg_type /\ prefs'.cur_account = prefs.cur_account
          /\ prefs'.accounts = prefs.accounts
          /\ prefs'.sticky = prefs.sticky /\ prefs'.changed = prefs.changed
      BY <2>2, <1>3 DEF PreferencesType
    <3> QED BY <3>1, <3>2, Zenon DEF OptionEffect
  <2>3. CASE e.opt = "M" /\ prefs' = [prefs EXCEPT !.rc_file = val]
    <3>1. e.opt \notin DOMAIN OptionKey BY <2>3, OptionKeys
    <3>2. /\ prefs' \in PreferencesType
          /\ prefs'.filters = prefs.filters /\ prefs'.negatives = prefs.negatives
          /\ prefs'.icase = prefs.icase /\ prefs'.settings = prefs.settings
          /\ prefs'.reg_type = prefs.reg_type /\ prefs'.cur_account = prefs.cur_account
          /\ prefs'.accounts = prefs.accounts
          /\ prefs'.sticky = prefs.sticky /\ prefs'.changed = prefs.changed
      BY <2>0, <2>3, <1>3 DEF PreferencesType
    <3> QED BY <3>1, <3>2, Zenon DEF OptionEffect
  <2> QED BY <1>2, <2>1, <2>2, <2>3 DEF val
<1>14. Obeyed(Nothing, o, n + 1, prefs', within)
  <2>1. TextSoFar = Nothing BY <1>1 DEF TextSoFar, Reading
  <2>2. Obeyed(Nothing, o, n, prefs, within) BY <2>1, <1>3, <1>5, <1>6
  <2>3. FirstCounts(Nothing, o, n, prefs.sticky) /\ Changed(Nothing, o, n, prefs.changed)
    BY <2>2, Zenon DEF Obeyed
  <2>4. prefs.sticky \in [Sticky -> STRING] /\ prefs.changed \in SUBSET Sticky
    BY <1>3, PreferencesFields
  <2>5. OptionEffect(o[n + 1], prefs.sticky, prefs.changed, prefs'.sticky, prefs'.changed)
    BY <1>10, <1>13
  <2>6. PICK s2 : s2 = prefs'.sticky OBVIOUS
  <2>7. PICK c2 : c2 = prefs'.changed OBVIOUS
  <2>8. FirstCounts(Nothing, o, n + 1, s2) /\ Changed(Nothing, o, n + 1, c2)
    BY <2>3, <2>4, <2>5, <2>6, <2>7, <1>7, <1>10, OptionTaken
  <2> QED BY <2>2, <2>6, <2>7, <2>8, <1>13, Zenon DEF Obeyed
<1>15. Obeyed(TextSoFar, world.argv, Len(world.argv) - Len(argv), prefs, within)'
  <2>1. TextSoFar' = Nothing BY <1>1 DEF TextSoFar, Reading
  <2> QED BY <2>1, <1>1, <1>4, <1>5, <1>11, <1>14
<1>16. ScanPlace'
  <2>1. world \in Worlds /\ input \in Seq(Spot) /\ report = NoReport
        /\ input = <<>> /\ num_lines = 0 /\ sub_file = "" /\ within = FALSE
    BY <1>1, <1>3 DEF ScanPlace
  <2> QED BY <2>1, <1>1, <1>4 DEF ScanPlace, Reading, TrueReport
<1>17. Compiling' BY <1>1, <1>3 DEF Compiling
<1>18. TypeOK'
  <2>1. /\ num_lines \in Nat /\ temp_num_lines \in Nat /\ compiled \in Nat /\ report.line \in Nat
        /\ within \in BOOLEAN /\ InputOK
    BY TypeParts DEF RcInv
  <2>2. InputOK' BY <2>1, <1>1, <1>4 DEF InputOK
  <2>3. NegativesCounted(prefs)' BY <1>3, <1>13 DEF NegativesCounted
  <2>4. /\ (phase \in Reading \union {"options", "exit"})'
        /\ (prefs \in PreferencesType)' /\ NegativesCounted(prefs)'
        /\ InputOK' /\ (within \in BOOLEAN)'
        /\ (num_lines \in Nat)' /\ (temp_num_lines \in Nat)' /\ (compiled \in Nat)'
        /\ (report.line \in Nat)'
    BY <2>1, <2>2, <2>3, <1>1, <1>4, <1>13
  <2> QED BY <2>4, TypeParts, PTL
<1> QED BY <1>12, <1>15, <1>16, <1>17, <1>18, Zenon DEF RcInv

\* The rcfile is opened: Preferences::open and load.
LEMMA StepOpen ==
    ASSUME RcInv, Open
    PROVE  RcInv'
<1>1. /\ phase = "options" /\ argv = <<>> /\ RcName \in DOMAIN world.files
      /\ prefs' = [prefs EXCEPT !.rc_file = RcName]
      /\ input' = <<[file |-> RcName, line |-> 1]>>
      /\ phase' = "parse" /\ world' = world /\ argv' = argv /\ within' = within
      /\ num_lines' = num_lines /\ temp_num_lines' = temp_num_lines /\ sub_file' = sub_file
      /\ compiled' = compiled /\ report' = report
  BY DEF Open, CanOpen
<1>2. /\ ScanPlace /\ OptionsLeft /\ Compiling
      /\ Obeyed(TextSoFar, world.argv, Len(world.argv) - Len(argv), prefs, within)
      /\ prefs \in PreferencesType /\ NegativesCounted(prefs)
  BY <1>1, TypeParts DEF RcInv
<1>3. /\ world \in Worlds /\ num_lines = 0 /\ sub_file = "" /\ within = FALSE /\ report = NoReport
  BY <1>1, <1>2 DEF ScanPlace
<1>4. /\ \A f \in DOMAIN world.files : world.files[f] \in Seq(FileLine) /\ f \in STRING
  BY <1>3, WorldFiles
<1>5. RcName \in STRING /\ world.files[RcName] \in Seq(FileLine) BY <1>1, <1>4
<1>6. PICK r : r = RcName OBVIOUS
<1>7. PICK s : s = [file |-> r, line |-> 1] OBVIOUS
<1>8. s \in Spot /\ s.file = r /\ s.line = 1 BY <1>5, <1>6, <1>7 DEF Spot
<1>9. input' \in Seq(Spot) /\ Len(input') = 1 /\ input'[1] = s
  <2>1. input' = <<s>> BY <1>1, <1>6, <1>7
  <2> QED BY <2>1, <1>8
<1>10. /\ prefs' \in PreferencesType /\ prefs'.rc_file = r
       /\ prefs'.filters = prefs.filters /\ prefs'.negatives = prefs.negatives
       /\ prefs'.icase = prefs.icase /\ prefs'.settings = prefs.settings
       /\ prefs'.reg_type = prefs.reg_type /\ prefs'.cur_account = prefs.cur_account
       /\ prefs'.accounts = prefs.accounts
       /\ prefs'.sticky = prefs.sticky /\ prefs'.changed = prefs.changed
  BY <1>1, <1>2, <1>5, <1>6 DEF PreferencesType
<1>11. Main' = world.files[r] BY <1>1, <1>10 DEF Main
<1>12. InFile'
  <2>1. 1 \in 1..Len(world.files[r]) + 1 BY <1>5, <1>6
  <2>2. InMain'
    <3>1. input'[1].line = 1 BY <1>8, <1>9
    <3>2. num_lines' = 0 /\ sub_file' = "" BY <1>1, <1>3
    <3>3. Len(input') = 1 BY <1>9
    <3>4. input'[1].line \in 1..Len(Main') + 1 BY <3>1, <2>1, <1>11
    <3>5. input'[1].line = num_lines' + 1
      <4>1. 1 = 0 + 1 OBVIOUS
      <4> QED BY <4>1, <3>1, <3>2, Zenon
    <3> QED BY <3>2, <3>3, <3>4, <3>5 DEF InMain
  <2> QED BY <2>2, <1>1, <1>6, <1>8, <1>9, <1>10 DEF InFile
<1>13. TextSoFar' = Nothing /\ TextSoFar = Nothing
  <2>1. IncludedRead' = 0 BY <1>9 DEF IncludedRead
  <2>2. TextSoFar' = TextTo(world.files, world.files[r], 1, 0)
    BY <2>1, <1>1, <1>8, <1>9, <1>11 DEF TextSoFar, Reading
  <2>3. TextTo(world.files, world.files[r], 1, 0) = Nothing BY <1>5, <1>6, NothingRead
  <2>4. TextSoFar = Nothing BY <1>1 DEF TextSoFar, Reading
  <2> QED BY <2>2, <2>3, <2>4
<1>14. Obeyed(TextSoFar, world.argv, Len(world.argv) - Len(argv), prefs, within)'
  <2>1. PICK n : n = Len(world.argv) - Len(argv) OBVIOUS
  <2>2. Obeyed(Nothing, world.argv, n, prefs, within) BY <2>1, <1>2, <1>13
  <2>3. Obeyed(Nothing, world.argv, n, prefs', within) BY <2>2, <1>10, Zenon DEF Obeyed
  <2> QED BY <2>1, <2>3, <1>1, <1>13
<1>15. ScanPlace' BY <1>1, <1>3, <1>9, <1>12 DEF ScanPlace, Reading, TrueReport
<1>16. OptionsLeft' BY <1>1, <1>2 DEF OptionsLeft
<1>17. Compiling' BY <1>1, <1>2 DEF Compiling
<1>18. TypeOK'
  <2>1. (world \in Worlds /\ input \in Seq(Spot) /\ InFile)' BY <1>1, <1>3, <1>9, <1>12
  <2>2. InputOK' BY <2>1, InputBounded, PTL
  <2>3. /\ num_lines \in Nat /\ temp_num_lines \in Nat /\ compiled \in Nat /\ report.line \in Nat
        /\ within \in BOOLEAN
    BY TypeParts DEF RcInv
  <2>4. NegativesCounted(prefs)' BY <1>2, <1>10 DEF NegativesCounted
  <2>5. /\ (phase \in Reading \union {"options", "exit"})'
        /\ (prefs \in PreferencesType)' /\ NegativesCounted(prefs)'
        /\ InputOK' /\ (within \in BOOLEAN)'
        /\ (num_lines \in Nat)' /\ (temp_num_lines \in Nat)' /\ (compiled \in Nat)'
        /\ (report.line \in Nat)'
    BY <2>2, <2>3, <2>4, <1>1, <1>10 DEF Reading
  <2> QED BY <2>5, TypeParts, PTL
<1> QED BY <1>14, <1>15, <1>16, <1>17, <1>18, Zenon DEF RcInv

\* The constructor leaves what a text without lines asks for.
LEMMA FirstPreferences ==
    ASSUME NEW s \in STRING
    PROVE  /\ Preferences(s) \in PreferencesType /\ NegativesCounted(Preferences(s))
           /\ \A o : Obeyed(Nothing, o, 0, Preferences(s), FALSE)
<1> DEFINE p == Preferences(s)
<1>1. PICK c : c = [k \in Setting |-> IF k = "maxsize_score" THEN s ELSE Defaults[k]] OBVIOUS
<1>2. PICK d : d = [k \in Sticky |-> CASE k = "test" -> "no" [] k = "verbose" -> "3" [] k = "logfile" -> ""]
  OBVIOUS
<1>3. p = [settings |-> c, sticky |-> d,
           changed |-> {}, icase |-> "nocase", reg_type |-> "basic", rc_file |-> "",
           flags |-> {}, filters |-> [r \in Rules |-> <<>>], negatives |-> [r \in Rules |-> 0],
           cur_account |-> NoAccount, accounts |-> <<>>]
  BY <1>1, <1>2, Zenon DEF Preferences
<1>4. c \in [Setting -> STRING]
  <2>1. ASSUME NEW k \in Setting, k # "maxsize_score" PROVE Defaults[k] \in STRING
    <3>1. Defaults[k] \in {"100", "30", "no", "", "0"} BY <2>1 DEF Defaults, Setting
    <3> QED BY <3>1, ValuesAssumption
  <2> QED BY <2>1, <1>1
<1>5. d \in [Sticky -> STRING]
  <2>1. ASSUME NEW k \in Sticky PROVE d[k] \in {"no", "3", ""} BY <1>2 DEF Sticky
  <2>2. ASSUME NEW k \in Sticky PROVE d[k] \in STRING BY <2>1, ValuesAssumption
  <2> QED BY <2>2, <1>2
<1>6. NoAccount \in Account BY ValuesAssumption DEF NoAccount, Account
<1>7. "" \in STRING BY ValuesAssumption
<1>8. [r \in Rules |-> <<>>] \in [Rules -> Seq(Filter)] /\ [r \in Rules |-> 0] \in [Rules -> Nat]
      /\ <<>> \in Seq(Account) /\ "basic" \in RegTypes
  BY DEF RegTypes
<1> HIDE DEF p
<1>9. /\ p.settings = c /\ p.sticky = d /\ p.changed = {} /\ p.icase = "nocase"
      /\ p.reg_type = "basic" /\ p.filters = [r \in Rules |-> <<>>]
      /\ p.negatives = [r \in Rules |-> 0] /\ p.accounts = <<>>
  BY <1>3
<1>10. p \in PreferencesType BY <1>3, <1>4, <1>5, <1>6, <1>7, <1>8 DEF PreferencesType
<1>11. NegativesCounted(p) BY <1>9 DEF NegativesCounted
<1>12. ASSUME NEW o PROVE Obeyed(Nothing, o, 0, p, FALSE)
  <2>1. DOMAIN Nothing = {} BY DEF Nothing
  <2>2. Cardinality({}) = 0 /\ IsFiniteSet({}) BY FS_EmptySet
  <2>3. TextType(Nothing) BY <2>1, <2>2 DEF TextType
  <2>4. RulesTaken(Nothing, p.filters, p.negatives)
    <3>1. ASSUME NEW r \in Rules PROVE KindTaken(Nothing, Positions(Nothing, {r}), p.filters[r], p.negatives[r])
      <4>1. p.filters[r] = <<>> /\ p.negatives[r] = 0 BY <1>9
      <4>2. Positions(Nothing, {r}) = {} BY NoLines
      <4>3. {x \in {} : Nothing[x].operat = "<>"} = {} OBVIOUS
      <4>4. Len(p.filters[r]) = 0 BY <4>1
      <4> QED BY <4>1, <4>2, <4>3, <4>4, <2>2 DEF KindTaken
    <3> QED BY <3>1, ByKind
  <2>5. p.icase = CaseAfter(Nothing) BY <2>1, <1>9 DEF CaseAfter
  <2>6. \A key : OptionsFor(o, 0, key) = {} BY DEF OptionsFor
  <2>7. FirstCounts(Nothing, o, 0, p.sticky)
    <3>1. \A key : \A k \in OptionsFor(o, 0, key) : FALSE BY <2>6
    <3>2. \A x \in DOMAIN Nothing : FALSE BY <2>1
    <3> QED BY <3>1, <3>2, Zenon DEF FirstCounts
  <2>8. Changed(Nothing, o, 0, p.changed)
    <3>1. \A key : key \notin p.changed BY <1>9
    <3> QED BY <3>1, <2>6, NoLines, Zenon DEF Changed
  <2>9. LastCounts(Nothing, p.settings)
    <3>1. \A key \in Setting : key # "maxsize_score" => p.settings[key] = Defaults[key] BY <1>1, <1>9
    <3>2. \A x \in DOMAIN Nothing : FALSE BY <2>1
    <3> QED BY <3>1, <3>2, Zenon DEF LastCounts
  <2>10. TypeWanted(Nothing, p.reg_type)
    <3>1. \A x \in DOMAIN Nothing : FALSE BY <2>1
    <3> QED BY <3>1, <1>9, Zenon DEF TypeWanted
  <2>11. AccountsTaken(Nothing, p.cur_account, p.accounts)
    <3>1. \A x \in DOMAIN Nothing : FALSE BY <2>1
    <3>2. Ports(Nothing) = {} BY NoLines DEF Ports
    <3>3. Len(p.accounts) = 0 BY <1>9
    <3>4. Len(p.accounts) = Cardinality(Ports(Nothing)) BY <3>2, <3>3, <2>2
    <3> QED BY <3>1, <3>4, Zenon DEF AccountsTaken
  <2>12. Understood(Nothing, FALSE) BY NoLines, Zenon DEF Understood
  <2> QED BY <2>3, <2>4, <2>5, <2>7, <2>8, <2>9, <2>10, <2>11, <2>12, Zenon DEF Obeyed
<1> QED BY <1>10, <1>11, <1>12 DEF p

\* The invariant holds before the first option is read.
LEMMA InitRcInv == Init => RcInv
<1> SUFFICES ASSUME Init PROVE RcInv OBVIOUS
<1>1. /\ world \in Worlds /\ phase = "options" /\ argv = world.argv
      /\ input = <<>> /\ within = FALSE
      /\ num_lines = 0 /\ temp_num_lines = 0 /\ sub_file = ""
      /\ compiled = 0 /\ report = NoReport
  BY DEF Init
<1>2. PICK s \in SizeScores : prefs = Preferences(s) BY DEF Init
<1>3. s \in STRING BY <1>2, WorldsAssumption
<1>4. /\ prefs \in PreferencesType /\ NegativesCounted(prefs)
      /\ Obeyed(Nothing, world.argv, 0, prefs, FALSE)
  BY <1>2, <1>3, FirstPreferences
<1>5. world.argv \in Seq(Opt) BY <1>1, WorldFiles
<1>6. input \in Seq(Spot) /\ Len(input) = 0 /\ DOMAIN input = {}
  <2>1. input = <<>> BY <1>1
  <2> QED BY <2>1
<1>7. TypeOK
  <2>1. InputOK BY <1>6 DEF InputOK, MAX_INCLUDE_DEPTH
  <2>2. report.line \in Nat BY <1>1 DEF NoReport
  <2> QED BY <2>1, <2>2, <1>1, <1>4, TypeParts
<1>8. ScanPlace BY <1>1, <1>6 DEF ScanPlace, Reading, TrueReport
<1>9. OptionsLeft
  <2>1. Len(argv) \in Nat /\ Len(world.argv) - Len(argv) = 0 /\ Len(argv) <= Len(world.argv)
    <3>1. PICK n : n = Len(world.argv) OBVIOUS
    <3>2. n \in Nat BY <3>1, <1>5
    <3>3. Len(argv) = n BY <3>1, <1>1, Zenon
    <3> QED BY <3>1, <3>2, <3>3
  <2>2. \A k \in 1..Len(argv) : Len(world.argv) - Len(argv) + k = k BY <2>1
  <2> QED BY <2>1, <2>2, <1>1, <1>5 DEF OptionsLeft
<1>10. Obeyed(TextSoFar, world.argv, Len(world.argv) - Len(argv), prefs, within)
  <2>1. TextSoFar = Nothing BY <1>1 DEF TextSoFar, Reading
  <2>2. Len(world.argv) - Len(argv) = 0
    <3>1. PICK n : n = Len(world.argv) OBVIOUS
    <3>2. n \in Nat BY <3>1, <1>5
    <3>3. Len(argv) = n BY <3>1, <1>1, Zenon
    <3> QED BY <3>1, <3>2, <3>3
  <2> QED BY <2>1, <2>2, <1>1, <1>4
<1>11. Compiling BY <1>1 DEF Compiling
<1> QED BY <1>7, <1>8, <1>9, <1>10, <1>11, Zenon DEF RcInv

\* Every step preserves the invariant.
LEMMA NextRcInv == RcInv /\ [Next]_vars => RcInv'
<1> SUFFICES ASSUME RcInv, [Next]_vars PROVE RcInv' OBVIOUS
<1>1. CASE Option BY <1>1, StepOption
<1>2. CASE Open BY <1>2, StepOpen
<1>3. CASE \/ OptionExits \/ OpenFails \/ StatementExits \/ LexicalOrSyntaxError
           \/ IncludeFails \/ FinishWithin \/ StartFails \/ CompileFails
  BY <1>3, StepExit
<1>4. CASE \/ AddFilter \/ SetValue \/ SetOnce \/ SetCase \/ SetRegType
           \/ SetAccountField \/ SetPort \/ Remark \/ OpenArgument
  BY <1>4, StepStatement
<1>5. CASE Include BY <1>5, StepInclude
<1>6. CASE Leave BY <1>6, StepLeave
<1>7. CASE Finish \/ OpenLog \/ Compile \/ Check BY <1>7, StepStage
<1>8. CASE UNCHANGED vars
  BY <1>8 DEF vars, scanner, RcInv, TypeOK, ScanPlace, OptionsLeft, Compiling, InFile, InMain,
      InIncluded, Main, Included, TrueReport, Depth, Place, TextSoFar, IncludedRead, InOrder
<1> QED BY <1>1, <1>2, <1>3, <1>4, <1>5, <1>6, <1>7, <1>8, Zenon DEF Next

\* So it is an invariant.
LEMMA RcInvHolds == Spec => []RcInv
<1>1. Init => RcInv BY InitRcInv
<1>2. RcInv /\ [Next]_vars => RcInv' BY NextRcInv
<1> QED BY <1>1, <1>2, PTL DEF Spec
----------------------------------------------------------------------------
(***************************************************************************)
(* The theorems.                                                           *)
(***************************************************************************)

\* When the rcfile is read to its end, the scanner has taken in the whole text.
LEMMA WholeTextTaken ==
    ASSUME RcInv, WholeFileRead
    PROVE  /\ TextSoFar = WholeText /\ within = FALSE
           /\ Obeyed(WholeText, world.argv, Len(world.argv), prefs, FALSE)
<1>1. phase \in Reading \ {"parse"} BY DEF WholeFileRead, Reading
<1>2. /\ ScanPlace /\ OptionsLeft
      /\ Obeyed(TextSoFar, world.argv, Len(world.argv) - Len(argv), prefs, within)
  BY <1>1 DEF RcInv, Reading
<1>3. /\ world \in Worlds /\ InFile /\ argv = <<>> /\ within = FALSE
      /\ Len(input) = 1 /\ input[1].line = Len(Main) + 1
  BY <1>1, <1>2 DEF ScanPlace
<1>4. Main \in Seq(FileLine) /\ world.argv \in Seq(Opt) BY <1>3, WorldFiles DEF InFile, Main
<1>5. PICK m : m = Main OBVIOUS
<1>6. PICK files : files = world.files OBVIOUS
<1>7. TextSoFar = TextTo(files, m, Len(m) + 1, 0)
  BY <1>1, <1>3, <1>5, <1>6 DEF TextSoFar, IncludedRead
<1>8. PassedPlaces(files, m, Len(m) + 1, 0) = Places
  <2>1. \A n \in DOMAIN m : n < Len(m) + 1 BY <1>4, <1>5
  <2>2. {n \in DOMAIN m : n < Len(m) + 1 /\ m[n].key # "include"} = {n \in DOMAIN m : m[n].key # "include"}
    BY <2>1
  <2>3. {n \in DOMAIN m : n < Len(m) + 1 /\ m[n].key = "include"} = {n \in DOMAIN m : m[n].key = "include"}
    BY <2>1
  <2>4. {<<Len(m) + 1, j>> : j \in 1..0} = {} OBVIOUS
  <2>5. PICK A : A = {<<n, 0>> : n \in {x \in DOMAIN m : m[x].key # "include"}} OBVIOUS
  <2>6. PICK B : B = UNION {{n} \X DOMAIN files[m[n].val] : n \in {x \in DOMAIN m : m[x].key = "include"}}
    OBVIOUS
  <2>7. PassedPlaces(files, m, Len(m) + 1, 0) = (A \union B) \union {}
    BY <2>2, <2>3, <2>4, <2>5, <2>6, Zenon DEF PassedPlaces
  <2>8. Places = A \union B BY <2>5, <2>6, <1>5, <1>6, Zenon DEF Places, Included
  <2> QED BY <2>7, <2>8
<1>9. TextSoFar = WholeText
  BY <1>5, <1>6, <1>7, <1>8, Zenon DEF TextTo, WholeText, LineAt, Included
<1>10. Len(world.argv) - Len(argv) = Len(world.argv)
  <2>1. Len(argv) = 0 /\ Len(world.argv) \in Nat BY <1>3, <1>4
  <2> QED BY <2>1
<1> QED BY <1>2, <1>3, <1>9, <1>10

\* The preferences stay well-typed for every rcfile and every command line, files are
\* at most one include deep, and at most as many filters are negative as there are.
THEOREM RcfileTypes == Spec => []TypeOK
<1>1. RcInv => TypeOK BY DEF RcInv
<1> QED BY <1>1, RcInvHolds, PTL

\* The place an error message names is the one the scanner is at (yyerror).
THEOREM TrueReports == Spec => []TrueReport
<1>1. RcInv => TrueReport BY DEF RcInv, ScanPlace
<1> QED BY <1>1, RcInvHolds, PTL

\* The filters are the rules of the whole text, included files too, in their order,
\* each with the case in force at its line (add_allow_rule, add_deny_rule, add_score).
THEOREM RulesTakenAsWritten == Spec => []RulesAsWritten
<1>1. RcInv => RulesAsWritten
  <2> SUFFICES ASSUME RcInv, WholeFileRead
               PROVE  RulesTaken(WholeText, prefs.filters, prefs.negatives)
    BY DEF RulesAsWritten
  <2>1. Obeyed(WholeText, world.argv, Len(world.argv), prefs, FALSE) BY WholeTextTaken
  <2> QED BY <2>1, Zenon DEF Obeyed
<1> QED BY <1>1, RcInvHolds, PTL

\* The command line goes before the rcfile, the first of the sticky statements
\* counts and the last one of all others (get_opts, the setters of Preferences).
THEOREM SettingsTakenAsWritten == Spec => []SettingsAsWritten
<1>1. RcInv => SettingsAsWritten
  <2> SUFFICES ASSUME RcInv, WholeFileRead
               PROVE  /\ FirstCounts(WholeText, world.argv, Len(world.argv), prefs.sticky)
                      /\ LastCounts(WholeText, prefs.settings)
    BY DEF SettingsAsWritten
  <2>1. Obeyed(WholeText, world.argv, Len(world.argv), prefs, FALSE) BY WholeTextTaken
  <2> QED BY <2>1, Zenon DEF Obeyed
<1> QED BY <1>1, RcInvHolds, PTL

\* An account whose block is whole has exactly the values of its block, whatever
\* blocks stand before it (cur_account, set_port).
THEOREM WholeBlocksAreKept == Spec => []WholeBlocksKept
<1>1. RcInv => WholeBlocksKept
  <2> SUFFICES ASSUME RcInv, WholeFileRead PROVE BlocksTaken(WholeText, prefs.accounts)
    BY DEF WholeBlocksKept
  <2>1. Obeyed(WholeText, world.argv, Len(world.argv), prefs, FALSE) BY WholeTextTaken
  <2>2. TextType(WholeText) /\ AccountsTaken(WholeText, prefs.cur_account, prefs.accounts)
    BY <2>1, Zenon DEF Obeyed
  <2> QED BY <2>2, WholeBlocksTaken
<1> QED BY <1>1, RcInvHolds, PTL

\* Mail is looked at only when everything was understood and compiled as the rcfile
\* wants it, and the log file is open (main, precompile_expressions).
THEOREM ChecksWhenReady == Spec => []CheckedWhenReady
<1>1. RcInv => CheckedWhenReady
  <2> SUFFICES ASSUME RcInv, phase = "check"
               PROVE  /\ Positions(WholeText, {"junk", "open", "shell", "include"}) = {}
                      /\ \E reg_type \in RegTypes :
                            /\ TypeWanted(WholeText, reg_type)
                            /\ \A p \in Positions(WholeText, Rules) :
                                  <<WholeText[p].id, reg_type>> \in Compiles
                      /\ compiled = Cardinality(Positions(WholeText, Rules))
                      /\ prefs.sticky["logfile"] \in world.writable
    BY DEF CheckedWhenReady
  <2>1. PICK t : t = WholeText OBVIOUS
  <2>2. Obeyed(t, world.argv, Len(world.argv), prefs, FALSE)
    BY <2>1, WholeTextTaken DEF WholeFileRead
  <2>3. /\ TextType(t) /\ RulesTaken(t, prefs.filters, prefs.negatives)
        /\ TypeWanted(t, prefs.reg_type) /\ Understood(t, FALSE)
    BY <2>2, Zenon DEF Obeyed
  <2>4. /\ compiled = Len(InOrder) /\ prefs.sticky["logfile"] \in world.writable
        /\ \A j \in 1..compiled : <<InOrder[j].id, prefs.reg_type>> \in Compiles
    BY DEF RcInv, Compiling
  <2>5. prefs.reg_type \in RegTypes /\ prefs.filters \in [Rules -> Seq(Filter)]
    BY TypeParts, PreferencesFields DEF RcInv
  <2>6. Positions(t, {"junk", "open", "shell", "include"}) = {}
    <3>1. Positions(t, {"junk", "shell", "include"}) = {} /\ Positions(t, {"open"}) = {}
      BY <2>3 DEF Understood
    <3> QED BY <3>1 DEF Positions
  <2>7. PICK a : a = prefs.filters["allow"] OBVIOUS
  <2>8. PICK d : d = prefs.filters["deny"] OBVIOUS
  <2>9. PICK s : s = prefs.filters["score"] OBVIOUS
  <2>10. PICK io : io = InOrder OBVIOUS
  <2>11. a \in Seq(Filter) /\ d \in Seq(Filter) /\ s \in Seq(Filter)
    BY <2>5, <2>7, <2>8, <2>9 DEF Rules
  <2>12. io = a \o d \o s BY <2>7, <2>8, <2>9, <2>10, Zenon DEF InOrder
  <2>13. /\ io \in Seq(Filter) /\ Len(io) = Len(a) + Len(d) + Len(s)
         /\ \A i \in 1..Len(a) : \E j \in 1..Len(io) : io[j] = a[i]
         /\ \A i \in 1..Len(d) : \E j \in 1..Len(io) : io[j] = d[i]
         /\ \A i \in 1..Len(s) : \E j \in 1..Len(io) : io[j] = s[i]
    <3>1. InTurn(Filter, a, d, s, io) BY <2>11, <2>12, EachInOrder
    <3> QED BY <3>1, Zenon DEF InTurn
  <2>14. /\ KindTaken(t, Positions(t, {"allow"}), a, prefs.negatives["allow"])
         /\ KindTaken(t, Positions(t, {"deny"}), d, prefs.negatives["deny"])
         /\ KindTaken(t, Positions(t, {"score"}), s, prefs.negatives["score"])
    <3>1. \A r \in Rules : KindTaken(t, Positions(t, {r}), prefs.filters[r], prefs.negatives[r])
      BY <2>3, ByKind
    <3> QED BY <3>1, <2>7, <2>8, <2>9 DEF Rules
  <2>15. compiled = Cardinality(Positions(t, Rules))
    <3>1. /\ Len(a) = Cardinality(Positions(t, {"allow"}))
          /\ Len(d) = Cardinality(Positions(t, {"deny"}))
          /\ Len(s) = Cardinality(Positions(t, {"score"}))
      BY <2>14, Zenon DEF KindTaken
    <3>2. Cardinality(Positions(t, Rules)) =
              Cardinality(Positions(t, {"allow"})) + Cardinality(Positions(t, {"deny"}))
              + Cardinality(Positions(t, {"score"}))
      BY <2>3, RulesCounted
    <3> QED BY <3>1, <3>2, <2>4, <2>10, <2>13
  <2>16. ASSUME NEW fs \in Seq(Filter), NEW r, NEW k, KindTaken(t, Positions(t, {r}), fs, k),
                \A i \in 1..Len(fs) : \E j \in 1..Len(io) : io[j] = fs[i],
                NEW p \in Positions(t, {r})
         PROVE  <<t[p].id, prefs.reg_type>> \in Compiles
    <3>1. PICK S : S = Positions(t, {r}) OBVIOUS
    <3>2. Rank(p, S) \in 1..Len(fs)
      <4>1. Len(fs) = Cardinality(S) BY <2>16, <3>1, Zenon DEF KindTaken
      <4>2. S \subseteq DOMAIN t BY <3>1 DEF Positions
      <4>3. DOMAIN t \subseteq Pair /\ IsFiniteSet(DOMAIN t) BY <2>3 DEF TextType
      <4>4. IsFiniteSet(S) BY <4>2, <4>3, FS_Subset
      <4>5. ~Before(p, p) BY <4>2, <4>3, <3>1, PlacesOrdered
      <4>6. PICK R : R = {q \in S : ~Before(p, q)} OBVIOUS
      <4>7. R \subseteq S /\ p \in R BY <4>5, <4>6, <3>1
      <4>8. IsFiniteSet(R) /\ Cardinality(R) \in Nat /\ Cardinality(R) <= Cardinality(S)
            /\ Cardinality(S) \in Nat
        BY <4>4, <4>7, FS_Subset, FS_CardinalityType
      <4>9. Cardinality(R) # 0 BY <4>7, <4>8, FS_EmptySet
      <4>10. Rank(p, S) = Cardinality(R) BY <4>6, Zenon DEF Rank
      <4> QED BY <4>1, <4>8, <4>9, <4>10
    <3>3. fs[Rank(p, S)] = AsWritten(t, p) BY <2>16, <3>1, Zenon DEF KindTaken
    <3>4. fs[Rank(p, S)].id = t[p].id BY <3>3 DEF AsWritten
    <3>5. PICK j \in 1..Len(io) : io[j] = fs[Rank(p, S)] BY <3>2, <2>16
    <3>6. <<io[j].id, prefs.reg_type>> \in Compiles BY <3>5, <2>4, <2>10
    <3> QED BY <3>4, <3>5, <3>6
  <2>17. \A p \in Positions(t, Rules) : <<t[p].id, prefs.reg_type>> \in Compiles
    <3> TAKE p \in Positions(t, Rules)
    <3>1. \/ p \in Positions(t, {"allow"}) \/ p \in Positions(t, {"deny"})
          \/ p \in Positions(t, {"score"})
      BY DEF Positions, Rules
    <3> QED BY <3>1, <2>11, <2>13, <2>14, <2>16
  <2> QED BY <2>1, <2>3, <2>4, <2>5, <2>6, <2>15, <2>17
<1> QED BY <1>1, RcInvHolds, PTL

----------------------------------------------------------------------------
(***************************************************************************)
(* The decision comes nearer with every step.                              *)
(***************************************************************************)

\* One component of the measure goes down and those before it stay.
LEMMA NearerAt ==
    ASSUME NEW s, NEW t, NEW k \in DOMAIN s, s[k] \in 0..t[k] - 1,
           \A j \in 1..k - 1 : s[j] = t[j]
    PROVE  Nearer(s, t)
  BY Zenon DEF Nearer

\* A stage is over.
LEMMA StageOver ==
    ASSUME \/ phase = "options" /\ phase' \in {"parse", "exit"}
           \/ phase = "parse" /\ phase' \in {"log", "exit"}
           \/ phase = "log" /\ phase' \in {"compile", "exit"}
           \/ phase = "compile" /\ phase' \in {"check", "exit"}
    PROVE  Nearer(Remaining', Remaining)
<1>1. PICK s : s = Remaining' OBVIOUS
<1>2. PICK t : t = Remaining OBVIOUS
<1>3. 1 \in DOMAIN s /\ s[1] = StagesLeft[phase'] /\ t[1] = StagesLeft[phase]
  BY <1>1, <1>2 DEF Remaining
<1>4. s[1] \in 0..t[1] - 1 BY <1>3 DEF StagesLeft
<1>5. \A j \in 1..1 - 1 : s[j] = t[j] OBVIOUS
<1> QED BY <1>1, <1>2, <1>3, <1>4, <1>5, NearerAt, Zenon

\* An option is used up.
LEMMA OptionUsed ==
    ASSUME phase' = phase, argv \in Seq(Opt), argv # <<>>, argv' = Tail(argv)
    PROVE  Nearer(Remaining', Remaining)
<1>1. PICK s : s = Remaining' OBVIOUS
<1>2. PICK t : t = Remaining OBVIOUS
<1>3. 2 \in DOMAIN s /\ s[1] = t[1] /\ s[2] = Len(argv') /\ t[2] = Len(argv)
  BY <1>1, <1>2 DEF Remaining
<1>4. Len(argv) \in Nat \ {0} /\ Len(argv') = Len(argv) - 1 OBVIOUS
<1>5. s[2] \in 0..t[2] - 1 BY <1>3, <1>4
<1>6. \A j \in 1..2 - 1 : s[j] = t[j] BY <1>3
<1> QED BY <1>1, <1>2, <1>3, <1>5, <1>6, NearerAt, Zenon

\* The scanner is in one file or in two, and knows how many lines these have.
LEMMA FilesRead ==
    ASSUME RcInv, phase \in Reading
    PROVE  /\ input \in Seq(Spot) /\ Len(input) \in 1..2 /\ DOMAIN input = 1..Len(input)
           /\ \A n \in 1..Len(input) :
                 /\ input[n].line \in 1..Len(world.files[input[n].file]) + 1
                 /\ Len(world.files[input[n].file]) \in Nat
           /\ Len(input) = 2 => input[1].line <= Len(world.files[input[1].file])
<1>1. world \in Worlds /\ input \in Seq(Spot) /\ InFile BY DEF RcInv, ScanPlace
<1>2. /\ prefs.rc_file \in DOMAIN world.files /\ input[1].file = prefs.rc_file
      /\ \A f \in DOMAIN world.files : world.files[f] \in Seq(FileLine)
  BY <1>1, WorldFiles DEF InFile
<1>3. Main = world.files[input[1].file] /\ Len(world.files[input[1].file]) \in Nat
  BY <1>2 DEF Main
<1>4. PICK m \in Nat : m = Len(input) BY <1>1
<1>5. /\ input[1].line \in 1..Len(world.files[input[1].file]) + 1
      /\ \/ m = 1
         \/ /\ m = 2 /\ input[1].line <= Len(world.files[input[1].file])
            /\ input[2].line \in 1..Len(world.files[input[2].file]) + 1
            /\ Len(world.files[input[2].file]) \in Nat
  <2>1. CASE InMain BY <2>1, <1>3, <1>4 DEF InMain
  <2>2. CASE InIncluded
    <3>1. Included(input[1].line) = world.files[input[2].file]
      BY <2>2 DEF InIncluded, Included
    <3>2. Len(world.files[input[2].file]) \in Nat BY <1>2, <2>2 DEF InIncluded
    <3> QED BY <3>1, <3>2, <2>2, <1>3, <1>4, SMTT(60) DEF InIncluded
  <2> QED BY <2>1, <2>2, <1>1 DEF InFile
<1>6. m \in 1..2 /\ \A n \in 1..m : n = 1 \/ (n = 2 /\ m = 2) BY <1>4, <1>5
<1>7. DOMAIN input = 1..m BY <1>1, <1>4
<1>8. \A n \in 1..m : /\ input[n].line \in 1..Len(world.files[input[n].file]) + 1
                      /\ Len(world.files[input[n].file]) \in Nat
  BY <1>3, <1>5, <1>6, Zenon
<1>9. m = 2 => input[1].line <= Len(world.files[input[1].file]) BY <1>5
<1> QED BY <1>1, <1>4, <1>6, <1>7, <1>8, <1>9, Zenon

\* A line is left behind, of the file that is being read.
LEMMA LineLeft ==
    ASSUME RcInv, phase = "parse", ~AtEnd, Newline, UNCHANGED <<world, phase, argv>>
    PROVE  Nearer(Remaining', Remaining)
<1>1. PICK s : s = Remaining' OBVIOUS
<1>2. PICK t : t = Remaining OBVIOUS
<1>3. PICK m : m = Len(input) OBVIOUS
<1>4. /\ input \in Seq(Spot) /\ m \in 1..2 /\ DOMAIN input = 1..m
      /\ \A n \in 1..m : /\ input[n].line \in 1..Len(world.files[input[n].file]) + 1
                         /\ Len(world.files[input[n].file]) \in Nat
  BY <1>3, FilesRead DEF Reading
<1>5. PICK u : u = input' OBVIOUS
<1>6. /\ DOMAIN u = 1..m /\ Len(u) = m
      /\ u[m].file = input[m].file /\ u[m].line = input[m].line + 1
      /\ \A n \in 1..m : n # m => u[n] = input[n]
  <2>1. u = [input EXCEPT ![m].line = @ + 1] BY <1>3, <1>5 DEF Newline
  <2>2. m \in DOMAIN input /\ input[m] \in Spot BY <1>4
  <2> QED BY <2>1, <2>2, <1>3, <1>4 DEF Spot
<1>7. input[m].line <= Len(world.files[input[m].file])
  <2>1. ~(input[m].line > Len(world.files[input[m].file])) BY <1>3 DEF AtEnd, Place, Text
  <2>2. m \in 1..m BY <1>4
  <2> QED BY <2>1, <2>2, <1>4
<1>8. PICK old : old = Len(world.files[input[m].file]) + 1 - input[m].line OBVIOUS
<1>81. old \in Nat \ {0} /\ Len(world.files[input[m].file]) + 1 - (input[m].line + 1) = old - 1
  <2>1. PICK n : n = Len(world.files[input[m].file]) OBVIOUS
  <2>2. PICK a : a = input[m].line OBVIOUS
  <2>3. m \in 1..m BY <1>4
  <2>4. n \in Nat /\ a \in 1..n + 1 BY <2>1, <2>2, <2>3, <1>4, Zenon
  <2>5. a <= n BY <2>1, <2>2, <1>7
  <2>6. old = n + 1 - a BY <2>1, <2>2, <1>8, Zenon
  <2>7. old \in Nat \ {0} /\ n + 1 - (a + 1) = old - 1 BY <2>4, <2>5, <2>6
  <2> QED BY <2>1, <2>2, <2>7, Zenon
<1>9. old \in Nat \ {0} /\ LinesLeft(m) = old /\ LinesLeft(m)' = old - 1
  <2>1. m \in 1..m BY <1>4
  <2>2. LinesLeft(m) = old BY <2>1, <1>4, <1>8 DEF LinesLeft
  <2>3. LinesLeft(m)' = Len(world.files[u[m].file]) + 1 - u[m].line
    BY <2>1, <1>4, <1>5, <1>6 DEF LinesLeft
  <2> QED BY <2>2, <2>3, <1>6, <1>81
<1>10. /\ DOMAIN s = 1..6 /\ s[1] = t[1] /\ s[2] = t[2]
       /\ s[3] = LinesLeft(1)' /\ t[3] = LinesLeft(1)
       /\ s[5] = LinesLeft(2)' /\ t[5] = LinesLeft(2)
  BY <1>1, <1>2 DEF Remaining
<1>11. CASE m = 1
  <2>1. s[3] \in 0..t[3] - 1 BY <1>9, <1>10, <1>11
  <2>2. 3 \in DOMAIN s /\ \A j \in 1..3 - 1 : s[j] = t[j] BY <1>10
  <2> QED BY <2>1, <2>2, <1>1, <1>2, NearerAt, Zenon
<1>12. CASE m = 2
  <2>1. s[5] \in 0..t[5] - 1 BY <1>9, <1>10, <1>12
  <2>2. s[3] = t[3] /\ s[4] = t[4]
    <3>1. u[1] = input[1] /\ 1 \in 1..m BY <1>6, <1>12
    <3>2. s[3] = t[3] BY <3>1, <1>4, <1>5, <1>6, <1>10, SMTT(60) DEF LinesLeft
    <3>3. s[4] = t[4] BY <1>1, <1>2, <1>3, <1>5, <1>6 DEF Remaining, Depth
    <3> QED BY <3>2, <3>3
  <2>3. 5 \in DOMAIN s /\ \A j \in 1..5 - 1 : s[j] = t[j] BY <1>10, <2>2
  <2> QED BY <2>1, <2>3, <1>1, <1>2, NearerAt, Zenon
<1> QED BY <1>4, <1>11, <1>12

\* The scanner goes into an included file,
LEMMA FileEntered ==
    ASSUME RcInv, Include
    PROVE  Nearer(Remaining', Remaining)
<1>1. PICK s : s = Remaining' OBVIOUS
<1>2. PICK t : t = Remaining OBVIOUS
<1>3. PICK p : p = [file |-> Line.val, line |-> 1] OBVIOUS
<1>4. PICK u : u = input' OBVIOUS
<1>5. /\ phase = "parse" /\ Depth < MAX_INCLUDE_DEPTH /\ u = Append(input, p)
      /\ UNCHANGED <<world, phase, argv, prefs>>
  BY <1>3, <1>4 DEF Include, Enter, Scanning
<1>6. input \in Seq(Spot) /\ Len(input) \in 1..2 /\ DOMAIN input = 1..Len(input)
  BY <1>5, FilesRead DEF Reading
<1>7. Len(input) = 1 BY <1>5, <1>6 DEF Depth, MAX_INCLUDE_DEPTH
<1>8. Len(u) = 2 /\ DOMAIN u = 1..2 /\ u[1] = input[1]
  <2>1. Line.val \in DOMAIN world.files BY DEF Include, Found
  <2>2. Line.val \in STRING BY <2>1, WorldFiles DEF RcInv, ScanPlace
  <2>3. p \in Spot BY <2>2, <1>3 DEF Spot
  <2>4. input \in Seq(Spot) /\ Len(input) = 1 /\ 1 \in DOMAIN input BY <1>6, <1>7
  <2>5. u = Append(input, p) BY <1>5
  <2>6. Longer(input, p, Append(input, p)) BY <2>3, <2>4, Appended, Zenon
  <2>7. Longer(input, p, u) BY <2>5, <2>6, Zenon
  <2> HIDE <1>1, <1>2, <1>3, <1>4, <1>5
  <2>8. Len(u) = 2 /\ DOMAIN u = 1..2 /\ u[1] = input[1] BY <2>4, <2>7 DEF Longer
  <2> QED BY <2>8
<1>9. LinesLeft(1)' = LinesLeft(1) BY <1>4, <1>5, <1>6, <1>7, <1>8 DEF LinesLeft
<1>10. /\ DOMAIN s = 1..6 /\ s[1] = t[1] /\ s[2] = t[2] /\ s[3] = t[3] /\ s[4] = 0 /\ t[4] = 1
  BY <1>1, <1>2, <1>4, <1>5, <1>7, <1>8, <1>9 DEF Remaining, Depth
<1>11. s[4] \in 0..t[4] - 1 /\ 4 \in DOMAIN s /\ \A j \in 1..4 - 1 : s[j] = t[j] BY <1>10
<1> QED BY <1>1, <1>2, <1>11, NearerAt, Zenon

\* and comes back behind the line that includes it.
LEMMA FileLeft ==
    ASSUME RcInv, Leave
    PROVE  Nearer(Remaining', Remaining)
<1>1. PICK s : s = Remaining' OBVIOUS
<1>2. PICK t : t = Remaining OBVIOUS
<1>3. PICK u : u = input' OBVIOUS
<1>4. /\ phase = "parse" /\ Depth > 0 /\ u = [Front(input) EXCEPT ![Depth].line = @ + 1]
      /\ UNCHANGED <<world, phase, argv>>
  BY <1>3 DEF Leave
<1>5. PICK n : n = Len(world.files[input[1].file]) OBVIOUS
<1>6. /\ input \in Seq(Spot) /\ Len(input) \in 1..2 /\ DOMAIN input = 1..Len(input)
      /\ Len(input) = 2 => input[1].line <= n
      /\ n \in Nat /\ input[1].line \in 1..n + 1
  <2>1. 1 \in 1..Len(input) BY <1>4, FilesRead DEF Reading
  <2> QED BY <2>1, <1>4, <1>5, FilesRead DEF Reading
<1>7. Len(input) = 2 /\ Depth = 1 BY <1>4, <1>6 DEF Depth
<1>8. DOMAIN u = 1..1 /\ u[1].file = input[1].file /\ u[1].line = input[1].line + 1
  <2>1. PICK v : v = Front(input) OBVIOUS
  <2>2. v \in Seq(Spot) /\ Len(v) = 1 /\ v[1] = input[1]
    <3>1. v = SubSeq(input, 1, 1) BY <1>6, <1>7, <2>1 DEF Front
    <3>2. input \in Seq(Spot) /\ Len(input) = 2 BY <1>6, <1>7
    <3> QED BY <3>1, <3>2
  <2>3. u = [v EXCEPT ![1].line = @ + 1] BY <1>4, <1>7, <2>1
  <2>4. v[1] \in Spot
    <3>1. 1 \in 1..2 OBVIOUS
    <3>2. input[1] \in Spot BY <3>1, <1>6, <1>7
    <3> QED BY <3>2, <2>2
  <2> QED BY <2>2, <2>3, <2>4 DEF Spot
<1>9. LinesLeft(1) = n + 1 - input[1].line /\ LinesLeft(1)' = n + 1 - (input[1].line + 1)
  <2>1. 1 \in DOMAIN input BY <1>6, <1>7
  <2>2. LinesLeft(1) = n + 1 - input[1].line BY <2>1, <1>5, Zenon DEF LinesLeft
  <2>3. 1 \in DOMAIN u BY <1>8
  <2>4. LinesLeft(1)' = Len(world.files[u[1].file]) + 1 - u[1].line
    BY <2>3, <1>3, <1>4, Zenon DEF LinesLeft
  <2> QED BY <2>2, <2>4, <1>5, <1>8, Zenon
<1>10. /\ DOMAIN s = 1..6 /\ s[1] = t[1] /\ s[2] = t[2]
       /\ s[3] = LinesLeft(1)' /\ t[3] = LinesLeft(1)
  BY <1>1, <1>2, <1>4 DEF Remaining
<1>11. s[3] \in 0..t[3] - 1 BY <1>6, <1>7, <1>9, <1>10
<1>12. 3 \in DOMAIN s /\ \A j \in 1..3 - 1 : s[j] = t[j] BY <1>10
<1> QED BY <1>1, <1>2, <1>11, <1>12, NearerAt, Zenon

\* A filter is compiled.
LEMMA FilterDone ==
    ASSUME RcInv, Compile
    PROVE  Nearer(Remaining', Remaining)
<1>1. PICK s : s = Remaining' OBVIOUS
<1>2. PICK t : t = Remaining OBVIOUS
<1>3. PICK n : n = Len(InOrder) OBVIOUS
<1>4. /\ compiled < n /\ compiled' = compiled + 1
      /\ UNCHANGED <<world, phase, argv, prefs, input>>
  BY <1>3 DEF Compile, scanner
<1>5. Len(InOrder)' = n BY <1>3, <1>4 DEF InOrder
<1>6. LinesLeft(1)' = LinesLeft(1) /\ LinesLeft(2)' = LinesLeft(2) BY <1>4 DEF LinesLeft
<1>7. /\ DOMAIN s = 1..6 /\ s[1] = t[1] /\ s[2] = t[2] /\ s[3] = t[3] /\ s[4] = t[4] /\ s[5] = t[5]
      /\ s[6] = n - (compiled + 1) /\ t[6] = n - compiled
  BY <1>1, <1>2, <1>3, <1>4, <1>5, <1>6 DEF Remaining, Depth
<1>8. compiled \in Nat /\ n \in Nat
  <2>1. prefs.filters \in [Rules -> Seq(Filter)] /\ compiled \in Nat
    BY TypeParts, PreferencesFields DEF RcInv
  <2>2. /\ prefs.filters["allow"] \in Seq(Filter) /\ prefs.filters["deny"] \in Seq(Filter)
        /\ prefs.filters["score"] \in Seq(Filter)
    BY <2>1 DEF Rules
  <2>3. InTurn(Filter, prefs.filters["allow"], prefs.filters["deny"], prefs.filters["score"], InOrder)
    BY <2>2, EachInOrder, Zenon DEF InOrder
  <2>4. InOrder \in Seq(Filter) BY <2>3, Zenon DEF InTurn
  <2> QED BY <2>1, <2>4, <1>3
<1>9. s[6] \in 0..t[6] - 1 BY <1>4, <1>7, <1>8
<1>10. 6 \in DOMAIN s /\ \A j \in 1..6 - 1 : s[j] = t[j] BY <1>7
<1> QED BY <1>1, <1>2, <1>9, <1>10, NearerAt, Zenon

\* The preparations come to an end, for every rcfile and whatever it includes (main,
\* get_opts, rcfile.ll, precompile_expressions).
THEOREM DecisionComes == Spec => DecisionInSight
<1>1. ASSUME RcInv, Next PROVE Nearer(Remaining', Remaining)
  <2>1. CASE Option
    BY <1>1, <2>1, OptionUsed DEF Option, RcInv, OptionsLeft
  <2>2. CASE \/ OptionExits \/ OpenFails \/ Open \/ StatementExits \/ LexicalOrSyntaxError
             \/ IncludeFails \/ FinishWithin \/ StartFails \/ CompileFails
             \/ Finish \/ OpenLog \/ Check
    BY <2>2, StageOver DEF OptionExits, OpenFails, Open, StatementExits, LexicalOrSyntaxError,
       IncludeFails, FinishWithin, StartFails, CompileFails, Finish, OpenLog, Check, Exit, ExitHere,
       ExitQuietly, Statement, Scanning
  <2>3. CASE \/ AddFilter \/ SetValue \/ SetOnce \/ SetCase \/ SetRegType
             \/ SetAccountField \/ SetPort \/ Remark \/ OpenArgument
    <3>1. phase = "parse" /\ ~AtEnd /\ Newline /\ UNCHANGED <<world, phase, argv>>
      BY <2>3, Zenon DEF AddFilter, SetValue, SetOnce, SetCase, SetRegType, SetAccountField, SetPort,
         Remark, OpenArgument, Statement, Scanning, Effect
    <3> QED BY <1>1, <3>1, LineLeft
  <2>4. CASE Include BY <1>1, <2>4, FileEntered
  <2>5. CASE Leave BY <1>1, <2>5, FileLeft
  <2>6. CASE Compile BY <1>1, <2>6, FilterDone
  <2> QED BY <1>1, <2>1, <2>2, <2>3, <2>4, <2>5, <2>6, Zenon DEF Next
<1>2. RcInv /\ [Next]_vars => [Nearer(Remaining', Remaining)]_vars BY <1>1
<1> QED BY <1>2, RcInvHolds, PTL DEF Spec, DecisionInSight

=============================================================================
