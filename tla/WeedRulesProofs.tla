-------------------------- MODULE WeedRulesProofs --------------------------
(***************************************************************************)
(* Lemmas about the operators of WeedRules.                                  *)
(***************************************************************************)
EXTENDS WeedRules, TLAPS, SequenceTheorems, WellFoundedInduction

\* The least-number principle.
LEMMA SmallestOfNaturals ==
    ASSUME NEW S \in SUBSET Nat, S # {}
    PROVE  \E x \in S : \A y \in S : x <= y
<1> DEFINE R == {ss \in Nat \X Nat : ss[1] < ss[2]}
<1>1. IsWellFoundedOn(R, Nat)
  BY NatLessThanWellFounded, Zenon DEF OpToRel
<1>2. \E x \in S : \A y \in S : <<y, x>> \notin R
  <2> HIDE DEF R
  <2> QED BY <1>1, WFMin
<1>3. PICK x \in S : \A y \in S : <<y, x>> \notin R
  BY <1>2
<1>4. \A y \in S : ~(y < x)
  BY <1>3
<1> QED BY <1>4

\* Max of the community modules is a maximum of every set of line numbers.
LEMMA MaxOfInterval ==
    ASSUME NEW n \in Nat, NEW S \in SUBSET (1..n), S # {}
    PROVE  Max(S) \in S /\ \A y \in S : Max(S) >= y
<1> DEFINE T == {m \in Nat : \E k \in S : m = n - k}
<1>1. T \in SUBSET Nat /\ T # {}
  <2>1. PICK k \in S : TRUE OBVIOUS
  <2>2. n - k \in T BY <2>1
  <2> QED BY <2>2
<1>2. PICK t \in T : \A u \in T : t <= u
  <2> HIDE DEF T
  <2> QED BY <1>1, SmallestOfNaturals
<1>3. PICK x \in S : t = n - x
  OBVIOUS
<1>4. \A y \in S : x >= y
  <2> TAKE y \in S
  <2>1. n - y \in T OBVIOUS
  <2> QED BY <2>1, <1>2, <1>3
<1> QED BY <1>4 DEF Max

\* Header::add_entry stores a text of the header or leaves the field empty.
LEMMA IDType ==
    ASSUME NEW h \in Header
    PROVE  ID(h) \in Body \union {NoText}
<1> DEFINE at == {k \in DOMAIN h.entries : h.entries[k].tag \in {"Message-Id"}}
<1>1. CASE at = {}
  BY <1>1 DEF ID, LastBody
<1>2. CASE at # {}
  <2>1. h.entries \in Seq(Entry) BY DEF Header
  <2>2. Len(h.entries) \in Nat /\ at \in SUBSET (1..Len(h.entries))
    BY <2>1
  <2>3. Max(at) \in at BY <1>2, <2>2, MaxOfInterval
  <2>4. h.entries[Max(at)].body \in Body
    <3>1. Max(at) \in 1..Len(h.entries) BY <2>2, <2>3
    <3>2. h.entries[Max(at)] \in Entry
      <4> HIDE DEF at
      <4> QED BY <2>1, <3>1
    <3> QED BY <3>2 DEF Entry
  <2> QED BY <1>2, <2>4 DEF ID, LastBody
<1> QED BY <1>1, <1>2

\* is_weed returns 0 or 1, the only results POP3::scan distinguishes.
LEMMA is_weedType ==
    ASSUME NEW p, NEW ids, NEW h
    PROVE  is_weed(p, ids, h) \in {0, 1}
BY DEF is_weed

\* With no limit and no score for sizes is_weed gives one verdict for one text.
LEMMA SameLines ==
    ASSUME NEW p, SizeBlind(p), NEW h, NEW g, h.entries = g.entries
    PROVE  /\ ID(h) = ID(g)
           /\ WeedByRules(p, h) = WeedByRules(p, g)
           /\ \A ids : is_weed(p, ids, h) = is_weed(p, ids, g)
<1>1. Lines(h) = Lines(g) /\ ID(h) = ID(g) /\ normal_subject(h) = normal_subject(g)
  BY DEF Lines, ID, normal_subject, LastBody
<1>2. \A e, l : MatchesEither(p, e, h, l) = MatchesEither(p, e, g, l)
  BY <1>1, Zenon DEF MatchesEither, MatchesNormalised
<1>3. check_allow_rules(p, h) = check_allow_rules(p, g)
  <2>1. Allowed(p, h) = Allowed(p, g) /\ NegativelyAllowed(p, h) = NegativelyAllowed(p, g)
    BY <1>1, Zenon DEF Allowed, NegativelyAllowed, Unmatched
  <2>2. ~MaxsizeAllowExceeded(p, h) /\ ~MaxsizeAllowExceeded(p, g)
    BY DEF MaxsizeAllowExceeded, SizeBlind
  <2> QED BY <2>1, <2>2, Zenon DEF check_allow_rules
<1>4. check_maxlength(p, h) = check_maxlength(p, g)
  BY <1>1, Zenon DEF check_maxlength
<1>5. check_deny_rules(p, h) = check_deny_rules(p, g)
  <2>1. \A e : {l \in Lines(h) : MatchesEither(p, e, h, l)} = {l \in Lines(g) : MatchesEither(p, e, g, l)}
    BY <1>1, <1>2
  <2>2. Denied(p, h) = Denied(p, g) BY <1>1, <1>2, Zenon DEF Denied
  <2>3. NegativelyDenied(p, h) = NegativelyDenied(p, g)
    BY <1>1, <2>1, Zenon DEF NegativelyDenied, Unmatched
  <2>4. ~MaxsizeDenyExceeded(p, h) /\ ~MaxsizeDenyExceeded(p, g)
    BY DEF MaxsizeDenyExceeded, SizeBlind
  <2> QED BY <2>2, <2>3, <2>4, Zenon DEF check_deny_rules
<1>6. check_scores(p, h) = check_scores(p, g)
  <2>1. \A f : FilterScore(p, h, f) = FilterScore(p, g, f)
    <3> TAKE f
    <3>1. {l \in Lines(h) : MatchesEither(p, f.expr, h, l)} = {l \in Lines(g) : MatchesEither(p, f.expr, g, l)}
      BY <1>1, <1>2
    <3>2. {k \in DOMAIN h.entries : MatchesEither(p, f.expr, h, h.entries[k])}
            = {k \in DOMAIN g.entries : MatchesEither(p, f.expr, g, g.entries[k])}
      BY <1>2
    <3> QED BY <1>1, <3>1, <3>2, Zenon DEF FilterScore, Unmatched
  <2>2. [i \in DOMAIN p.scores |-> FilterScore(p, h, p.scores[i])]
          = [i \in DOMAIN p.scores |-> FilterScore(p, g, p.scores[i])]
    BY <2>1
  <2>3. SizeScore(p, h) = 0 /\ SizeScore(p, g) = 0 BY DEF SizeScore, SizeBlind
  <2> QED BY <2>2, <2>3, Zenon DEF check_scores, msg_score
<1>7. WeedByRules(p, h) = WeedByRules(p, g)
  BY <1>3, <1>4, <1>5, <1>6, Zenon DEF WeedByRules
<1>8. \A ids : is_weed(p, ids, h) = is_weed(p, ids, g)
  <2>1. \A ids : check_duplicates(p, ids, h) = check_duplicates(p, ids, g)
    BY <1>1, Zenon DEF check_duplicates
  <2> QED BY <1>7, <2>1, Zenon DEF is_weed
<1> QED BY <1>1, <1>7, <1>8
=============================================================================
