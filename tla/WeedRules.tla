------------------------------ MODULE WeedRules ------------------------------
(***************************************************************************)
(* The rules by which Weeder (src/src/weeder.cc) decides that a message is  *)
(* deleted, as operators on a header and on the user's preferences.         *)
(*                                                                         *)
(* A header is [entries, size]: the lines the parser stored with            *)
(* Header::add_entry, in order, and the size POP3::scan read from the LIST   *)
(* reply.  A line is a struct entry [tag, body].  The tag is one of          *)
(*   "Message-Id"  in any capitalisation (Header::add_entry ignores case)   *)
(*   "Subject"     in exactly this capitalisation                           *)
(*   "SUBJECT"     in any other capitalisation                              *)
(*   "other"       everything else.                                         *)
(* A filter is [expr, negative], a score filter [expr, negative, score]:     *)
(* expr is the compiled expression, its case flag included.                  *)
(***************************************************************************)
EXTENDS Integers, Sequences, FiniteSets, FiniteSetsExt, SequencesExt

CONSTANTS
    Body,           \* the texts a header line can carry
    NoText,         \* the empty text: a field the message does not have
    Expr,           \* compiled filter expressions
    Regexec,        \* the pairs <<expr, line>> for which regexec finds a match
    RegexecNormal,  \* the same for the normalised text of a subject
    Length          \* Length[line] is the length of "tag: body"

Tag == {"Message-Id", "Subject", "SUBJECT", "other"}

\* struct entry: one unfolded line of a message header.
Entry == [tag : Tag, body : Body]

Header == [entries : Seq(Entry), size : Nat]

Filter == [expr : Expr, negative : BOOLEAN]
Score  == [expr : Expr, negative : BOOLEAN, score : Int]

\* The part of class Preferences the weeder reads.
Preferences ==
    [allows : Seq(Filter), denies : Seq(Filter), scores : Seq(Score),
     high_score : Int, max_size_friends : Int, max_size : Int,
     size_score : [score : Int, size : Int], max_line_length : Int,
     norm : BOOLEAN, del_duplicates : BOOLEAN]

ASSUME RulesAssumption ==
    /\ NoText \notin Body
    /\ Regexec \subseteq Expr \X Entry
    /\ RegexecNormal \subseteq Expr \X Body
    /\ Length \in [Entry -> Nat]

(***************************************************************************)
(* Header::add_entry: every Message-Id line overwrites msg_ID, every subject *)
(* line overwrites msg_normal_subject.                                       *)
(***************************************************************************)
LastBody(h, tags) ==
    LET at == {k \in DOMAIN h.entries : h.entries[k].tag \in tags}
    IN  IF at = {} THEN NoText ELSE h.entries[Max(at)].body

ID(h) == LastBody(h, {"Message-Id"})
normal_subject(h) == LastBody(h, {"Subject", "SUBJECT"})

----------------------------------------------------------------------------
Matches(e, l) == <<e, l>> \in Regexec

\* A deny or score expression is also tried on the normalised subject, on a
\* line whose tag is spelled exactly "Subject" (strcmp).
MatchesNormalised(p, e, h, l) ==
    /\ p.norm
    /\ l.tag = "Subject"
    /\ <<e, normal_subject(h)>> \in RegexecNormal

MatchesEither(p, e, h, l) == Matches(e, l) \/ MatchesNormalised(p, e, h, l)

Lines(h) == ToSet(h.entries)

\* weeder.cc tests a negative filter at the last line only: on a header
\* without lines no negative filter ever applies.
Unmatched(h, hits) == Lines(h) # {} /\ Lines(h) \intersect hits = {}

----------------------------------------------------------------------------
(***************************************************************************)
(* Weeder::check_duplicates.  ids is msg_ids: the IDs of all the headers     *)
(* examined since the program started, whatever became of their messages.    *)
(***************************************************************************)
\* Mutants of check_duplicates: friends are tested before the duplicates; the ID is
\* recorded before it is looked for.
DuplicateUnlessAllowed(p, ids, h) ==
    IF /\ ID(h) # NoText /\ p.del_duplicates /\ ID(h) \in ids
       /\ \A f \in ToSet(p.allows), l \in Lines(h) : ~Matches(f.expr, l)
    THEN 1 ELSE 0
DuplicateOfItself(p, ids, h) ==
    IF p.del_duplicates /\ ID(h) \in (ids \union {ID(h)}) \ {NoText} THEN 1 ELSE 0

check_duplicates(p, ids, h) ==
    IF /\ ID(h) # NoText
       /\ p.del_duplicates
       /\ ID(h) \in ids
    THEN 1 ELSE 0

\* Mutant of Remember: headers without an ID are recorded too.
RememberNoText(p, ids, h) == IF p.del_duplicates THEN ids \union {ID(h)} ELSE ids

\* The value msg_ids has after the call.
Remember(p, ids, h) ==
    IF p.del_duplicates /\ ID(h) # NoText THEN ids \union {ID(h)} ELSE ids

(***************************************************************************)
(* Weeder::check_allow_rules: 0 for a friend, 1 for a friend that is too     *)
(* large, 2 when no ALLOW rule applies.  Subjects are not normalised here    *)
(* and a negative rule does not look at the size.                            *)
(***************************************************************************)
Allowed(p, h) ==
    \E f \in ToSet(p.allows), l \in Lines(h) : ~f.negative /\ Matches(f.expr, l)

NegativelyAllowed(p, h) ==
    \E f \in ToSet(p.allows) :
        f.negative /\ Unmatched(h, {l \in Lines(h) : Matches(f.expr, l)})

MaxsizeAllowExceeded(p, h) ==
    p.max_size_friends > 0 /\ h.size > p.max_size_friends

check_allow_rules(p, h) ==
    CASE Allowed(p, h) /\ MaxsizeAllowExceeded(p, h)  -> 1
      [] Allowed(p, h) /\ ~MaxsizeAllowExceeded(p, h) -> 0
      [] ~Allowed(p, h) /\ NegativelyAllowed(p, h)    -> 0
      [] ~Allowed(p, h) /\ ~NegativelyAllowed(p, h)   -> 2

\* Weeder::check_maxlength.  A negative limit is cast to unsigned and becomes
\* one that no line exceeds.
check_maxlength(p, h) ==
    IF /\ p.max_line_length > 0
       /\ \E l \in Lines(h) : Length[l] > p.max_line_length
    THEN 1 ELSE 0

\* Weeder::check_deny_rules.
MaxsizeDenyExceeded(p, h) == p.max_size > 0 /\ h.size > p.max_size

Denied(p, h) ==
    \E f \in ToSet(p.denies), l \in Lines(h) :
        ~f.negative /\ MatchesEither(p, f.expr, h, l)

NegativelyDenied(p, h) ==
    \E f \in ToSet(p.denies) :
        f.negative /\ Unmatched(h, {l \in Lines(h) : MatchesEither(p, f.expr, h, l)})

check_deny_rules(p, h) ==
    IF MaxsizeDenyExceeded(p, h) \/ Denied(p, h) \/ NegativelyDenied(p, h)
    THEN 1 ELSE 0

(***************************************************************************)
(* Weeder::check_scores: a positive filter counts once per line it matches,  *)
(* a negative one once if it matches no line.                                *)
(***************************************************************************)
SizeScore(p, h) ==
    IF /\ p.size_score.score # 0
       /\ p.size_score.size > 0
       /\ h.size > p.size_score.size
    THEN p.size_score.score ELSE 0

FilterScore(p, h, f) ==
    IF f.negative
    THEN IF Unmatched(h, {l \in Lines(h) : MatchesEither(p, f.expr, h, l)})
         THEN f.score ELSE 0
    ELSE f.score * Cardinality({k \in DOMAIN h.entries :
                                   MatchesEither(p, f.expr, h, h.entries[k])})

msg_score(p, h) ==
    SizeScore(p, h)
      + SumFunction([i \in DOMAIN p.scores |-> FilterScore(p, h, p.scores[i])])

check_scores(p, h) == IF msg_score(p, h) >= p.high_score THEN 1 ELSE 0

(***************************************************************************)
(* Weeder::is_weed: what the rules alone say of a header, and with the       *)
(* duplicates of the headers seen before.                                    *)
(***************************************************************************)
\* Mutant of WeedByRules: an ALLOW rule does not end the examination.
WeedByAnyRule(p, h) ==
    \/ check_allow_rules(p, h) = 1
    \/ check_maxlength(p, h) = 1
    \/ check_deny_rules(p, h) = 1

WeedByRules(p, h) ==
    \/ check_allow_rules(p, h) = 1
    \/ /\ check_allow_rules(p, h) = 2
       /\ \/ check_maxlength(p, h) = 1
          \/ check_deny_rules(p, h) = 1
          \/ check_scores(p, h) = 1

\* Mutant of is_weed: every result but 0 of check_allow_rules means spam.
WeedUnlessFriend(p, ids, h) ==
    IF check_duplicates(p, ids, h) = 1 \/ check_allow_rules(p, h) # 0 THEN 1 ELSE 0

is_weed(p, ids, h) ==
    IF check_duplicates(p, ids, h) = 1 \/ WeedByRules(p, h) THEN 1 ELSE 0

\* With no limit and no score for sizes the rules see nothing of a header but its lines.
SizeBlind(p) == p.max_size = 0 /\ p.max_size_friends = 0 /\ p.size_score.size = 0
=============================================================================
