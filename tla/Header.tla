-------------------------------- MODULE Header --------------------------------
(***************************************************************************)
(* The class Header (src/src/header.cc): add_entry, with which the parser      *)
(* stores a field of a message header, and the loop of set_normal_subject,     *)
(* which edits the subject in place.                                          *)
(*                                                                         *)
(* A text is a sequence of kinds of characters: "a" for letters and digits,    *)
(* " " and "t" for a blank and any other white space, "@", "<", ">", and "."   *)
(* for everything else.                                                      *)
(***************************************************************************)
EXTENDS Integers, Sequences, FiniteSets, FiniteSetsExt, SequencesExt

CONSTANT Configs      \* [normal, ignore_time_stamp] of Preferences

Char == {"a", " ", "t", "@", "<", ">", "."}
Tag == {"Message-Id", "Subject", "From", "To", "Date", "other"}
Member == Tag \ {"other"}

ASSUME ConfigsAssumption ==
    Configs \subseteq [normal : BOOLEAN, ignore_time_stamp : BOOLEAN]

VARIABLES
    cfg,
    entries,         \* msg_entries: [tag, body, lines], lines being history
    members,         \* msg_ID, msg_subject, msg_from, msg_to, msg_date
    normal_subject,  \* msg_normal_subject without its "Subject: "
    ssubject, i,     \* the loop of set_normal_subject
    normalising,     \* the loop is running
    result           \* of invoke_msg_parser: "none", "ok", "failed" or "exit"

headerVars == <<cfg, entries, members, normal_subject, ssubject, i, normalising, result>>

HeaderInit ==
    /\ cfg \in Configs
    /\ entries = <<>>
    /\ members = [t \in Member |-> <<>>]
    /\ normal_subject = <<>> /\ ssubject = <<>> /\ i = 0 /\ normalising = FALSE
    /\ result = "none"
----------------------------------------------------------------------------
\* "<", something with an "@", ">"; the test for characters above 127 is never true
\* of a signed char.
rfc822_valid_msgid(msgid) ==
    /\ Len(msgid) >= 5
    /\ msgid[1] = "<" /\ msgid[Len(msgid)] = ">"
    /\ Contains(msgid, "@")

Refused(tag, body) ==
    tag = "Message-Id" /\ ~cfg.ignore_time_stamp /\ ~rfc822_valid_msgid(body)

\* set_ID, set_subject, set_from, set_to, set_date.
SetMember(tag, body) ==
    members' = IF tag \in Member THEN [members EXCEPT ![tag] = body] ELSE members

(***************************************************************************)
(* The entry is stored first; a Message-ID that is refused throws              *)
(* WrongMessageIDException, on which invoke_msg_parser fails; a subject may    *)
(* have to be normalised before add_entry returns.                           *)
(***************************************************************************)
add_entry(tag, body, lines) ==
    /\ entries' = Append(entries, [tag |-> tag, body |-> body, lines |-> lines])
    /\ IF Refused(tag, body)
       THEN /\ result' = "failed"
            /\ UNCHANGED <<members, ssubject, i, normalising>>
       ELSE /\ SetMember(tag, body)
            /\ IF tag = "Subject" /\ cfg.normal
               THEN ssubject' = body /\ i' = 0 /\ normalising' = TRUE
               ELSE UNCHANGED <<ssubject, i, normalising>>
            /\ UNCHANGED result
    /\ UNCHANGED <<cfg, normal_subject>>
----------------------------------------------------------------------------
(***************************************************************************)
(* set_normal_subject.  The string is indexed from 0, and the character        *)
(* behind the last one reads as '\0', which is no space.                      *)
(***************************************************************************)
isspace(k) == k < Len(ssubject) /\ ssubject[k + 1] \in {" ", "t"}
Kept(c) == c \in {"a", "@", " ", "t"}
Erased == RemoveAt(ssubject, i + 1)

InLoop == normalising /\ i < Len(ssubject)
Loop(s, k) ==
    /\ ssubject' = s /\ i' = k
    /\ UNCHANGED <<cfg, entries, members, normal_subject, normalising, result>>

\* Two spaces: the first goes.
EraseSpace == InLoop /\ isspace(i) /\ isspace(i + 1) /\ Loop(Erased, i)

AtOther == InLoop /\ ~(isspace(i) /\ isspace(i + 1)) /\ ~Kept(ssubject[i + 1])

\* Mutants of EraseOther: the index steps below 0, stays where it is, or nothing is
\* erased.
EraseBelowZero == AtOther /\ Loop(Erased, i - 1)
EraseAndStay == AtOther /\ Loop(Erased, i)
StepBackOnly == AtOther /\ Loop(ssubject, IF i > 0 THEN i - 1 ELSE 0)

\* Any other character goes, and the one before it is looked at again: it may be a
\* space that now has another one behind it.
EraseOther == AtOther /\ Loop(Erased, IF i > 0 THEN i - 1 ELSE 0)

KeepCharacter ==
    /\ InLoop /\ ~(isspace(i) /\ isspace(i + 1)) /\ Kept(ssubject[i + 1])
    /\ Loop(ssubject, i + 1)

Normalised ==
    /\ normalising /\ i >= Len(ssubject)
    /\ normal_subject' = ssubject /\ normalising' = FALSE
    /\ UNCHANGED <<cfg, entries, members, ssubject, i, result>>

Normalise == EraseSpace \/ EraseOther \/ KeepCharacter \/ Normalised
----------------------------------------------------------------------------
HeaderTypeOK ==
    /\ cfg \in Configs
    /\ entries \in Seq([tag : Tag, body : Seq(Char), lines : Seq(Nat)])
    /\ members \in [Member -> Seq(Char)]
    /\ ssubject \in Seq(Char) /\ normal_subject \in Seq(Char)
    /\ i \in 0..Len(ssubject)
    /\ normalising \in BOOLEAN
    /\ result \in {"none", "ok", "failed", "exit"}

\* The normal form of a text: its characters that are kept, but of a run of white space
\* only the last one, whatever was between.
Space(c) == c \in {" ", "t"}
Stays(text, k) ==
    /\ Kept(text[k])
    /\ ~ \E m \in (k + 1)..Len(text) :
            /\ Space(text[k]) /\ Space(text[m])
            /\ \A j \in (k + 1)..(m - 1) : ~Kept(text[j])
IsNormalForm(s, text) ==
    LET P == {k \in DOMAIN text : Stays(text, k)}
    IN  /\ Len(s) = Cardinality(P)
        /\ \A k \in P : s[Cardinality({j \in P : j <= k})] = text[k]

LastOf(tag) ==
    LET at == {k \in DOMAIN entries : entries[k].tag = tag}
    IN  IF at = {} THEN <<>> ELSE entries[Max(at)].body
=============================================================================
