------------------------------ MODULE MCRcfile ------------------------------
(***************************************************************************)
(* Small rcfiles: rules and includes, options against statements, account     *)
(* blocks with lines missing, and places where the file may be.               *)
(***************************************************************************)
EXTENDS Rcfile

Set(key, val) == [key |-> key, val |-> val]
Bare(key) == Set(key, "")
Rule(key, ccase, operat, id) == [key |-> key, ccase |-> ccase, operat |-> operat, id |-> id]

MCCompiles == {<<"plain", "basic">>, <<"plain", "extended">>, <<"a{", "basic">>}
MCSizeScores == {"0", "garbage"}
MCBadWords == {"a b"}

Option1(o, v) == [opt |-> o, optarg |-> v]
Log == Option1("L", "log")

Run(options, main, sub) ==
    [argv |-> options, home |-> TRUE, writable |-> {"log", "log2"},
     files |-> (Home :> main) @@ ("sub" :> sub)]
Lines(S, n) == BoundedSeq(S, n)

\* Rules, their case, their compilation, and an included file in any place.
RuleLines == {Set("reg_case", "yes"), Rule("deny", "default", "=", "plain"),
              Rule("score", "nocase", "<>", "a{"), Set("include", "sub"), Bare("junk"), Bare("open")}
SubFiles == {<<>>, <<Set("reg_case", "yes")>>, <<Rule("deny", "default", "<>", "plain"), Bare("rem")>>,
             <<Set("include", Home)>>, <<Bare("rem"), Bare("junk")>>, <<Bare("open")>>}
RuleRuns == {Run(<<Log>>, m, s) : m \in Lines(RuleLines, 3), s \in SubFiles}
TypeRuns == {Run(<<Log>>, m, <<>>) :
               m \in Lines({Set("reg_type", "extended"), Set("reg_type", "perl"), Set("reg_case", "no"),
                            Set("reg_case", "yes"), Rule("allow", "case", "<>", "a{"),
                            Rule("score", "default", "=", "plain"), Bare("rem"), Bare("shell")}, 3)}

\* Options and statements for the same thing.
Options == {Option1("t", ""), Option1("v", "9"), Log, Option1("L", "a b"), Option1("L", "none"),
            Option1("r", ""), Option1("h", "")}
Statements == {Set("test", "no"), Set("verbose", "1"), Set("logfile", "log2"), Set("logfile", "a b"),
               Set("show_headers", "x"), Set("show_headers", "a b"), Set("maxsize_score", "5")}
OptionRuns == {Run(o, m, <<>>) : o \in Lines(Options, 2), m \in Lines(Statements, 2)}

\* Account blocks: two blocks of which any lines may be missing, the second perhaps
\* in the included file.
BlockLines(a) == <<Set("server", a), Set("user", a), Set("pass", a), Set("protocol", "pop3"), Set("port", a)>>
Parts(b) == {SelectSeq(b, LAMBDA l : l.key \in keys) : keys \in SUBSET AccountKey}
WholeRuns ==
    {Run(<<Log>>, BlockLines("1") \o b, <<>>) : b \in Parts(BlockLines("2"))}
    \union {Run(<<Log>>, BlockLines("1") \o <<Set("include", "sub")>> \o BlockLines("3"), BlockLines("2"))}
    \union {Run(<<Log>>, <<Set("protocol", "imap")>> \o BlockLines("1"), <<>>)}
BlockRuns == WholeRuns \union {Run(<<Log>>, a \o BlockLines("2"), <<>>) : a \in Parts(BlockLines("1"))}

\* Where the rcfile is.
PlaceRuns ==
    {[argv |-> o \o <<Log>>, home |-> h, writable |-> {"log"}, files |-> f] :
        o \in {<<>>, <<Option1("M", "mine")>>}, h \in BOOLEAN,
        f \in {Home :> <<>>, HomeWin :> <<>>, "mine" :> <<Bare("rem")>>, <<>>,
               Home :> <<Set("include", Home)>>, Home :> <<Bare("rem"), Set("include", "nowhere")>>}}

MCWorlds == RuleRuns \union TypeRuns \union OptionRuns \union BlockRuns \union PlaceRuns
=============================================================================
