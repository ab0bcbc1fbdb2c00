-------------------------------- MODULE Rcfile --------------------------------
(***************************************************************************)
(* From the start of main (src/src/mailfilter.cc) to the first account: the   *)
(* command line, the rcfile with the files it includes, the log file and the  *)
(* compilation of the filters.  What this leaves in the class Preferences is   *)
(* what the weeder and the sessions obey.                                     *)
(*                                                                         *)
(* The rcfile is a sequence of lines.  A line is one of                       *)
(*   a rule       [key, ccase, operat, id]: ALLOW, DENY or SCORE, with the     *)
(*                suffix _CASE, _NOCASE or none, "=" or "<>", an expression    *)
(*   a statement  [key, val]                                                  *)
(*   an include   [key |-> "include", val |-> the path]                       *)
(*   "rem"        a remark or nothing                                         *)
(*   "junk"       a term the scanner does not know                            *)
(*   "open"       a quoted argument that the line does not close, for the     *)
(*                closing quote must be the last thing before the newline      *)
(*   "shell"      a statement with a command in backquotes that prints nothing *)
(* The scanner (rcfile.ll) and the parser (rcfile.yy) work in step: a          *)
(* statement takes effect when its last token has been read.  Every line of a   *)
(* file ends in a newline.                                                   *)
(***************************************************************************)
EXTENDS Integers, Sequences, FiniteSets, FiniteSetsExt, SequencesExt, Measures

CONSTANTS
    Worlds,      \* what the program may be started with: argv, a sequence of options
                 \* [opt, optarg]; home, whether HOME is set; files, the lines of every
                 \* file that can be opened; writable, the log files that can
    BadWords,    \* file names that wordexp refuses
    Compiles,    \* the pairs <<id, type>> that regcomp accepts
    SizeScores   \* what the memory of size_score may hold before it is set

\* The files in $HOME.
Home == "~/.mailfilterrc"
HomeWin == "~/_mailfilterrc"

Rules == {"allow", "deny", "score"}

\* Statements that set a value, whatever it was.
Setting == {"del_duplicates", "normal", "highscore", "timeout", "maxlength",
            "maxsize_allow", "maxsize_deny", "maxsize_score", "show_headers"}
\* Statements that count only if the value was not set before.
Sticky == {"test", "verbose", "logfile"}
AccountKey == {"server", "user", "pass", "protocol", "port"}
Protocols == {"pop3", "apop", "pop3/ssl", "apop/ssl"}
RegTypes == {"basic", "extended"}

\* The lines of a file.
RuleLine == [key : Rules, ccase : {"default", "case", "nocase"}, operat : {"=", "<>"}, id : STRING]
OtherLine == [key : STRING \ Rules, val : STRING]

\* The values that the program itself provides are texts.
ASSUME ValuesAssumption ==
    {"", "none", "no", "yes", "0", "3", "30", "100", Home, HomeWin} \subseteq STRING

ASSUME WorldsAssumption ==
    /\ BadWords \subseteq STRING
    /\ SizeScores \subseteq STRING /\ SizeScores # {}
    /\ \A w \in Worlds :
          /\ w.argv \in Seq([opt : STRING, optarg : STRING])
          /\ DOMAIN w.files \subseteq STRING
          /\ \A f \in DOMAIN w.files : w.files[f] \in Seq(RuleLine \union OtherLine)

VARIABLES
    world,           \* what the program was started with
    phase,           \* "options", "parse", "log", "compile", "check" or "exit"
    argv,            \* the options not looked at yet
    prefs,           \* the one instance of Preferences
    input,           \* the files being read, innermost last: [file, line]
    within,          \* the parser is in the middle of a statement
    num_lines, temp_num_lines, sub_file,   \* globals of the scanner
    compiled,        \* how many filters are compiled
    report           \* the place an error message names

vars == <<world, phase, argv, prefs, input, within, num_lines, temp_num_lines,
          sub_file, compiled, report>>
scanner == <<input, within, num_lines, temp_num_lines, sub_file>>

NoReport == [file |-> "", line |-> 0]
NoAccount == [k \in AccountKey |-> "none"]

\* The constructor.  It leaves size_score and the members of cur_account as they are.
Defaults ==
    [s \in Setting \ {"maxsize_score"} |->
        CASE s = "highscore" -> "100" [] s = "timeout" -> "30"
          [] s \in {"del_duplicates", "normal"} -> "no"
          [] s = "show_headers" -> ""
          [] OTHER -> "0"]

Preferences(size_score) ==
    [settings |-> [s \in Setting |-> IF s = "maxsize_score" THEN size_score ELSE Defaults[s]],
     sticky |-> [s \in Sticky |-> CASE s = "test" -> "no" [] s = "verbose" -> "3" [] s = "logfile" -> ""],
     changed |-> {}, icase |-> "nocase", reg_type |-> "basic", rc_file |-> "",
     flags |-> {}, filters |-> [r \in Rules |-> <<>>], negatives |-> [r \in Rules |-> 0],
     cur_account |-> NoAccount, accounts |-> <<>>]

Init ==
    /\ world \in Worlds
    /\ phase = "options" /\ argv = world.argv
    /\ \E s \in SizeScores : prefs = Preferences(s)
    /\ input = <<>> /\ within = FALSE
    /\ num_lines = 0 /\ temp_num_lines = 0 /\ sub_file = ""
    /\ compiled = 0 /\ report = NoReport

Exit ==
    /\ phase' = "exit"
    /\ UNCHANGED <<world, argv, prefs, scanner, compiled>>

\* exit (-1) with a message that names a place in a file.
ExitHere == Exit /\ report' = [file |-> sub_file, line |-> num_lines + 1]
ExitQuietly == Exit /\ UNCHANGED report
----------------------------------------------------------------------------
(***************************************************************************)
(* Preferences: the member functions that the command line and the parser    *)
(* call.  Each returns the preferences after the call.                       *)
(***************************************************************************)

\* Mutant: the last call counts.
SetAnyway(p, key, val) == [p EXCEPT !.sticky[key] = val]

\* set_test_mode, set_verbose_level, set_log_file: the first call counts.
SetSticky(p, key, val) ==
    IF key \in p.changed THEN p
    ELSE [p EXCEPT !.sticky[key] = val, !.changed = @ \union {key}]

\* wordexp in set_log_file, which is not called for a name that does not count.
RefusedSticky(p, key, val) == key = "logfile" /\ key \notin p.changed /\ val \in BadWords

\* Mutant: the suffix of the keyword is forgotten once REG_CASE is "yes".
AddRuleByDefault(p, l) ==
    [p EXCEPT !.filters[l.key] =
                  Append(@, [id |-> l.id, negative |-> l.operat # "=",
                             ccase |-> IF p.icase = "case" THEN "case"
                                       ELSE IF l.ccase = "default" THEN p.icase ELSE l.ccase]),
              !.negatives[l.key] = IF l.operat = "=" THEN @ ELSE @ + 1]

\* add_allow_rule, add_deny_rule, add_score.
AddRule(p, l) ==
    [p EXCEPT !.filters[l.key] =
                  Append(@, [id |-> l.id, negative |-> l.operat # "=",
                             ccase |-> IF l.ccase = "default" THEN p.icase ELSE l.ccase]),
              !.negatives[l.key] = IF l.operat = "=" THEN @ ELSE @ + 1]

set_default_case(p, val) == [p EXCEPT !.icase = IF val = "yes" THEN "case" ELSE "nocase"]

\* set_server, set_usr, set_passwd, set_protocol with set_connection: all write to
\* the one cur_account.
SetAccount(p, key, val) == [p EXCEPT !.cur_account[key] = val]

\* Mutant: the account is pushed before its port is set.
PushThenSet(p, val) ==
    [p EXCEPT !.accounts = Append(@, p.cur_account), !.cur_account["port"] = val]

\* The last instruction of an account block pushes a copy of cur_account.
set_port(p, val) ==
    LET a == [p.cur_account EXCEPT !["port"] = val]
    IN  [p EXCEPT !.cur_account = a, !.accounts = Append(@, a)]
----------------------------------------------------------------------------
(***************************************************************************)
(* get_opts                                                                *)
(***************************************************************************)
OptionKey == [t |-> "test", v |-> "verbose", L |-> "logfile"]
Flags == {"i", "r", "s"}     \* ignore-time-stamps, return-value, skip-ssl-verify

Option ==
    /\ phase = "options" /\ argv # <<>>
    /\ LET o == Head(argv).opt
           val == IF o = "t" THEN "yes" ELSE Head(argv).optarg
       IN  \/ /\ o \in DOMAIN OptionKey
              /\ ~RefusedSticky(prefs, OptionKey[o], val)
              /\ prefs' = SetSticky(prefs, OptionKey[o], val)
           \/ o \in Flags /\ prefs' = [prefs EXCEPT !.flags = @ \union {o}]
           \/ o = "M" /\ prefs' = [prefs EXCEPT !.rc_file = val]
    /\ argv' = Tail(argv)
    /\ UNCHANGED <<world, phase, scanner, compiled, report>>

\* -h and -V end the program, and so do an unknown option and a name for the log
\* file that cannot be expanded.
OptionExits ==
    /\ phase = "options" /\ argv # <<>>
    /\ \/ Head(argv).opt \notin DOMAIN OptionKey \union Flags \union {"M"}
       \/ Head(argv).opt = "L" /\ RefusedSticky(prefs, "logfile", Head(argv).optarg)
    /\ ExitQuietly
----------------------------------------------------------------------------
(***************************************************************************)
(* Preferences::open and Preferences::load.  When ~/.mailfilterrc cannot be   *)
(* opened the name of the other file is stored, but nothing opens it.         *)
(***************************************************************************)
RcName == IF prefs.rc_file = "" THEN Home ELSE prefs.rc_file
CanOpen == (prefs.rc_file = "" => world.home) /\ RcName \in DOMAIN world.files

Open ==
    /\ phase = "options" /\ argv = <<>>
    /\ CanOpen
    /\ prefs' = [prefs EXCEPT !.rc_file = RcName]
    /\ input' = <<[file |-> RcName, line |-> 1]>>
    /\ phase' = "parse"
    /\ UNCHANGED <<world, argv, within, num_lines, temp_num_lines, sub_file, compiled, report>>

OpenFails ==
    /\ phase = "options" /\ argv = <<>>
    /\ ~CanOpen
    /\ phase' = "exit"
    /\ prefs' = IF prefs.rc_file = "" /\ world.home THEN [prefs EXCEPT !.rc_file = HomeWin] ELSE prefs
    /\ UNCHANGED <<world, argv, scanner, compiled, report>>
----------------------------------------------------------------------------
(***************************************************************************)
(* The scanner's place.                                                    *)
(***************************************************************************)
Place == input[Len(input)]
Text == world.files[Place.file]
AtEnd == Place.line > Len(Text)
Line == Text[Place.line]

Scanning(key) == phase = "parse" /\ ~AtEnd /\ Line.key = key
Statement(key) == Scanning(key) /\ ~within

\* The newline: the next line of the same file.
Newline ==
    /\ input' = [input EXCEPT ![Len(input)].line = @ + 1]
    /\ num_lines' = num_lines + 1
    /\ UNCHANGED <<temp_num_lines, sub_file>>

Effect(p) ==
    /\ prefs' = p
    /\ Newline
    /\ UNCHANGED <<world, phase, argv, within, compiled, report>>
----------------------------------------------------------------------------
(***************************************************************************)
(* The statements.                                                         *)
(***************************************************************************)
AddFilter == \E key \in Rules : Statement(key) /\ Effect(AddRule(prefs, Line))

SetValue ==
    \E key \in Setting :
        /\ Statement(key)
        /\ ~(key = "show_headers" /\ Line.val \in BadWords)
        /\ Effect([prefs EXCEPT !.settings[key] = Line.val])

SetOnce ==
    \E key \in Sticky :
        /\ Statement(key)
        /\ ~RefusedSticky(prefs, key, Line.val)
        /\ Effect(SetSticky(prefs, key, Line.val))

SetCase == Statement("reg_case") /\ Effect(set_default_case(prefs, Line.val))

SetRegType ==
    /\ Statement("reg_type") /\ Line.val \in RegTypes
    /\ Effect([prefs EXCEPT !.reg_type = Line.val])

SetAccountField ==
    \E key \in AccountKey \ {"port"} :
        /\ Statement(key)
        /\ key = "protocol" => Line.val \in Protocols
        /\ Effect(SetAccount(prefs, key, Line.val))

SetPort == Statement("port") /\ Effect(set_port(prefs, Line.val))

\* Values for which the setter exits, and exec_shell without an answer.
StatementExits ==
    /\ \/ Statement("reg_type") /\ Line.val \notin RegTypes
       \/ Statement("protocol") /\ Line.val \notin Protocols
       \/ Statement("show_headers") /\ Line.val \in BadWords
       \/ Statement("logfile") /\ RefusedSticky(prefs, "logfile", Line.val)
       \/ Statement("shell")
    /\ ExitQuietly

Remark ==
    /\ Scanning("rem")
    /\ Effect(prefs)

\* The rest of the line is taken for the argument, the parser waits for its end.
OpenArgument ==
    /\ Statement("open")
    /\ within' = TRUE
    /\ Newline
    /\ UNCHANGED <<world, phase, argv, prefs, compiled, report>>

\* A term nobody knows, or any other statement where the closing quote is missing.
LexicalOrSyntaxError ==
    /\ \/ Scanning("junk")
       \/ phase = "parse" /\ ~AtEnd /\ within /\ Line.key \notin {"rem", "include"}
    /\ ExitHere
----------------------------------------------------------------------------
(***************************************************************************)
(* Files within files.  The scanner follows an include wherever it stands,    *)
(* but only from the main rcfile.                                            *)
(***************************************************************************)
MAX_INCLUDE_DEPTH == 1
Depth == Len(input) - 1

Found(path) == path \notin BadWords /\ path \in DOMAIN world.files

Enter(path) ==
    /\ temp_num_lines' = num_lines
    /\ num_lines' = 0
    /\ sub_file' = path
    /\ input' = Append(input, [file |-> path, line |-> 1])
    /\ UNCHANGED <<world, phase, argv, prefs, within, compiled, report>>

\* Mutant: no limit, and the file that includes is not kept for later.
ChainInclude ==
    /\ Scanning("include") /\ Found(Line.val)
    /\ input' = <<[file |-> Line.val, line |-> 1]>>
    /\ temp_num_lines' = num_lines /\ num_lines' = 0 /\ sub_file' = Line.val
    /\ UNCHANGED <<world, phase, argv, prefs, within, compiled, report>>

\* Mutant: no limit.
IncludeAnyDepth == Scanning("include") /\ Found(Line.val) /\ Enter(Line.val)

Include ==
    /\ Scanning("include")
    /\ Depth < MAX_INCLUDE_DEPTH /\ Found(Line.val)
    /\ Enter(Line.val)

\* The messages of these exits name no line.
IncludeFails ==
    /\ Scanning("include")
    /\ Depth >= MAX_INCLUDE_DEPTH \/ ~Found(Line.val)
    /\ ExitQuietly

\* Mutant: the count of the main file's lines is not restored.
LeaveAtLine ==
    /\ phase = "parse" /\ AtEnd /\ Depth > 0
    /\ input' = [Front(input) EXCEPT ![Depth].line = @ + 1]
    /\ num_lines' = num_lines + 1 /\ sub_file' = ""
    /\ UNCHANGED <<world, phase, argv, prefs, within, temp_num_lines, compiled, report>>

\* The end of an included file, and the newline of the line that included it.
Leave ==
    /\ phase = "parse" /\ AtEnd /\ Depth > 0
    /\ input' = [Front(input) EXCEPT ![Depth].line = @ + 1]
    /\ num_lines' = temp_num_lines + 1
    /\ sub_file' = ""
    /\ UNCHANGED <<world, phase, argv, prefs, within, temp_num_lines, compiled, report>>

\* The end of the rcfile.
Finish ==
    /\ phase = "parse" /\ AtEnd /\ Depth = 0 /\ ~within
    /\ phase' = "log"
    /\ UNCHANGED <<world, argv, prefs, scanner, compiled, report>>

FinishWithin ==
    /\ phase = "parse" /\ AtEnd /\ Depth = 0 /\ within
    /\ ExitHere
----------------------------------------------------------------------------
(***************************************************************************)
(* The rest of main before the loop over the accounts.                       *)
(***************************************************************************)
LogName == prefs.sticky["logfile"]
LogOpens == LogName # "" /\ LogName \in world.writable

OpenLog ==
    /\ phase = "log" /\ LogOpens
    /\ phase' = "compile"
    /\ UNCHANGED <<world, argv, prefs, scanner, compiled, report>>

\* No log file, or no handler for SIGINT.
StartFails == phase = "log" /\ ExitQuietly

\* precompile_expressions: all filters with the one reg_type that is set by now.
InOrder == prefs.filters["allow"] \o prefs.filters["deny"] \o prefs.filters["score"]

Compile ==
    /\ phase = "compile" /\ compiled < Len(InOrder)
    /\ <<InOrder[compiled + 1].id, prefs.reg_type>> \in Compiles
    /\ compiled' = compiled + 1
    /\ UNCHANGED <<world, phase, argv, prefs, scanner, report>>

CompileFails ==
    /\ phase = "compile" /\ compiled < Len(InOrder)
    /\ <<InOrder[compiled + 1].id, prefs.reg_type>> \notin Compiles
    /\ ExitQuietly

\* Mutant: the score filters are left out.
CheckTwoLists ==
    /\ phase = "compile"
    /\ compiled = Len(prefs.filters["allow"] \o prefs.filters["deny"])
    /\ phase' = "check"
    /\ UNCHANGED <<world, argv, prefs, scanner, compiled, report>>

Check ==
    /\ phase = "compile" /\ compiled = Len(InOrder)
    /\ phase' = "check"
    /\ UNCHANGED <<world, argv, prefs, scanner, compiled, report>>

Next ==
    \/ Option \/ OptionExits \/ Open \/ OpenFails
    \/ AddFilter \/ SetValue \/ SetOnce \/ SetCase \/ SetRegType
    \/ SetAccountField \/ SetPort \/ StatementExits
    \/ Remark \/ OpenArgument \/ LexicalOrSyntaxError
    \/ Include \/ IncludeFails \/ Leave \/ Finish \/ FinishWithin
    \/ OpenLog \/ StartFails \/ Compile \/ CompileFails \/ Check

\* The program goes on by itself.
Spec == Init /\ [][Next]_vars /\ WF_vars(Next)
----------------------------------------------------------------------------
(***************************************************************************)
(* Properties.  They compare what the program has taken in with the text of   *)
(* the rcfile, each include replaced by the lines of its file.                *)
(*                                                                         *)
(* A text is a function from places to lines: <<m, 0>> is line m of the       *)
(* rcfile, <<m, s>> line s of the file that line m of the rcfile includes.     *)
(***************************************************************************)
Main == world.files[prefs.rc_file]
Included(m) == world.files[Main[m].val]
Places ==
    {<<m, 0>> : m \in {n \in DOMAIN Main : Main[n].key # "include"}}
    \union UNION {{m} \X DOMAIN Included(m) : m \in {n \in DOMAIN Main : Main[n].key = "include"}}
LineAt(p) == IF p[2] = 0 THEN Main[p[1]] ELSE Included(p[1])[p[2]]
WholeText == [p \in Places |-> LineAt(p)]

Before(p, q) == p[1] < q[1] \/ (p[1] = q[1] /\ p[2] < q[2])
IsFirst(p, S) == p \in S /\ \A q \in S : ~Before(q, p)
IsLast(p, S) == p \in S /\ \A q \in S : ~Before(p, q)
Rank(p, S) == Cardinality({q \in S : ~Before(p, q)})

\* The places of the lines with one of these keywords.
Positions(t, keys) == {p \in DOMAIN t : t[p].key \in keys}

WholeFileRead == phase \in {"log", "compile", "check"}

Filter == [id : STRING, negative : BOOLEAN, ccase : {"case", "nocase"}]
Account == [AccountKey -> STRING]
PreferencesType ==
    [settings : [Setting -> STRING], sticky : [Sticky -> STRING], changed : SUBSET Sticky,
     icase : {"case", "nocase"}, reg_type : RegTypes, rc_file : STRING, flags : SUBSET Flags,
     filters : [Rules -> Seq(Filter)], negatives : [Rules -> Nat],
     cur_account : Account, accounts : Seq(Account)]

\* Types: nesting is at most one file deep, and at most that many filters are
\* negative as there are.
TypeOK ==
    /\ phase \in {"options", "parse", "log", "compile", "check", "exit"}
    /\ prefs \in PreferencesType
    /\ Len(input) <= 1 + MAX_INCLUDE_DEPTH
    /\ \A i \in DOMAIN input : input[i].line \in 1..Len(world.files[input[i].file]) + 1
    /\ within \in BOOLEAN
    /\ {num_lines, temp_num_lines, compiled, report.line} \subseteq Nat
    /\ \A r \in Rules : prefs.negatives[r] \in 0..Len(prefs.filters[r])

\* A rule without a suffix obeys the REG_CASE line that stands last before it, in
\* whatever file; the rules of a kind keep their order, which decides which one
\* the log names; and the counts of negative rules are exact (add_allow_rule,
\* add_deny_rule, add_score).  This is the code's promise; the manual's, for which
\* the order of lines does not matter, is KeywordOrderFree below.
CaseBefore(t, p) ==
    IF \E q \in DOMAIN t : /\ IsLast(q, {x \in Positions(t, {"reg_case"}) : Before(x, p)})
                           /\ t[q].val = "yes"
    THEN "case" ELSE "nocase"
AsWritten(t, p) ==
    [id |-> t[p].id, negative |-> t[p].operat = "<>",
     ccase |-> IF t[p].ccase = "default" THEN CaseBefore(t, p) ELSE t[p].ccase]

RulesTaken(t, filters, negatives) ==
    \A r \in Rules :
        LET at == Positions(t, {r})
        IN  /\ Len(filters[r]) = Cardinality(at)
            /\ \A p \in at : filters[r][Rank(p, at)] = AsWritten(t, p)
            /\ negatives[r] = Cardinality({p \in at : t[p].operat = "<>"})

RulesAsWritten ==
    WholeFileRead => RulesTaken(WholeText, prefs.filters, prefs.negatives)

\* The command line goes before the rcfile and the first of several TEST, VERBOSE or
\* LOGFILE lines before the others; of every other statement the last one counts.
OptionsFor(options, n, key) ==
    {k \in 1..n : options[k].opt \in DOMAIN OptionKey /\ OptionKey[options[k].opt] = key}
OptionValue(o) == IF o.opt = "t" THEN "yes" ELSE o.optarg

FirstCounts(t, options, n, sticky) ==
    \A key \in Sticky :
        LET given == OptionsFor(options, n, key)
        IN  /\ \A k \in given :
                  (\A j \in given : k <= j) => sticky[key] = OptionValue(options[k])
            /\ given = {} =>
                  \A p \in DOMAIN t : IsFirst(p, Positions(t, {key})) => sticky[key] = t[p].val

LastCounts(t, settings) ==
    \A key \in Setting :
        /\ \A p \in DOMAIN t : IsLast(p, Positions(t, {key})) => settings[key] = t[p].val
        /\ Positions(t, {key}) = {} /\ key # "maxsize_score" => settings[key] = Defaults[key]

SettingsAsWritten ==
    WholeFileRead =>
        /\ FirstCounts(WholeText, world.argv, Len(world.argv), prefs.sticky)
        /\ LastCounts(WholeText, prefs.settings)

\* Account n ends with the n-th PORT line; its block are the lines since the one before.
Ports(t) == Positions(t, {"port"})
BlockOf(t, p) ==
    {q \in Positions(t, AccountKey) :
        ~Before(p, q) /\ \A x \in Ports(t) : Before(x, p) => Before(x, q)}
WholeBlock(t, b) ==
    \A k \in AccountKey : \E q \in b : t[q].key = k /\ \A x \in b : t[x].key = k => x = q

\* A block with each of its lines, once, gives an account of its own, whatever blocks
\* stand before it and in whatever file (set_port).
BlocksTaken(t, accounts) ==
    /\ Len(accounts) = Cardinality(Ports(t))
    /\ \A p \in Ports(t) :
          WholeBlock(t, BlockOf(t, p)) =>
              \A q \in BlockOf(t, p) : accounts[Rank(p, Ports(t))][t[q].key] = t[q].val

WholeBlocksKept == WholeFileRead => BlocksTaken(WholeText, prefs.accounts)

\* An error message names the file being read and the line the scanner is at, also
\* after an included file has come back (num_lines, temp_num_lines, sub_file).
TrueReport ==
    report # NoReport =>
        report = [file |-> IF Depth = 0 THEN "" ELSE Place.file, line |-> Place.line]

\* Accounts are checked only when the whole text was understood, the log file is
\* open, and every rule of the text is compiled as the last REG_TYPE line wants it.
TypeWanted(t, reg_type) ==
    /\ \A p \in DOMAIN t : IsLast(p, Positions(t, {"reg_type"})) => reg_type = t[p].val
    /\ Positions(t, {"reg_type"}) = {} => reg_type = "basic"

CheckedWhenReady ==
    phase = "check" =>
        /\ Positions(WholeText, {"junk", "open", "shell", "include"}) = {}
        /\ \E reg_type \in RegTypes :
              /\ TypeWanted(WholeText, reg_type)
              /\ \A p \in Positions(WholeText, Rules) : <<WholeText[p].id, reg_type>> \in Compiles
        /\ compiled = Cardinality(Positions(WholeText, Rules))
        /\ prefs.sticky["logfile"] \in world.writable

\* The program comes to an end of its preparations, also with a file that includes
\* itself.
Decided == <>(phase \in {"check", "exit"})

\* Every step brings the decision nearer, whatever the files include: options are used
\* up, then lines of the rcfile, then it is left for an included file and the lines of
\* that are read, then filters are compiled.
StagesLeft == [options |-> 4, parse |-> 3, log |-> 2, compile |-> 1, check |-> 0, exit |-> 0]
LinesLeft(n) ==
    IF n \in DOMAIN input THEN Len(world.files[input[n].file]) + 1 - input[n].line ELSE 0
Remaining ==
    <<StagesLeft[phase], Len(argv), LinesLeft(1), IF Depth > 0 THEN 0 ELSE 1, LinesLeft(2),
      Len(InOrder) - compiled>>
DecisionInSight == [][Nearer(Remaining', Remaining)]_vars

\* man/mailfilterrc.5:15: "It does not matter in which order keywords are inserted,
\* except for the account set-up."  The only REG_CASE line of a text then holds for
\* every rule without a suffix; but add_allow_rule, add_deny_rule and add_score
\* store the case of the moment, so that a rule before the line ignores it.
KeywordOrderFree ==
    WholeFileRead =>
        \A q \in Positions(WholeText, {"reg_case"}) :
            Positions(WholeText, {"reg_case"}) = {q} =>
                \A r \in Rules : \A p \in Positions(WholeText, {r}) :
                    WholeText[p].ccase = "default" =>
                        (WholeText[q].val = "yes" <=>
                            prefs.filters[r][Rank(p, Positions(WholeText, {r}))].ccase = "case")
=============================================================================
