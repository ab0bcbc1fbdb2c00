# Mailfilter in TLA+

Mailfilter logs in to one or more POP3 accounts, reads the headers of the
messages on the server, and deletes there what the user's rules condemn. Most of
what could go wrong goes wrong for good: a message deleted on the server is
gone. This directory holds TLA+ models of the program, TLC configurations that
check them on small instances, and TLAPS proofs about them.

All paths below are relative to the root of the repository; the program is in
`src/`, so `src/pop3.cc` here is `src/src/pop3.cc` in `PROJECT.json`.

    tlc -workers 2 -config MCSession.cfg MCSession     # one run
    tlapm SessionProofs.tla                            # one module of proofs

## 1. Inventory

| component | state it keeps | operations | modelled in |
|---|---|---|---|
| **Main program** `mailfilter.cc` | `mailbox_status`, the return value, the signal handler | `get_opts`, start, `precompile_expressions`, loop over accounts, exit status, `connect_sigint` | `Rcfile` up to the first account, `Mailfilter` |
| **Account, POP3, APOP** `account.cc`, `pop3.cc`, `apop.cc` | the place in the dialogue, the loop index, the message count | `check`, `login`, `status`, `scan`, `remove_msg`, `logout` | `Session` |
| **Socket** `socket.cc` | the connection, what it has read; global: the alarm, the jump buffer, the SSL objects | `c_open`, `c_read`, `c_write`, `c_close`, `verify_callback`, `connect_alarm` | `Session` (`c_open` as one step), `Connection` (`c_open` and `c_close` call by call) |
| **Weeder** `weeder.cc` | `msg_ids`, for the whole run of the program | `is_weed` and its five checks | `WeedRules`, `Weeder` |
| **Header** `header.cc` | the fields of one message | `add_entry`, `rfc822_valid_msgid`, `set_normal_subject` | `Header`; in `WeedRules` the normalised subject is a constant relation |
| **RFC 822 scanner, parser** `rfc822.ll`, `rfc822.yy` | position in the header | the parse of one header, `rfcerror` | `Rfc822`; in `Session` the set of lines that end it |
| **Preferences** `preferences.cc` | every setting | the constructor, `open`, `load`, setters | `Rcfile`; `WeedRules`, as a record of values |
| **Rcfile scanner, parser** `rcfile.ll`, `rcfile.yy` | include stack, line counts, account being read | the parse of the rcfile | `Rcfile` |
| **Filter, Score** `filter.cc`, `score.cc` | an expression, compiled | `compile` | `Rcfile`; `WeedRules`, as data; `regcomp` and `regexec` are relations |
| **Protocol, Connection** `protocol.cc`, `connection.hh` | - | abstract classes | no behaviour of their own |
| **Feedback** `feedback.cc` | the log stream | `open`, logging | `open` in `Rcfile`, the rest is output only |
| **IMAP** `imap.cc` | - | - | not implemented in the program |
| **MD5, getopt** | - | - | vendored |
| **contrib, po, build files** | - | - | not part of the program |

How they interact. `main` reads the preferences and then calls `Account::check`
for one account after the other. `check` drives its `Protocol` object, which
writes commands to and reads answers from a `Connection`. `POP3::scan` asks
`LIST i` for the size and `TOP i 0` for the header of message `i`, hands the
header to the parser and the parsed `Header` to the one global `Weeder`, and
calls `remove_msg` if the verdict is 1. All is in one thread; what runs
concurrently with it is the server, the network and the user (`^C`).

### What is hard here

- **Answers that nobody reads.** `remove_msg` writes `DELE i` and returns.
  Its answer is still in the socket when `LIST i+1` or the last `STAT` is asked.
  `c_read ()` returns *whatever has arrived*, so a later command may be answered
  by an earlier one. Which message is deleted depends on headers read from this
  stream: is it ever the wrong one?
- **`c_read (true)`** reads until its input ends in `.\r\n`. Any line that ends
  in a dot will do when a segment happens to end there, and nothing but a dot
  ever ends the loop.
- **Failures between `DELE` and `QUIT`.** Time outs, closed and reset
  connections, an answer cut in two, `exit` in the parser, `SIGPIPE`, `^C`.
  Deletions are committed by a `QUIT` whose answer is not read either, and which
  the error paths send as well.
- **State that outlives its account.** `msg_ids` decides about messages of later
  accounts, whatever became of the session it was filled in. The exit status
  sums up all of them.
- **The order of the rules.** Duplicates, ALLOW, MAXLENGTH, DENY and SCORE
  override each other by the order of calls in `is_weed`; negative rules speak
  about all the lines of a header, positive rules about one.

- **Globals in `c_open`.** `alarm (2)` guards its blocking calls and `siglongjmp` is
  the way out. The alarm, the jump buffer and the SSL objects are global: what a call
  leaves behind meets the next account.
- **The order of the rcfile's lines.** REG_CASE acts on the rules behind it, REG_TYPE on
  all, for some statements the first counts and for some the last, account blocks
  share one object, and included files are read in between.
- **Where a field ends.** Two scanners decide with regular expressions over `\n` and
  white space: empty fields, folded lines and lines without a colon.

`PROJECT.json` lists these hazards line by line, with the properties that cover
them.

### What makes each component correct

- *Weeder*: a friend without an overlong line is lost only to MAXSIZE_ALLOW or as a copy; a copy is deleted
  only after the first one was examined; every loss goes back to a rule.
- *Session*: the header judged as message `k` is `k`'s own; only condemned messages
  leave the mailbox, only after the client is through with it, all or none; the
  program ends if the server answers; a result of 0 means the work was done.
- *Main program*: one failed account does not spoil the others, nor is it forgotten
  in the exit status; a mail sent to two accounts survives in one of them.
- *Rcfile, Preferences*: what is stored is what the lines say, in whatever file; an
  account block is complete; no account is checked before everything was read and compiled.
- *Socket::c_open*: it returns; nothing of one account disturbs the session of the next;
  only an account that failed leaves something open.
- *RFC 822 parser, Header*: every field the server sent reaches the rules once, in the
  form the rules expect.

## 2. Modules

| module | what it is |
|---|---|
| `WeedRules` | pure operators: the header, the preferences, and every check of `Weeder`, up to `is_weed` |
| `Weeder` | the weeder as a state machine: headers in any order, `msg_ids`, the log of verdicts |
| `Session` | `Account::check` with the client, the connection and a POP3 server |
| `Purge` | the abstract promise of a session: the mailbox loses nothing, or wanted messages in one step |
| `Mailfilter` | `main` around `Session`: several accounts, exit status |
| `Purges` | the abstract promise of a run: the mailboxes are purged one after the other, and what goes is junk, or a copy of a mail that is junk or stays |
| `Rcfile` | from the command line to the first account: options, the rcfile, includes, the log file, the compilation of filters |
| `Header`, `Rfc822` | a message header from the bytes of `TOP` to the entries the rules see |
| `Connection` | `c_open` and `c_close` call by call, over the accounts of a run |
| `Opening` | what `Connection` promises: a connection does not open, or opens and closes, or is abandoned; what is left behind belongs to accounts that failed |
| `Measures` | the order on tuples of numbers, by which the two parsers come nearer to their ends |
| `MCWeeder`, `MCSession`, `MCMailfilter`, `MCRcfile`, `MCRfc822`, `MCConnection` | the instances TLC checks |
| `WeedRulesProofs`, `WeederProofs` | theorems about the rules and the weeder |
| `SessionInvariant` | the inductive invariants of a session |
| `SessionProofs` | the proof of the first, `IInv`, and the theorems on whose header is judged and what leaves the mailbox |
| `SessionPromises` | the proofs of the others, and the theorems on whole sessions, the refinement of `Purge` among them |
| `MailfilterInvariant`, `MailfilterProofs` | the inductive invariants of a run over all accounts, and its theorems, the refinement of `Purges` among them |
| `RcfileProofs` | theorems about what the preferences hold, and that the start comes to an end |
| `Rfc822Proofs` | theorems about the header parser and the subject's loop, and that both come to an end |
| `ConnectionProofs` | theorems about `Connection`, the refinement of `Opening` among them |

`Session` and `Mailfilter` use the same `is_weed` as `Weeder`, from `WeedRules`.
`Mailfilter` extends `Session`, adding the state of `main` to it and running one
session after the other. `Session` is shown to implement `Purge`, `Mailfilter` to implement
`Purges`, and `Connection` to implement `Opening`: its `Opens` and `OpensNot` are `Session`'s `Open`
and `OpenFails`, its `Closes` and `Abandons` the two ends of a session, with `Close` and without. `Rfc822`
extends `Header`: the parser calls `add_entry`, which may start the loop of
`set_normal_subject`. `Rcfile` ends where `Mailfilter` begins; its record `prefs` is
what `WeedRules` and `Session` take for constants.

### WeedRules and Weeder

A header is a sequence of entries (tag, body) and a size, as in `header.hh`. What
a regular expression matches is the constant relation `Regexec` (and
`RegexecNormal` for the normalised subject), the length of a line the constant
function `Length`: no rule looks deeper. The operators have the names of the
methods. The methods loop over lines and filters and return at the first that
applies; the operators quantify, since the order cannot be observed. Two details
of the loops can be observed and are kept: a positive SCORE counts once per line
it matches, and negative filters are decided at the last line, so that they never
apply to a header without lines.

`Weeder` examines any header at any time; the history variable `log` records the
headers with their verdicts.

### Session

*Client.* `pc` names the command at hand (`"STAT1"`, `"STAT2"`, `"STAT3"` are the
three calls of `status ()`) and `waiting` whether it was written already. Each
command is an `Ask` (`c_write`) and a `Read...` (`c_read`), because the server and
the network move in between. `Fail` is what `check` does after an error: nothing
but `c_close` after a failed login, `logout` and `c_close` later, and no `c_close` when the
`QUIT` of a session without an error cannot be written. `Exit` is the end
of the process, by `exit (-1)`, `SIGPIPE` or `^C`. The weeder's verdict, the
update of `msg_ids` and the loop's next step are one action (`Weed`): nothing can
intervene but a signal, which ends the program either way.

*Connection.* Answers are sequences of segments: a status line, a header line, the
final dot. `c_read ()` takes any non-empty prefix of what was sent. A status line may
be cut in two (`"front"`, `"back"`) before its first number. Of a status line the
model keeps what the code looks at: does it begin with `+`, the number in its second
word (`POP3::status`), the number behind the last blank of everything read
(`POP3::scan`), does it end in a dot. A header line carries its message and its
place, so that the properties can tell whose header it was; the client never
looks at these numbers except to find the text.

*Server.* It is not in this repository. It is what the client was written for:
commands are answered in order, `DELE` marks, `QUIT` removes, and a session that
ends otherwise forgets the marks (RFC 1939).

*Faults.* What may go wrong is a part of the configuration of each session
(`cfg.faults`), chosen at the start: no connection, a refusal, a close or reset by
the server, a time out of `select`, a status line cut in two, a status text
that ends in a dot or has numbers in it, an `SSL_read` without data, `^C`, and the reset that
`close (2)` with unread data causes. RFC 1939 leaves the text of every answer but those to `STAT`
and `LIST` to the server (`Free`): `atoi` makes 0 of it or finds one of the numbers in `Phrases`.

*The end of the stream.* Without SSL `recv` returns nothing, and `c_read ()` an empty reply
(`ReadNothing`), but `c_read (true)` reads on (`Spin`). With SSL `close_notify` does the same; every other
error of `SSL_read` makes `c_read` fail wherever it is (`SslFails`). `write`, `SSL_write` and
`SSL_shutdown` to a connection that was reset raise `SIGPIPE` (`SigPipe`).

### Mailfilter

`Check` is a step of the session at hand, `NextAccount` the end of an iteration of
the loop: it starts a new session and keeps `msg_ids` and `mailbox_status`. The
model lets the server of one account finish before the next account starts; the two
share nothing, so the order of their steps does not matter.
The exit status has 8 bits. `Informs` are the runs with `-h` and `-V`, which print a text and exit with 0.

### Rcfile

The rcfile is a sequence of lines, each with a keyword and a value; scanner and parser work
in step, so that a statement takes effect when its line is read. `input` is the
include stack, `prefs` the object `Preferences`. Setters are operators on `prefs` and
have the names of the methods. What the scanner cannot read, and what the parser cannot
use, are lines of their own (`"junk"`, `"open"`: a quoted argument whose closing quote is
not the last thing in its line and that therefore goes on over the newline); both end in a message
that names a file and a line, kept in `report`. `regcomp` is a constant relation
(`Compiles`). `size_score` has no initial value in the code: any of `SizeScores`.

### Header and Rfc822

Texts are sequences of kinds of characters: letters, two sorts of white space,
`@ < >` and the rest. The answer to `TOP` is a sequence of lines of seven kinds, and each
pattern of the scanner is an action on them, among them what the patterns do that nobody
wrote: `[[:space:]]*` behind a tag runs over the line's end, `.` in a continued line
takes the `\r` along, and text no pattern matches is skipped. `Reduce` is the grammar's
rule `TAG bodies`; `lines` of an entry is history and says where it came from.

### Connection

`pc` is the next call of `c_open`. `pending` says that an alarm is due and `curr_env` in whose
`c_open` the jump buffer was filled last. SIGALRM (`TimeOut`, `WildJump`) may come at
any time while it is due; a jump into a call that has returned is undefined, and the model
stops there (`pc = "undefined"`). `FailureAlarmed` is the end of those paths that return
without `alarm (0)`. The session is one step that ends well or badly, and `LogoutFails` the case
in which `Account::check` does not call `c_close`.

## 3. Runs

| run | module | what it shows |
|---|---|---|
| `weeder` | `MCWeeder` | the weeder's invariants over every sequence of up to three headers under ten preferences |
| `session` | `MCSession` | the safety of a session under every fault, and the refinement of `Purge` |
| `session_ends` | `MCSession` | liveness: the session ends and the condemned messages are gone |
| `mailfilter` | `MCMailfilter` | duplicates over accounts, the exit status, and the refinement of `Purges` |
| `rcfile` | `MCRcfile` | what the program holds when it starts to check accounts is what the command line and the rcfile say |
| `header` | `MCRfc822` | what reaches the rules of any short header, and the normal form of any short subject |
| `connection` | `MCConnection` | alarms, descriptors and SSL objects over several accounts, and the refinement of `Opening` |
| `maxsize_deny`, `time_out`, `return_value`, `keyword_order`, `empty_field` | | a property some document states and the code does not have, see 6 |

Properties of a session:

- `OwnHeader`: whatever answers are pending, the header judged as message `k` is a
  beginning of `k`'s own.
- `OnlyCondemnedLost`, `NothingLostBeforeQuit`, `AllOrNothing`: what disappears, when, and
  that the deletions of a session go together. A program that dies in the parser or of
  `SIGPIPE` has removed nothing: `QUIT` was not said, or not served.
- `AtMostOneBehind`: the client may be one answer behind the server, never two,
  unless the next answer it reads makes it fail.
- `SizeOwnOrStray`: if no answer is cut or read empty (`Prompt`), the size the rules see is the
  message's own, or the message before was deleted and it is the number at the end of the text of that
  `DELE`'s answer, 0 if there is none.
- `ScanIsComplete`: a result of 0 means every message was examined, under `Prompt` as well.
- `PurgeSpec`: if headers arrive whole and no rule looks at sizes, the messages
  removed are among those the rules condemn *by the headers in the mailbox*, and
  they leave in one step. The condition is `Whole`. Its last part came out of the proof:
  a refusal of `TOP` whose text ends in a dot, read together with the unread answer to a
  `DELE`, is taken for a header without lines, and a HIGHSCORE of 0 or less condemns that.
- `EventuallyPurged`: see Fairness.

Properties of the weeder: `OneCopyKept`, `LossIsJustified`,
`FriendsSurvive` (of a friend without an overlong line, see 6). Of the main program: `CopySurvives` (a mail that was sent to two
accounts is not lost in both for being a copy of itself, even if the session that
examined the first copy failed), `OneCopyLeft`, `ZeroIsSuccess` (without `--return-value`, `-h` and `-V`; that all
messages were examined, where no answer was cut or read empty), and `RunPurges`, the refinement of
`Purges`: whatever fails, the mailboxes are purged in their order, each in one step and for good; a message
that goes is junk, or has the Message-ID of one that comes before it and that is junk or still
there. When all headers arrive whole, junk is what the rules say of the mail in the mailbox; when
some account has headers that may arrive cut short (`AllWhole` does not hold) any message may be taken for it,
and what remains of the promise is the order, that each mailbox changes once, and test mode.

Properties of the start: `RulesAsWritten` (a rule has the case the last REG_CASE line
before it gives, in whatever file: what the code does, while the manual has it that the order does not
matter, see `keyword_order` in 6), `SettingsAsWritten` (command line before rcfile,
first line or last line, and the defaults), `WholeBlocksKept` (a block that has each of its five
lines once is stored as it stands), `TrueReport` (an error message names
the line where the scanner is), `CheckedWhenReady`, `Decided`, `DecisionInSight`. Those on rules,
settings and blocks compare the state with `WholeText`, the text with every include replaced by its file, which no action uses: a function
from places (line of the rcfile, line of the file included there) to lines. `DecisionInSight` is an action
property: every step makes a tuple of numbers smaller (`Remaining`: the stages, the options, the
lines of the rcfile, whether a file is open in it, the lines of that file, the filters), so that no text,
a file that includes itself among them, keeps the program from its decision.

Properties of a header: `TidyHeaders` (a header as RFC 822 wants it is unfolded field by field, never
ends the program, and fails only for a refused Message-ID; a body is unfolded when the texts of its lines stand
in it in order and apart, and nothing but white space around them, however much: `Unfolds`), `EveryLineKept` (of any
header at all, no line of a field gets lost and none is used twice or out of order), `MembersAreLast` (the
Message-ID that tells duplicates apart is the last one, and the loop that edits the last subject in place
computes its normal form, defined without a loop: which characters stay, and in which order),
`Parsed`, and `EndsInSight`, the action property behind it: the scanner, with the loop that
now and then steps back, comes nearer to its end with every step.

Properties of a connection: `SessionUndisturbed` (no alarm, no closed descriptor, no refused
certificate while an account is read), `AlarmOutlivesOnlySsl` (how far the missing
`alarm (0)` reaches), `SuccessLeavesNothing`, `OpenReturns`, `Opening` (only failed accounts leave something
behind, an abandoned connection among it, and an account that opens is closed or abandoned before the next).

### Bounds, and why they are enough

- *Messages*: mailboxes of 0 to 3 messages. An unread answer to `DELE i` meets
  `LIST i+1`; what it leaves behind meets `TOP i+1`; what that leaves meets the next
  message or the last `STAT`. Three messages hold two such passages in a row and
  a message that is kept between or after them.
- *Lines*: headers of up to three lines. A header cut short needs one line before
  and one after the cut; a third for a Message-ID.
- *Six mailboxes*: empty; spam before a good message; copy, friend and spam; a line that ends
  in a dot; a Message-ID that is refused; a line the parser cannot read.
- *Users*: POP3 and APOP, with and without a time stamp in the greeting, with
  and without SSL, `--test`, `--return-value`, DEL_DUPLICATES with ALLOW, a size
  limit.
- *Faults*: all at once; an honest server behind a failing network; everything but
  texts that end in a dot. The last two exist because some properties (`AllOrNothing`,
  `PurgeSpec`) promise more when a fault is absent. Free texts are without a number, or (`Phrases`) with two,
  one where `STAT` looks and one where `LIST` looks; together with *all* other faults only for the user whose rules
  look at sizes.
- *Main program*: two accounts of up to two messages, and three accounts of one;
  what an account hands on (`msg_ids`, the return value) is handed on once to the
  second and a second time to the third.

- *Rcfiles*: up to three lines of rules, REG_CASE, REG_TYPE, includes and errors with six
  included files: a rule, something before it that changes its meaning and something behind
  it; up to two options against two statements; two account blocks of which any lines may be
  missing, and three of which one is included; the places where the rcfile may be.
- *Headers*: up to three lines of ten kinds, and up to four of six, with and without the
  blank line at the end: a field, its continuation, and the field on either side.
- *Subjects*: every text of up to five or six characters; the loop looks at two neighbours and
  steps back by one, so that two erasures in a row next to white space fit in.
- *Connections*: up to three accounts with and without SSL: an alarm left by the first
  meets the second or, where `sigaction` fails, the third.

No counter needs an artificial bound: the loop of `scan` is bounded by the mailbox
and every state space here is finite.

### Fairness

`FairSpec` assumes weak fairness of the client's steps together and of the
server's steps together. The client is one thread that waits for nothing but its
socket; a server that was sent a command eventually serves it (or refuses it). No fairness is
assumed of faults. `Read...` actions take any non-empty prefix, so fairness never
promises that an answer arrives whole. `EventuallyPurged` is checked with a server
that grants every command and keeps the connection, but under time outs, split and empty reads, `^C`
and failing connects. With a server that refuses or closes it does not hold: that is
`TimeoutHonoured` in section 6.

`Rcfile` and `Rfc822` are sequential programs that wait for nobody: weak fairness of `Next`.
`Connection` assumes that the program goes on where it does not wait, and that the kernel
delivers an alarm that is due; the calls that wait for the network have no fairness, nor has the
end of a session. `OpenReturns` therefore says that the alarm alone gets the program
past a server that never answers.

## 4. Proofs

All proofs hold for every value of the constants: any mailbox, any header, any rules,
any relation of expressions and lines, any set of faults, any rcfile and command line. The
assumptions give the constants their types, and a little more where the program does:
`AccountsAssumption` (the accounts of a run share one `Preferences` object),
`AnswersAssumption` (`c_read (true)` returns a text that ends in its only dot, and a body
begins behind its white space), `RulesAssumption` (no Message-ID is not a Message-ID). TLC
evaluates all of them. `ValuesAssumption` says that the values the code writes into the
preferences are strings, which TLC knows and the provers do not.

**Weeder.** `WeederProofs!IInv` strengthens the properties with two facts: `msg_ids` is
what was seen, and every verdict in the log is `is_weed` of the header with the
IDs *before* it. `Invariance` proves it inductive; `NoSecondCopy`, `LossesJustified`, `FriendsKept`
follow from it.

**Session: whose header.** `OwnHeader` is far from inductive: it is about what was read, and what will
be read depends on every answer still under way. `SessionInvariant!IInv` describes the
stream `s2c` together with the commands `c2s` at each control point:

- `Bounds`: no number the client can read is beyond the mailbox, so that the loop of
  `scan` stays within it. `Progress`: how many headers are judged at each `pc`.
  `Deletion`: what can be marked or asked for, and that `QUIT` is sent last.
- `OneOwed`: before a command is written at most one answer is owed (under way, or
  its command not yet served). The greeting taken for empty and the answer to a `DELE`
  are such answers.
- `TwoOwed`, `ListOwed`: while an answer is awaited at most two are owed. `LIST` reads the
  first of them or both.
- `TopAhead`: so an answer still owed when `TOP` is written is the one to `LIST`. It ends in a number,
  never in a dot, and `c_read (true)` cannot take it for the end of the header.
- `TopOwed`, `HeaderAt`: what was read of the header, together with what is under way,
  holds header lines of message `msg` only, its first ones, in one piece.
- `Stuck`: the exception in all of these. When the end of a header was taken too early, the rest of
  the stream begins with something that is not a positive reply; the next read finds
  it first, and the scan ends.

`SessionProofs` proves first what reading and sending does to such streams, then has
a lemma for each action of the client, the server and the network, and the theorems
`TypeCorrect`, `OwnHeaderJudged` and `LossesCondemned`.

**Session: as a whole.** `PInv`, on top of `IInv`, says what a session as a whole relies on:

- `Dialogue`: a server that refuses nothing grants each command in its turn, and what is marked, asked
  for or about to be asked for is together what was condemned. `Settled`: so the end of
  the session removes all of it or nothing (`DeletionsTogether`).
- `KilledEarly`: only `^C` ends a program that has said `QUIT` (`LossesAfterQuit`).
- `Returns`, `Success`: a result other than an error means that the dialogue went to its end.
- `Timely`: if no answer is cut or read empty, `Counted` and `Measured` say which answers are under way and
  hence which number the next read finds: the count of `STAT`, the size or that of the message before
  (`ScansComplete`, `SizesOwnOrStray`). `OneBehind` follows from `IInv` alone.
- `Faithful` adds that, when headers arrive whole, each verdict is the one the rules give to the
  message's own header and the IDs before it (`VerdictsRight`). With `Settled` this is the
  refinement `Spec => Purge!Spec` (`SessionPurges`): the end of the session at the server is `End`,
  every other step stutters.

**Main program.** `MailfilterInvariant!MInv` keeps `IInv` and `PInv` for the session at hand, `Finished` for
those that are over, and relates `msg_ids` to the headers judged in all accounts (`LogInv`): every ID judged is
remembered, every ID remembered has an original that was not condemned as a copy (`Attested`),
and whoever is condemned as a copy has such an original before him (`Founded`). Hence
`CopiesSurvive`, also when sessions fail, and `NoSecondCopyLeft`. `Tally` follows the exit status
(`ZeroSucceeds`). A step of `Check` is a step of `Session`, whose lemmas are cited as they are.

`ProgramPurges` is the refinement `MainSpec => Purges!Spec`. It needs to know whose mail was judged, also in
the accounts that are over: `OwnMail` (`JudgedByOwnMail`). `Faithful` cannot be carried from account to
account, since it says that the IDs in `msg_ids` come from the session at hand; `OwnMail` keeps the part of it
that does not: what was judged as message `k` is `k`'s own header, or was refused. Together with `Founded` a
message that was condemned is junk or has an earlier one with its ID (`CondemnedMayGo`); that one is junk or
still there, since a session that deletes a copy left a copy before it alone or condemned it by the
rules. The session's end at the server is `Purge`, as in `SessionPurges`; when the server was never reached,
the step to the next account is `Purge` of nothing; every other step stutters (`SessionStepPurges`,
`NextAccountPurges`).

**Rcfile.** `RcInv` says that at any moment the preferences are what the text *taken in so far* asks
for (`Obeyed`: rules, cases, first and last statements, accounts), that the scanner is where this
text ends (`ScanPlace`), and how far the options (`OptionsLeft`) and the filters (`Compiling`) are
done. The properties speak of the whole text, about which nothing is inductive; at its end
`TextSoFar = WholeText` (`WholeTextTaken`). The proof has two halves that do not know of each
other: how each part of `Obeyed` changes when a text grows by a line behind all others (`RulesGrow`,
`AccountsGrow` and others, together `LineObeyed`; `Sound` for the setters), and that each step of the
scanner, includes among them, lets the text grow by one line or not at all. `DecisionComes` proves
`DecisionInSight` from the same invariant: which of the numbers in `Remaining` an action lowers, one lemma for each
kind of step (`StageOver` to `FilterDone`), and that those before it stay. Theorems: `RcfileTypes`, `TrueReports`, `RulesTakenAsWritten`,
`SettingsTakenAsWritten`, `WholeBlocksAreKept`, `ChecksWhenReady`, `DecisionComes`.

**Header and parser.** `ScanInv`: the entries and the open field hold exactly the lines before `pos` that belong
to a field, in order (`Accounted`); the members are those of the last entries (`Stored`); and the
subject's loop has turned the text before `i` into its normal form and left the rest (`Track`: which
character of the text stands where). An erased character is one that does not stay, also when the
loop has stepped back. That the loop ends although it steps back is seen from the text that is left:
an erasure shortens it (`HeaderEndsInSight`).

`TidyInv` is the invariant for headers as RFC 822 wants them, on top of `ScanInv`: the scanner stands behind a
whole line and expects nothing left over from one before, each entry is a field with all its
continuations (`Unfolded`), the open field is one with those before `pos`, and only a refused Message-ID is a
failure. `TidyHeaders` says with `Unfolds` what a body is made of: there are places in it, one for each line of the
field, at which the texts stand. A body that grows by a line keeps the places it has and gains one
(`HoldsOn`, `ContinuationHolds`), so the invariant has them for the open field as far as it is read. That the
k-th entry is the k-th field follows from the order of the entries and from each line's belonging to one of
them (`EveryLineKept`), by counting (`CountUpTo`).
Theorems: `HeaderTypes`, `LinesAccountedFor`, `LastFieldCounts`, `TidyHeadersUnfolded`,
`HeaderEndsInSight`.

**Connection.** `ConnectionProofs!IInv` says what `c_open` holds at each of its calls
(`Objects`), whom the jump buffer belongs to (`Jump`), and that SSL is past
verification when the session starts (`Certified`); `SuccessLeavesNothing` and
`AlarmOutlivesOnlySsl` are inductive with it. The only assumption is `RunsAssumption` (types of the
settings). All calls that go on share `CallFacts`, all ways out `FailurePreserves`. The theorems are
`TypeCorrect`, `SessionsUndisturbed`, `NothingLeft`, `OnlySslLeavesAlarms`, and `ConnectionOpens`, the
refinement `Spec => Opening`.

**Only model-checked.** Every invariant and every action property that the runs check has a theorem.
`EventuallyPurged`, `OpenReturns`, `Decided` and `Parsed` have none: liveness under fairness and `ENABLED` are out of
the provers' reach. Of the last two the safe half is proved, that each step comes nearer to the end
(`DecisionComes`, `HeaderEndsInSight`); that a step is possible until then is left to TLC. The five expected
violations are counterexamples. No module declares
a recursive operator; the sum of the scores (`msg_score`) is used in the proofs only as a number
compared with `high_score`.

## 5. Plan

1. *Done*: `WeedRules`, `Weeder`, `Session`, `Purge`, `Mailfilter`; proofs of
   the weeder and of the session's four main invariants.
2. *Done*: `Rcfile`; `Header` and `Rfc822`; `Connection` and `Opening` with their proofs.
3. *Done*: theorems for every invariant; the refinement of `Purge` by a session.
4. *Done*: `Purges`, which the whole program implements; the measures behind `Decided` and `Parsed`.
5. Left: the composition of `Rcfile`, `Rfc822` and `Connection` with `Session`, so that the lines of an rcfile
   and the bytes of a header stand at the ends of one refinement.

## 6. Where the code and its documents differ

Each of these is a run that TLC ends with a counterexample; the quotations
are in `PROJECT.json`.

| run | the code | the document |
|---|---|---|
| `maxsize_deny` | after a `DELE`, the size may be read from the wrong answer, as 0 | MAXSIZE_DENY "must not be exceeded" |
| `time_out` | a connection that breaks inside a header keeps the program reading for ever | TIMEOUT drops the connection |
| `return_value` | the last `STAT` may read the answer to a `DELE` and count 0 | a positive integer if there are messages |
| `keyword_order` | a REG_CASE line has no effect on the rules before it | "It does not matter in which order keywords are inserted" |
| `empty_field` | behind an empty `To:` the Subject becomes the body of To | DENY = "^Subject:..." deletes "every e-mail" with such a subject |

Others are visible in the modules and have no run:

- `is_weed` lets a friend pass before it looks at MAXLENGTH, which "even overrides any
  `friendly' ALLOW rules" (`man/mailfilterrc.5:144-146`, `doc/FAQ:645`): `WeedByRules`. `FriendsSurvive` leaves
  such a friend out; it holds where code and documents agree.
- An account block without PASS is accepted and logs in with the password of the block before it, while
  the lines of a block "can only be used as a whole" (`man/mailfilterrc.5:242`): `set_port`. `WholeBlocksKept` speaks of
  complete blocks.
- The normal form of a subject keeps `@`, while it "consists only of alpha-numeric characters"
  (`man/mailfilterrc.5:180`): `Kept`.
- A folded line keeps its `\r`, as a blank behind the text: `Folded`. No document speaks of it, and
  `Unfolds` does not count white space.
- With `--return-value` an account of 256 messages, or any multiple, ends with exit status 0 like an empty
  one (`src/mailfilter.cc:181`, `man/mailfilter.1:26`): `Status8`.
- A header line that ends in a dot ends `c_read (true)` when a segment ends there, which
  should read "until \r\n.\r\n" (`src/socket.cc:291`): `Ended`.
- A refused `DELE`, and an answer to `STAT` that arrives in two pieces, leave spam behind a session
  that returns 0, "when all the hard work is done" (`src/pop3.cc:97`): `RemoveMsg`,
  `SecondWord`. `ScanIsComplete` and `EventuallyPurged` say when 0 can be relied on.
- The second write after the server has gone raises `SIGPIPE` and ends the program without the
  error message of `doc/FAQ:600`: `SigPipe`.
- Three ways out of the SSL negotiation leave the alarm on; `siglongjmp` may then jump into a
  `c_open` that has returned, before the next account has called `sigsetjmp`: `WildJump`.
- When `~/.mailfilterrc` cannot be opened, the name of `_mailfilterrc` is stored but the file is
  not opened (`src/preferences.cc:130`): `OpenFails`.

## 7. What is not modelled

- Texts: formatting, logging, the wording of answers; of a header's characters only their
  kinds, and in `Session` not even these.
- The texts of an rcfile below its lines, shell commands in arguments (but for their failure), and
  `set_maxlength (-1)` and other values: `WeedRules` takes any number.
- The composition of `Rcfile`, `Rfc822` and `Connection` with `Session`: each meets it at one
  step (`Open`, `OpenFails`, `Weed`) or before its first, and shares no state with it beyond.
- A status line cut at another place than before its first number. Cut inside the
  first number it would count fewer messages, another instance of the cut `STAT` answer in section 6.
- A server that violates its protocol (answers out of order, header lines of another
  message, deletion without `QUIT`).
- Memory safety: `c_read` indexes an empty reply at `length () - 1`.
- Two programs at work on one mailbox: POP3 servers lock it.
