------------------------------- MODULE Access -------------------------------
(***************************************************************************)
(* What Harvey may do to the files of a workspace and which programs it    *)
(* may run: the tools a model calls, the writes a reply offers to the      *)
(* author, and the author's own commands, under the rules of Settings;     *)
(* and the two records of it, the audit buffer and the session log's       *)
(* permission events.                                                      *)
(***************************************************************************)
EXTENDS Settings, AuditBuffer, FiniteSets

CONSTANTS
  Paths,          \* files, as sequences of names
  Spellings,      \* paths as they may be written, with "." and ".." among the names
  Lines,          \* commands the author may give: records with an op and what it is on
  Replies,        \* what a reply offers: sequences of paths, its tagged blocks
  Suggested,      \* paths the question may have named, for a block that is not tagged
  MaxActs, MaxCommands, MaxEnds

\* filepath.Clean, which finds the file a path is written for.
Clean(w) ==
  FoldLeft(LAMBDA kept, n : CASE n = "." -> kept [] n = ".." -> Front(kept) [] OTHER -> Append(kept, n),
           <<>>, w)

ASSUME AccessAssumption ==
  /\ IsFiniteSet(Paths) /\ <<>> \notin Paths /\ Paths \subseteq Spellings
  /\ (\A w \in Spellings : Clean(w) \in Paths) /\ \A p \in Paths : Clean(p) = p
  /\ Replies \subseteq Seq(Spellings) /\ Suggested \subseteq Spellings
  /\ \A c \in Lines :
       /\ c.op \in {"write", "format"} => c.on \in Spellings
       /\ c.op = "read" => c.on \in Seq(Spellings)
       /\ c.op = "git" => c.on \in {"log", "push"}
       /\ c.op = "permissions set" => c.on \in Directories /\ c.rights \subseteq AllPermissions
       /\ c.op \in {"alias add", "alias remove"} => c.on \in Aliases
       /\ c.op \in {"safemode allow", "safemode deny", "run", "!"} => c.on \in Programs
  /\ {MaxActs, MaxCommands, MaxEnds} \subseteq Nat

VARIABLES
  files,     \* by path the act that wrote it last, or cut it short, 0 for none
  acts,      \* what was asked of Harvey and what it did: see Act
  books,     \* the audit buffer, all it was given, and the permission events
  doing,     \* what Harvey is at: see Prompt
  queue,     \* pendingInput: commands typed where an answer was asked for
  spent      \* commands given and endings so far

vars == <<config, yaml, behind, files, acts, books, doing, queue, spent>>

Prompt == [what |-> "prompt", blocks |-> <<>>, at |-> 0, all |-> FALSE, asked |-> FALSE,
           from |-> 0, written |-> {}]
\* At the first of some blocks or files; from is how long the log was.
Begin(what, blocks, from) ==
  [what |-> what, blocks |-> blocks, at |-> 1, all |-> FALSE, asked |-> FALSE, from |-> from,
   written |-> {}]
NoOffer == [index |-> 0, of |-> 0]

Init ==
  /\ SettingsInit
  /\ files = [p \in Paths |-> 0] /\ acts = <<>>
  /\ books = [audit |-> NewAuditBuffer, given |-> <<>>, log |-> <<>>]
  /\ doing = Prompt /\ queue = <<>>
  /\ spent = [commands |-> 0, ends |-> 0]

----------------------------------------------------------------------------
(* The records. An act is [op, on, did]: on is the path the rules were asked about, or *)
(* what else it is about; did is TRUE when the file was written or the program run. b  *)
(* is the books before; a permission event is about one act.                           *)

NextAct == Len(acts) + 1

Permission(b, decision, scope, choice, outcome, offer) ==
  [b EXCEPT !.log = Append(@, [act |-> NextAct, decision |-> decision, scope |-> scope,
                               choice |-> choice, outcome |-> outcome, offer |-> offer])]

\* What the session log makes of an audit event; the rest it does not record.
\* Variant: a refusal within an offer is not left to the offer.
PermissionFromAuditTwice(b, e, offer) ==
  CASE e.status = "denied" ->
         Permission(b, "deny", "rule", "none", "none", NoOffer)
    [] e.status # "denied" /\ e.action # "read" ->
         Permission(b, "auto", "rule", "none", "none", NoOffer)
    [] OTHER -> b

PermissionFromAudit(b, e, offer) ==
  CASE e.status = "denied" /\ ~(e.action = "write" /\ offer.of > 0) ->
         Permission(b, "deny", "rule", "none", "none", NoOffer)
    [] e.status # "denied" /\ e.action # "read" ->
         Permission(b, "auto", "rule", "none", "none", NoOffer)
    [] OTHER -> b

\* AuditBuffer.Log: the event is kept, then the session log hears of it.
Log(b, action, status, offer) ==
  LET e == [action |-> action, act |-> NextAct, status |-> status]
  IN  PermissionFromAudit([audit |-> Add(b.audit, e), given |-> Append(b.given, e), log |-> b.log],
                          e, offer)

\* logAuthorsAnswer: after "all" the writes that follow are of the session's scope.
LogAction(b, choice, outcome, all, offer) ==
  IF outcome = "denied" THEN Permission(b, "deny", "rule", choice, outcome, offer)
  ELSE IF choice = "no" THEN Permission(b, "deny", "once", choice, outcome, offer)
  ELSE IF choice = "quit" THEN Permission(b, "none", "once", choice, outcome, offer)
  ELSE Permission(b, "allow", IF all THEN "session" ELSE "once", choice, outcome, offer)

Acted(op, on, did) == acts' = Append(acts, [op |-> op, on |-> on, did |-> did])

\* Workspace.WriteFile writes the file a path stands for. os.WriteFile empties it first:
\* where a write failed, the file may be as it was or cut short.
Wrote(w) == files' = [files EXCEPT ![Clean(w)] = NextAct]
NotWritten(w) == UNCHANGED files \/ Wrote(w)

gitAllowedSubcmds == {"status", "diff", "log", "show", "blame"}

----------------------------------------------------------------------------
(* Tools a model calls while a turn is under way; /write and /run are the same. *)

CheckWritePermission(w) == HasPermission(w, "write")

\* The write is refused, fails, or is done; asked is the path the rules are asked about.
Writes(asked, done, failed) ==
  \/ /\ ~CheckWritePermission(asked)
     /\ Acted("write", asked, FALSE) /\ UNCHANGED files
     /\ books' = Log(books, "write", "denied", NoOffer)
  \/ /\ CheckWritePermission(asked)
     /\ Acted("write", asked, FALSE) /\ failed
     /\ books' = Log(books, "write", "error", NoOffer)
  \/ /\ CheckWritePermission(asked)
     /\ Acted("write", asked, TRUE) /\ done
     /\ books' = Log(books, "write", "success", NoOffer)

\* The tools ask about the file. What the formatter then does to it is part of the write.
WriteFile(w) == Writes(Clean(w), Wrote(w), NotWritten(w))
CreateDir(w) == Writes(Clean(w), UNCHANGED files, UNCHANGED files)

\* A block of a reply for which the author types a path: the path is asked about as it
\* is written.
WriteBlock(w) == Writes(w, Wrote(w), NotWritten(w))

\* /write, which writes what the model answered last, if it answered.
WriteReply(w) == WriteBlock(w) \/ UNCHANGED <<files, acts, books>>

\* A read the author cancels, or whose chunks no model could be asked about, is not
\* audited.
ReadFile(w) ==
  /\ UNCHANGED files
  /\ IF HasPermission(Clean(w), "read")
     THEN /\ Acted("read", Clean(w), TRUE)
          /\ books' \in {books} \cup {Log(books, "read", s, NoOffer) : s \in {"success", "error"}}
     ELSE /\ Acted("read", Clean(w), FALSE)
          /\ books' = Log(books, "read", "denied", NoOffer)

\* run_command; what the program does to files is its own.
RunCommand(program) ==
  /\ UNCHANGED files
  /\ IF IsCommandAllowed(program)
     THEN Acted("run", program, TRUE) /\ books' = Log(books, "run", "allowed", NoOffer)
     ELSE Acted("run", program, FALSE) /\ books' = Log(books, "run", "denied", NoOffer)

\* A line after ! that cannot be parsed is not asked about.
ShellLine(program) == RunCommand(program) \/ UNCHANGED <<files, acts, books>>

\* /run finds that out when the program was allowed.
RunLine(program) ==
  \/ RunCommand(program)
  \/ /\ IsCommandAllowed(program)
     /\ Acted("run", program, FALSE) /\ UNCHANGED files
     /\ books' = Log(Log(books, "run", "allowed", NoOffer), "run", "denied", NoOffer)

\* list_files, file_tree and search_files ask no rule and tell nobody.
Look(p) == Acted("look", p, TRUE) /\ UNCHANGED <<files, books>>

\* Nor do git_command and /git, which run a program, one of five subcommands of git.
GitCommand(subcommand) ==
  Acted("git", subcommand, subcommand \in gitAllowedSubcmds) /\ UNCHANGED <<files, books>>

\* Nor does /format, which writes a file formatted, if that changes it. Of several files
\* each is a line of its own.
Format(w) ==
  /\ \/ UNCHANGED <<files, acts>>
     \/ Acted("format", w, TRUE) /\ Wrote(w)
     \/ Acted("format", w, FALSE) /\ NotWritten(w)
  /\ UNCHANGED books

\* The calls of a model, and the blocks of its reply the author is asked a path for.
Calls ==
  /\ doing.what = "turn" /\ Len(acts) < MaxActs
  /\ \/ \E w \in Spellings : WriteFile(w) \/ WriteBlock(w) \/ CreateDir(w) \/ ReadFile(w)
     \/ \E p \in Paths : Look(p)
     \/ \E program \in Programs : RunCommand(program)
     \/ \E subcommand \in {"log", "push"} : GitCommand(subcommand)
  /\ UNCHANGED <<settings, doing, queue, spent>>

\* The reply is there; what it offers is offered when the turn has ended well.
Reply ==
  /\ doing.what = "turn"
  /\ \/ doing' = Prompt
     \/ \E r \in Replies : doing' = Begin("offers", r, Len(books.log))
     \/ doing' = [Prompt EXCEPT !.what = "untagged"]
  /\ UNCHANGED <<settings, files, acts, books, queue, spent>>

----------------------------------------------------------------------------
(* autoExecuteReply: the tagged blocks of a reply, one after the other. *)

Offering == doing.what = "offers"
Block == doing.blocks[doing.at]
Offer == [index |-> doing.at, of |-> Len(doing.blocks)]
NextBlock == [doing EXCEPT !.at = @ + 1, !.asked = FALSE]

\* A path is asked about as the reply writes it.
OfferDenied ==
  /\ Offering /\ doing.at <= Len(doing.blocks) /\ ~doing.asked
  /\ ~CheckWritePermission(Block)
  /\ Acted("write", Block, FALSE)
  /\ books' = LogAction(Log(books, "write", "denied", Offer), "no", "denied", doing.all, Offer)
  /\ doing' = NextBlock
  /\ UNCHANGED <<settings, files, queue, spent>>

OfferAsked ==
  /\ Offering /\ doing.at <= Len(doing.blocks) /\ ~doing.asked
  /\ CheckWritePermission(Block)
  /\ doing' = [doing EXCEPT !.asked = TRUE]
  /\ UNCHANGED <<settings, files, acts, books, queue, spent>>

\* A write that is not audited: the books get the author's answer alone.
OfferWritten(choice) ==
  LET all == doing.all \/ choice = "all"
  IN  \/ /\ Acted("write", Block, TRUE) /\ Wrote(Block)
         /\ books' = LogAction(books, choice, "ok", all, Offer)
         /\ doing' = [NextBlock EXCEPT !.all = all, !.written = @ \cup {doing.at}]
      \/ /\ Acted("write", Block, FALSE) /\ NotWritten(Block)
         /\ books' = LogAction(books, choice, "error", all, Offer)
         /\ doing' = [NextBlock EXCEPT !.all = all]

OfferAnswered ==
  /\ Offering /\ doing.asked /\ ~doing.all
  /\ \E choice \in {"yes", "all"} : OfferWritten(choice)
  /\ UNCHANGED <<settings, queue, spent>>

OfferAfterAll ==
  /\ Offering /\ doing.asked /\ doing.all
  /\ OfferWritten("yes")
  /\ UNCHANGED <<settings, queue, spent>>

OfferSkipped ==
  /\ Offering /\ doing.asked /\ ~doing.all
  /\ Acted("write", Block, FALSE)
  /\ books' = LogAction(books, "no", "skipped", FALSE, Offer)
  /\ doing' = NextBlock
  /\ UNCHANGED <<settings, files, queue, spent>>

\* Quit, or no more input: the offers that are left are neither asked nor recorded.
OfferAborted ==
  /\ Offering /\ doing.asked /\ ~doing.all
  /\ Acted("write", Block, FALSE)
  /\ books' = LogAction(books, "quit", "aborted", FALSE, Offer)
  /\ doing' = Prompt
  /\ UNCHANGED <<settings, files, queue, spent>>

\* Variant: the command is given at once and the offers go on.
OfferCommandRuns ==
  /\ Offering /\ doing.asked /\ ~doing.all
  /\ \E c \in Lines : Permissions(c)
  /\ UNCHANGED <<files, acts, books, doing, queue, spent>>

\* queueIfCommand: a command where an answer was asked for waits until the offers are over.
OfferCommand ==
  /\ Offering /\ doing.asked /\ ~doing.all /\ spent.commands < MaxCommands
  /\ Acted("write", Block, FALSE)
  /\ books' = LogAction(books, "quit", "aborted", FALSE, Offer)
  /\ \E c \in Lines : queue' = Append(queue, c)
  /\ spent' = [spent EXCEPT !.commands = @ + 1]
  /\ doing' = Prompt
  /\ UNCHANGED <<settings, files>>

OffersOver ==
  /\ Offering /\ doing.at > Len(doing.blocks)
  /\ doing' = Prompt
  /\ UNCHANGED <<settings, files, acts, books, queue, spent>>

(* A block that is not tagged: a path is suggested or asked for. *)

UntaggedLeft ==
  /\ doing.what = "untagged" /\ doing' = Prompt
  /\ \/ UNCHANGED <<acts, books, queue, spent>>
     \/ /\ \E p \in Suggested, choice \in {"no", "quit"} :
             /\ Acted("write", p, FALSE)
             /\ books' = LogAction(books, choice, "none", FALSE, NoOffer)
        /\ UNCHANGED <<queue, spent>>
     \/ /\ spent.commands < MaxCommands /\ spent' = [spent EXCEPT !.commands = @ + 1]
        /\ \E c \in Lines : queue' = Append(queue, c)
        /\ UNCHANGED <<acts, books>>
  /\ UNCHANGED <<settings, files>>

\* Audited and recorded as the author's choice as well; "all" counts as yes.
UntaggedWritten(w) ==
  /\ doing.what = "untagged" /\ doing' = Prompt
  /\ \/ /\ ~CheckWritePermission(w)
        /\ Acted("write", w, FALSE) /\ UNCHANGED files
        /\ books' = Log(books, "write", "denied", NoOffer)
     \/ /\ CheckWritePermission(w)
        /\ Acted("write", w, FALSE) /\ NotWritten(w)
        /\ books' = LogAction(Log(books, "write", "error", NoOffer), "yes", "error", FALSE, NoOffer)
     \/ /\ CheckWritePermission(w)
        /\ Acted("write", w, TRUE) /\ Wrote(w)
        /\ books' = LogAction(Log(books, "write", "success", NoOffer), "yes", "ok", FALSE, NoOffer)
  /\ UNCHANGED <<settings, queue, spent>>

----------------------------------------------------------------------------
(* The author's lines: the queued one first. *)

NextLine(c) ==
  /\ doing.what = "prompt"
  /\ \/ queue # <<>> /\ c = Head(queue) /\ queue' = Tail(queue) /\ UNCHANGED spent
     \/ /\ queue = <<>> /\ spent.commands < MaxCommands
        /\ spent' = [spent EXCEPT !.commands = @ + 1] /\ UNCHANGED queue

SettingsCommand ==
  /\ \E c \in Lines : NextLine(c) /\ (SafeMode(c) \/ Permissions(c) \/ ModelAlias(c))
  /\ UNCHANGED <<files, acts, books, doing>>

AuditClear ==
  /\ \E c \in Lines : NextLine(c) /\ c.op = "audit clear"
  /\ books' = [audit |-> Clear(books.audit), given |-> <<>>, log |-> books.log]
  /\ UNCHANGED <<settings, files, acts, doing>>

Command ==
  /\ \E c \in Lines :
       /\ NextLine(c)
       /\ \/ c.op = "write" /\ WriteReply(c.on)
          \/ c.op = "format" /\ Format(c.on)
          \/ c.op = "git" /\ GitCommand(c.on)
          \/ c.op = "run" /\ RunLine(c.on)
          \/ c.op = "!" /\ ShellLine(c.on)
  /\ UNCHANGED <<settings, doing>>

\* /read takes its files one after the other; a file that fails does not stop it.
Read ==
  /\ \E c \in Lines : /\ NextLine(c) /\ c.op = "read"
                     /\ doing' = Begin("reading", c.on, 0)
  /\ UNCHANGED <<settings, files, acts, books>>

\* /read-dir asks for the directory itself before it walks it.
ReadDir ==
  /\ \E c \in Lines :
       /\ NextLine(c) /\ c.op = "read-dir"
       /\ IF HasPermission(c.on, "read")
          THEN /\ doing' = Begin("walking", SetToSeq({p \in Paths : IsStrictPrefix(c.on, p)}), 0)
               /\ UNCHANGED <<acts, books>>
          ELSE /\ Acted("read", c.on, FALSE) /\ UNCHANGED doing
               /\ books' = Log(books, "read", "denied", NoOffer)
  /\ UNCHANGED <<settings, files>>

\* The file at hand was read, or not; what became of it is audited.
Took(h) ==
  /\ books' = Log(books, "read", h, NoOffer)
  /\ Acted("read", doing.blocks[doing.at], h # "denied")
  /\ doing' = [doing EXCEPT !.at = @ + 1]

ReadAnother ==
  /\ doing.what = "reading" /\ doing.at <= Len(doing.blocks)
  /\ IF HasPermission(doing.blocks[doing.at], "read")
     THEN \E h \in {"success", "error"} : Took(h)
     ELSE Took("denied")
  /\ UNCHANGED <<settings, files, queue, spent>>

\* A file that is hidden, binary, too long or not readable is left out unsaid, and the
\* walk ends when it has taken all it may.
WalkOn ==
  /\ doing.what = "walking" /\ doing.at <= Len(doing.blocks)
  /\ \/ Took(IF HasPermission(doing.blocks[doing.at], "read") THEN "success" ELSE "denied")
     \/ /\ HasPermission(doing.blocks[doing.at], "read")
        /\ doing' \in {[doing EXCEPT !.at = @ + 1], Prompt}
        /\ UNCHANGED <<acts, books>>
  /\ UNCHANGED <<settings, files, queue, spent>>

ReadOver ==
  /\ doing.what \in {"reading", "walking"} /\ doing.at > Len(doing.blocks)
  /\ doing' = Prompt
  /\ UNCHANGED <<settings, files, acts, books, queue, spent>>

ReadNext == ReadAnother \/ WalkOn \/ ReadOver

Ask ==
  /\ doing.what = "prompt" /\ queue = <<>> /\ spent.commands < MaxCommands
  /\ spent' = [spent EXCEPT !.commands = @ + 1]
  /\ doing' = [Prompt EXCEPT !.what = "turn"]
  /\ UNCHANGED <<settings, files, acts, books, queue>>

\* The process ends or is killed, and the next one starts with a buffer of its own.
Restart ==
  /\ spent.ends < MaxEnds /\ spent' = [spent EXCEPT !.ends = @ + 1]
  /\ (doing.what = "prompt" /\ queue = <<>>) \/ "kill" \in Happenings
  /\ Startup
  /\ books' = [audit |-> NewAuditBuffer, given |-> <<>>, log |-> books.log]
  /\ doing' = Prompt /\ queue' = <<>>
  /\ UNCHANGED <<files, acts>>

Edited ==
  /\ spent.ends < MaxEnds /\ spent' = [spent EXCEPT !.ends = @ + 1]
  /\ AuthorEdits
  /\ UNCHANGED <<files, acts, books, doing, queue>>

Offered ==
  \/ OfferDenied \/ OfferAsked \/ OfferAnswered \/ OfferAfterAll \/ OfferSkipped
  \/ OfferAborted \/ OfferCommand \/ OffersOver
  \/ UntaggedLeft \/ \E w \in Spellings : UntaggedWritten(w)

Next ==
  \/ Calls \/ Reply \/ Offered
  \/ SettingsCommand \/ AuditClear \/ Command \/ Read \/ ReadDir \/ ReadNext \/ Ask
  \/ Restart \/ Edited

\* The author answers what he is asked, a model's reply comes or fails, and a queued
\* line is read; nobody has to type, edit or end anything.
Spec ==
  /\ Init /\ [][Next]_vars
  /\ WF_vars(Reply) /\ WF_vars(Offered) /\ WF_vars(ReadNext)
  /\ WF_vars(queue # <<>> /\ (SettingsCommand \/ AuditClear \/ Command \/ Read \/ ReadDir))

----------------------------------------------------------------------------
(* Type invariant. *)
Events == [action : {"read", "write", "run"}, act : Nat,
           status : {"denied", "error", "success", "allowed"}]

Told == [act : Nat, decision : {"allow", "auto", "deny", "none"},
         scope : {"rule", "once", "session"}, choice : {"none", "no", "quit", "yes", "all"},
         outcome : {"none", "ok", "error", "skipped", "aborted", "denied"},
         offer : [index : Nat, of : Nat]]

AccessTypeOK ==
  /\ config \in [safe : BOOLEAN, allowed : SUBSET Programs, permissions : Rules,
                 aliases : SUBSET Aliases]
  /\ yaml \in Files /\ behind \subseteq {"rules", "aliases"}
  /\ files \in [Paths -> 0 .. Len(acts)]
  /\ \A i \in DOMAIN acts : acts[i].did \in BOOLEAN
  /\ books \in [audit : [events : [Places -> Events \cup {NoEvent}], head : Places,
                         count : 0 .. Capacity],
                given : Seq(Events), log : Seq(Told)]
  /\ doing \in [what : {"prompt", "turn", "offers", "untagged", "reading", "walking"},
                blocks : Seq(Spellings), at : Nat, all : BOOLEAN, asked : BOOLEAN, from : Nat,
                written : SUBSET Nat]
  /\ queue \in Seq(Lines)
  /\ spent \in [commands : Nat, ends : Nat]

\* /audit show, after the ring has gone round any number of times and was cleared in
\* between, shows the newest of what it was given, newest first, and as many as fit
\* (audit.go Add, Get, Clear).
AuditIsRecent ==
  LET n == Len(books.given) IN
  GetAll(books.audit) =
    [i \in 1 .. IF n < Capacity THEN n ELSE Capacity |-> books.given[n + 1 - i]]

\* The blocks of a reply are each recorded once and in their order, whatever mixture of
\* refusals, answers and failures they meet, and the record says ok of those that were
\* written and of no others (autoExecuteReply, logAuthorsAnswer).
OffersAccounted ==
  Offering =>
    LET told == SubSeq(books.log, doing.from + 1, Len(books.log))
    IN  /\ Len(told) = doing.at - 1
        /\ \A i \in DOMAIN told :
             /\ told[i].offer = [index |-> i, of |-> Len(doing.blocks)]
             /\ told[i].outcome = "ok" <=> i \in doing.written

\* A file is changed by /format, which asks no rule, or at a path the rules in force let
\* Harvey write to. The tools ask about the file itself. A path the author or a reply gave
\* is asked about as it is written, before the author answers, and written when he has
\* answered (commands.go:3430 and 3471): the rule asked is that of the file when it is
\* written as filepath.Clean leaves it; "./src/a" is asked of the rule of the root.
DeniedLeftAlone ==
  [][\A p \in Paths : files'[p] # files[p] =>
       LET a == Last(acts') IN
       a.op = "format" \/ (Clean(a.on) = p /\ HasPermission(a.on, "write"))]_vars

\* The session log tells of every write and every program that the rules or the author
\* were asked about, of some twice, and of what was done it says nothing but that it was
\* allowed. An act and its records are one step here: a kill between them is left out.
RecordedTruly ==
  \A a \in DOMAIN acts : acts[a].op \in {"write", "run"} =>
    LET told == {i \in DOMAIN books.log : books.log[i].act = a} IN
    /\ told # {}
    /\ acts[a].did => \A i \in told : books.log[i].decision \in {"allow", "auto"}

\* RecordsAreTrue: the audit shows the newest of the events it was given, however often
\* its ring went round; the tagged blocks of a reply have one permission event each, in
\* order, that says whether they were written; and every other write or program the rules
\* or the author were asked about has one or two, none of which denies what was done
\* (audit.go, permissionFromAudit, logAuthorsAnswer). Neither record knows of /format,
\* /git and git_command, and tagged blocks that are written are not audited.
RecordsAreTrue == AuditIsRecent /\ OffersAccounted /\ RecordedTruly

\* What a command reported as saved of safe mode, the allowlist, the permissions and the
\* aliases is in force again after a restart, the other command's section included,
\* whatever writes failed before it; unless it was the last of the allowed programs or of
\* the aliases that was taken away, or the file has a section the program no longer knows
\* or takes for wrong, at which reading stops (Misfit). Other settings are not in the
\* model; tool_result_compaction turned back on is one that is not kept (config.go:977).
SavedAreInForce ==
  LET then == LoadHarveyYAML(yaml) IN
  ~Misfit(yaml) =>
    /\ "rules" \notin behind =>
         /\ then.safe = config.safe /\ then.permissions = config.permissions
         /\ config.allowed = {} \/ then.allowed = config.allowed
    /\ "aliases" \notin behind => config.aliases = {} \/ then.aliases = config.aliases
=============================================================================
