-------------------------------- MODULE Repl --------------------------------
(***************************************************************************)
(* What becomes of a line typed at Harvey's prompt or read from a script:  *)
(* a command, a shell line, a prompt for the model in use or for a route,  *)
(* a change of models; the remote files /read and /attach bring in; and    *)
(* the status a script exits with. See Routes, Remote; the turn itself is  *)
(* in ChatTurn, the shell line in Access, the change of models in Models.  *)
(***************************************************************************)
EXTENDS Routes, Remote

CONSTANTS
  Typed,         \* the lines that may be typed, as Line
  Aliases,       \* words of /model alias and the model each names
  Tags,          \* words of aliases' tags and the model of the first such alias
  Flaky,         \* words whose server may not answer
  Sees,          \* models that take images
  Images,        \* URIs of images
  NoLine,
  MaxLines, MaxStarts

Mention(name, rest) == [form |-> "mention", name |-> name, rest |-> rest]

\* What the words of a command are once they are read; /route rm and use take any name.
Parsed(c) ==
  /\ c.op = "add" =>
       c.name \in RouteNames /\ c.url \in URLs \cup BadURLs /\ c.model \in RouteModels \cup {Unnamed}
  /\ c.op \in {"set", "on", "off"} => c.on \in BOOLEAN
  /\ c.op \in {"read", "attach"} => c.uris \in Seq(URIs)

\* What begins with neither @ nor /.
Bare(l) == l.form \in {"plain", "shell"}

\* "at" is a line that begins with @ and names nobody.
Line(l) ==
  /\ l # NoLine /\ (Bare(l) \/ l.form \in {"command", "mention", "at"})
  /\ l.form = "command" => Parsed(l.cmd)

ASSUME ReplAssumption ==
  /\ Range(Tags) \subseteq Range(Aliases)
  /\ \A l \in Typed : Line(l) /\ (l.form = "mention" => l.rest = NoLine \/ Line(l.rest))
  /\ {MaxLines, MaxStarts} \subseteq Nat

VARIABLES
  line,      \* the input, as far as it has been read
  at,        \* what is being done with it
  model,     \* the model in use, or Unnamed
  sent,      \* what was typed, under which sticky route, and who was given it
  taking,    \* the files a /read or /attach is to take, those it took, and its first failure
  added,     \* what the line at hand, a /read or /attach, put in the conversation
  session    \* is anybody at a terminal; the first failure that counts;
             \* the first of each handler; lines and starts so far

vars == <<routing, held, fetch, line, at, model, sent, taking, added, session>>

Nobody == [to |-> "nobody"]
Nothing == [op |-> "none", todo |-> <<>>, parts |-> <<>>, first |-> "ok"]
Session(interactive, lines, starts) ==
  [interactive |-> interactive, status |-> "ok", failures |-> <<>>, lines |-> lines, starts |-> starts]

\* skippedRoutes: with routes of a removed kind in the file a script does not run.
MayRun(interactive) == interactive \/ RemovedRoutes(file) = {}

Init ==
  /\ RoutesInit /\ NotFetching
  /\ line = NoLine /\ at = "prompt" /\ taking = Nothing /\ added = <<>>
  /\ model \in {Unnamed} \cup Sees
  /\ sent = [line |-> NoLine, via |-> Unnamed, who |-> Nobody]
  /\ \E interactive \in BOOLEAN :
       /\ MayRun(interactive) /\ (interactive \/ model # Unnamed)
       /\ session = Session(interactive, 0, 1)

----------------------------------------------------------------------------
(* The status of a script: that of the first command or turn that failed. *)

\* Variant: that of the last.
KeepLastFailure(existing, candidate) == IF candidate = "ok" THEN existing ELSE candidate

KeepFirstFailure(existing, candidate) == IF existing = "ok" THEN candidate ELSE existing

\* The handler of a line is over; by is which one, class how it went. What a route or a
\* shell line came to is only printed.
Over(by, class) ==
  /\ at' = "prompt" /\ line' = NoLine
  /\ session' = [session EXCEPT
       !.status = IF session.interactive \/ by \in {"route", "shell", "name"} THEN @
                  ELSE KeepFirstFailure(@, class),
       !.failures = IF class = "ok" \/ \E f \in Range(@) : f.by = by THEN @
                     ELSE Append(@, [by |-> by, class |-> class])]

Goes(stage, rest) == at' = stage /\ line' = rest /\ UNCHANGED session

----------------------------------------------------------------------------
(* Reading the line. *)

\* A shell line is no exception; a line that begins with @ is one, also when nobody is named.
WithActiveRoute(l) == IF active # Unnamed /\ Bare(l) THEN Mention(active, l) ELSE l

Type ==
  /\ at = "prompt" /\ session.lines < MaxLines
  /\ \E l \in Typed :
       /\ line' = WithActiveRoute(l)
       /\ sent' = [line |-> l, via |-> active, who |-> Nobody]
  /\ at' = "typed" /\ added' = <<>> /\ session' = [session EXCEPT !.lines = @ + 1]
  /\ UNCHANGED <<routing, held, fetch, model, taking>>

\* What attemptModelSwitch finds: an alias, then a model that an alias names.
Switchable == DOMAIN Aliases \cup Range(Aliases)
SwitchTo(name) == IF name \in DOMAIN Aliases THEN Aliases[name] ELSE name

IsMention == line.form = "mention"
IsAlias == IsMention /\ line.name \in Switchable

\* Before routes are thought of; what follows the name is read like a line of its own.
Switch ==
  /\ at = "typed" /\ IsAlias
  /\ \/ /\ model' = SwitchTo(line.name)
        /\ Goes(IF line.rest = NoLine THEN "prompt" ELSE "switched", line.rest)
     \/ line.name \in Flaky /\ Over("switch", "unavailable") /\ UNCHANGED model
  /\ UNCHANGED <<routing, held, fetch, sent, taking, added>>

\* A name that is no alias is still there.
Reading == at = "switched" \/ (at = "typed" /\ ~IsAlias)

Routed == Reading /\ IsMention /\ routes.enabled /\ Known(line.name)

\* An endpoint without a model is asked for the one in use here.
AskRoute ==
  /\ Routed
  /\ LET e == Lookup(line.name) IN
       sent' = [sent EXCEPT !.who = [to |-> "route", name |-> line.name, url |-> e.url,
                  model |-> IF e.model = Unnamed THEN model ELSE e.model, tools |-> e.tools]]
  /\ Goes("routed", line.rest)
  /\ UNCHANGED <<routing, held, fetch, model, taking, added>>

\* A name that is no route, or routing is off: an alias after all, or a tag; what follows
\* is then a prompt whatever it looks like.
SwitchByTag ==
  /\ Reading /\ IsMention /\ ~Routed
  /\ line.name \in Switchable \cup DOMAIN Tags
  /\ \/ /\ model' = SwitchTo(IF IsAlias THEN line.name ELSE Tags[line.name])
        /\ Goes(IF line.rest = NoLine THEN "prompt" ELSE "chat", line.rest)
     \/ line.name \in Flaky /\ Over("name", "unavailable") /\ UNCHANGED model
  /\ UNCHANGED <<routing, held, fetch, sent, taking, added>>

\* Variant: a name nobody has is part of a prompt.
NotFoundIsPrompt ==
  /\ Reading /\ IsMention /\ ~Routed
  /\ line.name \notin Switchable \cup DOMAIN Tags
  /\ Goes("chat", line)
  /\ UNCHANGED <<routing, held, fetch, model, sent, taking, added>>

NotFound ==
  /\ Reading /\ IsMention /\ ~Routed
  /\ line.name \notin Switchable \cup DOMAIN Tags
  /\ Over("name", "negative")
  /\ UNCHANGED <<routing, held, fetch, model, sent, taking, added>>

Chat ==
  /\ at = "chat" \/ (Reading /\ line.form \in {"plain", "at"})
  /\ IF model = Unnamed THEN Over("name", "unavailable") /\ UNCHANGED sent
     ELSE /\ sent' = [sent EXCEPT !.who = [to |-> "local", model |-> model]]
          /\ Goes("asked", line)
  /\ UNCHANGED <<routing, held, fetch, model, taking, added>>

Shell ==
  /\ Reading /\ line.form = "shell"
  /\ sent' = [sent EXCEPT !.who = [to |-> "shell"]]
  /\ \E class \in {"ok", "io"} : Over("shell", class)
  /\ UNCHANGED <<routing, held, fetch, model, taking, added>>

\* The turn is over: answered, failed, or given up by the author, perhaps when the answer
\* was there already.
Answered ==
  /\ \/ at = "routed" /\ \E class \in {"ok", "unavailable", "data"} : Over("route", class)
     \/ at = "asked" /\ \E class \in {"ok", "unavailable"} : Over("turn", class)
  /\ UNCHANGED <<routing, held, fetch, model, sent, taking, added>>

----------------------------------------------------------------------------
(* Commands. *)

Command ==
  /\ Reading /\ line.form = "command"
  /\ LET c == line.cmd IN
     \/ /\ \E class \in {"ok", "usage", "negative", "io"} : CmdRoute(c, class) /\ Over("command", class)
        /\ UNCHANGED taking
     \/ /\ c.op \in {"read", "attach"}
        /\ taking' = [Nothing EXCEPT !.op = c.op, !.todo = c.uris]
        /\ Goes("taking", line) /\ UNCHANGED routing
     \/ /\ c.op = "exit" /\ Goes("ended", NoLine) /\ UNCHANGED <<routing, taking>>
  /\ sent' = [sent EXCEPT !.who = [to |-> "command"]]
  /\ UNCHANGED <<held, fetch, model, added>>

Take ==
  /\ at = "taking" /\ taking.todo # <<>> /\ Starts(Head(taking.todo))
  /\ UNCHANGED <<routing, line, at, model, sent, taking, added, session>>

Fetch ==
  /\ Fetching
  /\ UNCHANGED <<routing, line, at, model, sent, taking, added, session>>

\* How a file joins the conversation: as an image the model in use sees, or a note about
\* it; as text. What is too large or not text is refused by /attach.
As(u) == IF u \notin Images \/ taking.op = "read" THEN "text" ELSE IF model \in Sees THEN "image" ELSE "note"

FailedLeft == Tail(taking.todo)

Taken ==
  /\ fetch.stage \in {"done", "failed"}
  /\ \/ /\ fetch.stage = "done"
        /\ taking' = [taking EXCEPT !.todo = Tail(@), !.parts =
             Append(@, [uri |-> fetch.uri, body |-> fetch.got, as |-> As(fetch.uri)])]
     \/ /\ fetch.stage = "failed" \/ taking.op = "attach"
        /\ taking' = [taking EXCEPT !.todo = FailedLeft, !.first =
             KeepFirstFailure(@, IF fetch.stage = "failed" THEN fetch.class ELSE "data")]
  /\ Stops
  /\ UNCHANGED <<routing, line, at, model, sent, added, session>>

\* What was taken is one message; a file that failed does not keep the others out.
AllTaken ==
  /\ at = "taking" /\ taking.todo = <<>>
  /\ added' = taking.parts
  /\ taking' = Nothing
  /\ Over("command", taking.first)
  /\ UNCHANGED <<routing, held, fetch, model, sent>>

----------------------------------------------------------------------------
\* The end of the input, at the prompt.
Quit ==
  /\ at = "prompt" /\ Goes("ended", NoLine) /\ added' = <<>>
  /\ UNCHANGED <<routing, held, fetch, model, sent, taking>>

\* Harvey is started once more, after it ended or died.
Start(interactive) ==
  /\ session.starts < MaxStarts /\ MayRun(interactive)
  /\ RoutesStartup
  /\ model' \in {Unnamed} \cup Sees /\ (interactive \/ model' # Unnamed)
  /\ line' = NoLine /\ at' = "prompt" /\ taking' = Nothing /\ added' = <<>> /\ Stops
  /\ sent' = [line |-> NoLine, via |-> Unnamed, who |-> Nobody]
  /\ session' = Session(interactive, session.lines, session.starts + 1)

Changes ==
  /\ RemoteChanges
  /\ UNCHANGED <<routing, line, at, model, sent, taking, added, session>>

Reads == Switch \/ AskRoute \/ SwitchByTag \/ NotFound \/ Chat \/ Shell \/ Command
Takes == Take \/ Taken \/ AllTaken

Next ==
  \/ Type \/ Reads \/ Answered \/ Takes \/ Fetch \/ Quit
  \/ \E interactive \in BOOLEAN : Start(interactive)
  \/ Changes

\* A server that is asked answers, in the end, or the connection to it fails.
Spec ==
  Init /\ [][Next]_vars /\ WF_vars(Reads) /\ WF_vars(Takes) /\ WF_vars(Answered) /\ WF_vars(Fetch)

----------------------------------------------------------------------------
\* Whom a line names: a second name counts after an alias or a model only; after a tag it
\* is part of the prompt.
Mentioned(l) ==
  IF l = NoLine \/ l.form # "mention" THEN {}
  ELSE {l.name} \cup IF l.name \notin Switchable \/ l.rest = NoLine \/ l.rest.form # "mention"
                     THEN {} ELSE {l.rest.name}

\* A line that names nobody is addressed to the sticky route, if there is one, unless it
\* begins with @ or /.
Addressed ==
  IF Mentioned(sent.line) # {} THEN Mentioned(sent.line)
  ELSE IF sent.via = Unnamed \/ ~Bare(sent.line) THEN {} ELSE {sent.via}

\* What is addressed to a route, by name or because a route is sticky, is answered by
\* that route or by nobody, also when it was removed, is switched off or fails: the model
\* in use gets a line only when every name in it is an alias, a model that an alias names
\* or a tag, and a route only when every other name in it is an alias or such a model. A
\* route that has the name of an alias or of such a model is not meant by that name, and
\* a line that begins with @ and a blank is addressed to nobody (terminal.go:559 to 813).
AddressedStays ==
  /\ sent.who.to = "local" => Addressed \subseteq Switchable \cup DOMAIN Tags
  /\ sent.who.to = "route" =>
       sent.who.name \in Addressed /\ Addressed \subseteq {sent.who.name} \cup Switchable

FirstOf(handlers) ==
  LET counted == {k \in DOMAIN session.failures : session.failures[k].by \in handlers}
  IN  IF session.interactive \/ counted = {} THEN "ok" ELSE session.failures[Min(counted)].class

\* A script exits with the class of the first of these that failed, whatever came after it:
\* a command, a turn of the model in use, and a change of models made before routes are
\* looked up. A change made after that, by a tag or at the second look among the aliases
\* (terminal.go:783, 800), a routed turn, a shell line, a name nobody has and a prompt with
\* no model count for nothing. A session at a terminal has no status (terminal.go:269).
StatusIsFirst == session.status = FirstOf({"command", "turn", "switch"})

=============================================================================
