---------------------------- MODULE SessionFiles ----------------------------
(***************************************************************************)
(* The sessions directory: the three files of a recorded session, what a   *)
(* session does to them, and what the next one finds (sessionfile.go,      *)
(* recorder.go, sessionload.go, the files of sessionlog.go, /rename and    *)
(* /session replay).                                                       *)
(*                                                                         *)
(* A session NAME has its log NAME.jsonl, the payloads NAME.blobs its log  *)
(* refers to, and its Fountain file NAME.spmd: a title page while it is    *)
(* recorded, the rendering of the log when it ends.  Each action is one    *)
(* call that changes the directory, and the process may be killed between  *)
(* any two.  What an append leaves on a faulty disk is SessionLog's; here  *)
(* it is written or it is not.                                             *)
(*                                                                         *)
(* Modification times are kept as far as RecoverSessionFiles compares      *)
(* them: for each Fountain file, the logs that were written after it.      *)
(***************************************************************************)
EXTENDS Naturals, FiniteSets

CONSTANTS
  Names,       \* file names without extension
  Payloads,    \* texts that go to a blob
  NoName, NoPayload,
  Faults,      \* the calls that may fail: see AllFaults
  Happenings,  \* what else may happen: see AllHappenings
  MaxEvents,   \* bound: events in one log
  MaxSessions  \* bound: sessions recorded

\* The Fountain file cannot be created; the log cannot be created; an append fails;
\* the rename of the log, of the blobs, of the Fountain file fails; the renamed
\* Fountain file cannot be opened again; a rendering cannot be written.
AllFaults == {"create", "open", "append", "movelog", "moveblobs", "movefile", "reopen", "render"}

\* A recording is started under a name that has files; a session is renamed over a
\* Fountain file that has no log; a second call fails while a rename is undone; the
\* process is killed inside a rename; the process is killed, or the rendering
\* fails, between the end of the log and the rendering.
AllHappenings == {"reuse", "over", "twice", "cutmove", "cutend"}

ASSUME ConstantsOK ==
  /\ NoName \notin Names /\ NoPayload \notin Payloads
  /\ Faults \subseteq AllFaults
  /\ Happenings \subseteq AllHappenings
  /\ MaxEvents \in Nat \ {0, 1} /\ MaxSessions \in Nat

VARIABLES
  logs,    \* NAME.jsonl: the session whose log it is
  blobs,   \* NAME.blobs: the payloads in it; {} when there is no such directory
  spmd,    \* NAME.spmd
  data,    \* what the log of each session holds
  begun,   \* how many sessions have been begun
  at,      \* where the process is; "down" when there is none
  me,      \* the records of the session that runs: Agent.Recorder and SessionLog
  outer,   \* the records a /session replay has put aside
  to,      \* the name a rename goes to
  undo,    \* the rename under way takes another one back
  todo,    \* the logs RecoverSessionFiles has still to look at
  apart    \* the sessions whose files something has left apart; see Parts

disk == <<logs, blobs, spmd, data>>
vars == <<logs, blobs, spmd, data, begun, at, me, outer, to, undo, todo, apart>>

Sessions == 1..MaxSessions
NoSession == 0
NoFile == [none |-> "file"]

Log == [events : 0..MaxEvents, refs : SUBSET Payloads, ended : BOOLEAN]

\* events and refs: how much of the log of session "of" is rendered in it.
\* behind: the sessions whose log was written after it.
Fountain == [of : Sessions, events : 0..MaxEvents, refs : SUBSET Payloads, behind : SUBSET Sessions]

\* rec, log: the names the recorder and the log believe their files have.
\* fd: the recorder's file is open.  payload: in its blob, not yet in an event.
Run == [kind : {"none", "repl", "replay"}, session : Sessions \cup {NoSession},
        rec : Names \cup {NoName}, fd : BOOLEAN, log : Names \cup {NoName},
        payload : Payloads \cup {NoPayload}]

NotRecorded(kind) == [kind |-> kind, session |-> NoSession, rec |-> NoName, fd |-> FALSE,
                      log |-> NoName, payload |-> NoPayload]
NoRun == NotRecorded("none")

Moving == {"movelog", "moveblobs", "movefile"}
Ending == {"close", "render"}
Places == {"down", "recover", "ready", "open", "first", "idle"} \cup Moving \cup Ending

Init ==
  /\ logs = [name \in Names |-> NoSession]
  /\ blobs = [name \in Names |-> {}]
  /\ spmd = [name \in Names |-> NoFile]
  /\ data = [s \in Sessions |-> [events |-> 0, refs |-> {}, ended |-> FALSE]]
  /\ begun = 0
  /\ at = "down" /\ me = NoRun /\ outer = NoRun
  /\ to = NoName /\ undo = FALSE /\ todo = {} /\ apart = {}

Fails(fault) == fault \in Faults
May(happening) == happening \in Happenings

-----------------------------------------------------------------------------
(* Files.                                                                  *)

\* ReadSessionLog gives events, and RenderFountain something to write.
Renders(name) == logs[name] # NoSession /\ data[logs[name]].events > 0

\* What RenderSessionFile writes; a payload that is not there is not shown.
Rendering(name) ==
  LET log == data[logs[name]]
  IN [of |-> logs[name], events |-> log.events, refs |-> log.refs \cap blobs[name], behind |-> {}]

TitlePage(s) == [of |-> s, events |-> 0, refs |-> {}, behind |-> {}]

\* The log of s is written to: every Fountain file is now older than it.
Touched(s) ==
  [name \in Names |-> IF spmd[name] = NoFile THEN NoFile
                      ELSE [spmd[name] EXCEPT !.behind = @ \cup {s}]]

\* An event is appended to the log of the session that runs.
Append(ends) ==
  /\ data' = [data EXCEPT ![me.session] =
                [events |-> @.events + 1, ended |-> ends,
                 refs |-> @.refs \cup ({me.payload} \ {NoPayload})]]
  /\ spmd' = Touched(me.session)

\* os.Rename: what was at the new name is gone.
Moved(f, from, name, nothing) == [f EXCEPT ![from] = nothing, ![name] = f[from]]

\* What the code lets happen to these sessions leaves their files incomplete or
\* under two names: nothing is said of them any more, but of all others.
Parts(ss) == apart' = apart \cup (ss \ {NoSession})

\* The session whose Fountain file has this name.
Owner(name) == IF spmd[name] = NoFile THEN NoSession ELSE spmd[name].of

-----------------------------------------------------------------------------
(* Startup: RecoverSessionFiles, then a recording, or a replay.            *)

Start ==
  /\ at = "down"
  /\ at' = "recover"
  /\ todo' = {name \in Names : logs[name] # NoSession}
  /\ UNCHANGED <<disk, begun, me, outer, to, undo, apart>>

\* Variant: a Fountain file that is there is left alone.
TakesMissing(name) ==
  /\ Renders(name)
  /\ ~data[logs[name]].ended
  /\ spmd[name] = NoFile

\* The log has no session_end, and no rendering since it was last written.
Takes(name) ==
  /\ Renders(name)
  /\ ~data[logs[name]].ended
  /\ spmd[name] # NoFile => logs[name] \in spmd[name].behind

Recover(name) ==
  /\ at = "recover"
  /\ todo' = todo \ {name}
  /\ \/ Takes(name) /\ spmd' = [spmd EXCEPT ![name] = Rendering(name)]
     \/ (~Takes(name) \/ Fails("render")) /\ UNCHANGED spmd
  /\ UNCHANGED <<logs, blobs, data, begun, at, me, outer, to, undo, apart>>

Recovered ==
  /\ at = "recover" /\ todo = {}
  /\ at' = "ready"
  /\ UNCHANGED <<disk, begun, me, outer, to, undo, todo, apart>>

Unused(name) == logs[name] = NoSession /\ blobs[name] = {} /\ spmd[name] = NoFile

\* NewRecorder, at startup or for /session replay, which puts the records of the
\* session that runs aside.
NewRecorder(name, kind) ==
  /\ at = "ready" \/ (at = "idle" /\ me.kind = "repl" /\ kind = "replay")
  /\ begun < MaxSessions
  /\ Unused(name) \/ May("reuse")
  /\ begun' = begun + 1
  /\ spmd' = [spmd EXCEPT ![name] = TitlePage(begun')]
  /\ me' = [NotRecorded(kind) EXCEPT !.session = begun', !.rec = name, !.fd = TRUE]
  /\ outer' = me
  /\ at' = "open"
  /\ Parts({logs[name], Owner(name)})
  /\ UNCHANGED <<logs, blobs, data, to, undo, todo>>

\* A session goes on without records, a replay at startup does not.
NoRecorder(kind) ==
  /\ at = "ready" /\ Fails("create")
  /\ me' = IF kind = "repl" THEN NotRecorded(kind) ELSE NoRun
  /\ at' = IF kind = "repl" THEN "idle" ELSE "down"
  /\ UNCHANGED <<disk, begun, outer, to, undo, todo, apart>>

\* Variant: the file is opened without O_EXCL.
OpenSessionLogAnyway ==
  /\ at = "open"
  /\ logs' = [logs EXCEPT ![me.rec] = me.session]
  /\ me' = [me EXCEPT !.log = me.rec]
  /\ at' = "first"
  /\ UNCHANGED <<blobs, spmd, data, begun, outer, to, undo, todo, apart>>

\* The file is created, or refused because there is one.
OpenSessionLog ==
  /\ at = "open"
  /\ \/ /\ logs[me.rec] = NoSession
        /\ logs' = [logs EXCEPT ![me.rec] = me.session]
        /\ me' = [me EXCEPT !.log = me.rec]
        /\ at' = "first"
     \/ /\ logs[me.rec] # NoSession \/ Fails("open")
        /\ at' = "idle"
        /\ UNCHANGED <<logs, me>>
  /\ UNCHANGED <<blobs, spmd, data, begun, outer, to, undo, todo, apart>>

\* session_start; without it the session has no log, but the file stays.
FirstEvent ==
  /\ at = "first"
  /\ at' = "idle"
  /\ \/ /\ Append(FALSE)
        /\ me' = [me EXCEPT !.payload = NoPayload]
     \/ /\ Fails("append")
        /\ me' = [me EXCEPT !.payload = NoPayload, !.log = NoName]
        /\ UNCHANGED <<data, spmd>>
  /\ UNCHANGED <<logs, blobs, begun, outer, to, undo, todo, apart>>

-----------------------------------------------------------------------------
(* The session runs.                                                       *)

\* A payload that is too long for the event goes to its blob first.
WriteBlob(payload) ==
  /\ at \in {"first", "idle"} /\ me.log # NoName /\ me.payload = NoPayload
  /\ blobs' = [blobs EXCEPT ![me.log] = @ \cup {payload}]
  /\ me' = [me EXCEPT !.payload = payload]
  /\ UNCHANGED <<logs, spmd, data, begun, at, outer, to, undo, todo, apart>>

LogEvent ==
  /\ at = "idle" /\ me.log # NoName
  /\ data[me.session].events < MaxEvents - 1
  /\ Append(FALSE) \/ (Fails("append") /\ UNCHANGED <<data, spmd>>)
  /\ me' = [me EXCEPT !.payload = NoPayload]
  /\ UNCHANGED <<logs, blobs, begun, at, outer, to, undo, todo, apart>>

\* SessionLog.Rename refuses a name that has a log or blobs.
Taken(name) == logs[name] # NoSession \/ blobs[name] # {}

\* /rename: the log and its blobs, then the Fountain file.
Rename(name) ==
  /\ at = "idle" /\ me.kind = "repl" /\ me.rec # NoName /\ me.payload = NoPayload
  /\ May("over") \/ spmd[name] = NoFile \/ name = me.rec
  /\ \/ me.log \in {NoName, name} /\ at' = "movefile"
     \/ me.log \notin {NoName, name} /\ ~Taken(name) /\ at' = "movelog"
  /\ to' = name
  /\ UNCHANGED <<disk, begun, me, outer, undo, todo, apart>>

\* A first failure, or a second one while a rename is undone.
MoveFails(fault) == Fails(fault) /\ (undo => May("twice"))

Idle == at' = "idle" /\ to' = NoName /\ undo' = FALSE

LogMoved ==
  /\ me' = [me EXCEPT !.log = to]
  /\ IF undo THEN Idle ELSE at' = "movefile" /\ UNCHANGED <<to, undo>>

MoveLog ==
  /\ at = "movelog"
  /\ \/ /\ logs[me.log] # NoSession
        /\ logs' = Moved(logs, me.log, to, NoSession)
        /\ \/ blobs[me.log] = {} /\ LogMoved
           \/ blobs[me.log] # {} /\ at' = "moveblobs" /\ UNCHANGED <<me, to, undo>>
        /\ Parts({logs[me.log]} \ {me.session})
     \/ /\ logs[me.log] = NoSession \/ MoveFails("movelog")
        /\ Idle
        /\ IF undo THEN Parts({me.session}) ELSE UNCHANGED apart
        /\ UNCHANGED <<logs, me>>
  /\ UNCHANGED <<blobs, spmd, data, begun, outer, todo>>

\* Variant: the log stays where it went when its blobs could not follow.
MoveBlobsOrNot ==
  /\ at = "moveblobs"
  /\ \/ /\ blobs' = Moved(blobs, me.log, to, {})
        /\ LogMoved
     \/ /\ MoveFails("moveblobs")
        /\ Idle
        /\ UNCHANGED <<blobs, me>>
  /\ UNCHANGED <<logs, spmd, data, begun, outer, todo, apart>>

\* If the blobs cannot follow, the log is moved back.
MoveBlobs ==
  /\ at = "moveblobs"
  /\ \/ /\ blobs' = Moved(blobs, me.log, to, {})
        /\ LogMoved
        /\ UNCHANGED <<logs, apart>>
     \/ /\ MoveFails("moveblobs")
        /\ Idle
        /\ \/ /\ logs' = Moved(logs, to, me.log, NoSession)
              /\ IF undo THEN Parts({me.session}) ELSE UNCHANGED apart
           \/ May("twice") /\ Parts({me.session}) /\ UNCHANGED logs
        /\ UNCHANGED <<blobs, me>>
  /\ UNCHANGED <<spmd, data, begun, outer, todo>>

\* The log goes back to the name the recorder has.
TakeBack ==
  IF me.log \in {NoName, me.rec} \/ Taken(me.rec)
  THEN Idle
  ELSE at' = "movelog" /\ to' = me.rec /\ undo' = TRUE

\* Recorder.Rename: sync, close, rename, open again.
MoveFile ==
  /\ at = "movefile"
  /\ \/ /\ me.fd
        /\ spmd' = Moved(spmd, me.rec, to, NoFile)
        /\ \/ /\ me' = [me EXCEPT !.rec = to] /\ Idle
              /\ Parts({Owner(me.rec), Owner(to)} \ {me.session})
           \/ /\ Fails("reopen") /\ me' = [me EXCEPT !.fd = FALSE] /\ TakeBack
              /\ Parts({Owner(me.rec), Owner(to), me.session})
     \/ /\ me.fd /\ Fails("movefile")
        /\ me' = me \/ (May("twice") /\ me' = [me EXCEPT !.fd = FALSE])
        /\ TakeBack
        /\ UNCHANGED <<spmd, apart>>
     \/ /\ ~me.fd
        /\ TakeBack
        /\ UNCHANGED <<me, spmd, apart>>
  /\ UNCHANGED <<logs, blobs, data, begun, outer, todo>>

-----------------------------------------------------------------------------
(* The end: finishSession.                                                 *)

\* A replay gives way to the session it was started in, or to a new one.
Over ==
  \/ /\ outer # NoRun
     /\ at' = "idle" /\ me' = outer /\ outer' = NoRun
  \/ /\ outer = NoRun
     /\ at' = "down" \/ (me.kind = "replay" /\ at' = "ready")
     /\ me' = NoRun /\ UNCHANGED outer

\* session_end.
EndLog ==
  /\ at = "idle"
  /\ IF me.rec = NoName THEN at' = "down" /\ me' = NoRun ELSE at' = "close" /\ UNCHANGED me
  /\ IF me.log = NoName THEN UNCHANGED <<data, spmd>>
     ELSE Append(TRUE) \/ (Fails("append") /\ UNCHANGED <<data, spmd>>)
  /\ UNCHANGED <<logs, blobs, begun, outer, to, undo, todo, apart>>

\* THE END. is written to the Fountain file.
CloseRecorder ==
  /\ at = "close"
  /\ spmd' = IF me.fd /\ spmd[me.rec] # NoFile THEN [spmd EXCEPT ![me.rec].behind = {}] ELSE spmd
  /\ IF me.log = NoName THEN Over ELSE at' = "render" /\ UNCHANGED <<me, outer>>
  /\ UNCHANGED <<logs, blobs, data, begun, to, undo, todo, apart>>

RenderFile ==
  /\ at = "render"
  /\ \/ /\ Renders(me.log)
        /\ spmd' = [spmd EXCEPT ![me.rec] = Rendering(me.log)]
        /\ Parts({Owner(me.rec), logs[me.log]} \ {me.session})
     \/ /\ ~Renders(me.log) \/ May("cutend")
        /\ Parts({me.session})
        /\ UNCHANGED spmd
  /\ Over
  /\ UNCHANGED <<logs, blobs, data, begun, to, undo, todo>>

-----------------------------------------------------------------------------
\* The process is killed.  An event in flight may be in the log.
Crash ==
  /\ at # "down"
  /\ (at \in Moving /\ ~(at = "movelog" /\ ~undo)) => May("cutmove")
  /\ at \in Ending => May("cutend")
  /\ \/ at \in {"first", "idle"} /\ me.log # NoName /\ data[me.session].events < MaxEvents /\ Append(FALSE)
     \/ UNCHANGED <<data, spmd>>
  /\ at' = "down" /\ me' = NoRun /\ outer' = NoRun
  /\ to' = NoName /\ undo' = FALSE /\ todo' = {}
  /\ IF at \in Moving \cup Ending THEN Parts({me.session}) ELSE UNCHANGED apart
  /\ UNCHANGED <<logs, blobs, begun>>

Next ==
  \/ Start \/ Recovered \/ OpenSessionLog \/ FirstEvent \/ LogEvent
  \/ MoveLog \/ MoveBlobs \/ MoveFile
  \/ EndLog \/ CloseRecorder \/ RenderFile \/ Crash
  \/ \E name \in todo : Recover(name)
  \/ \E kind \in {"repl", "replay"} : NoRecorder(kind)
  \/ \E name \in Names, kind \in {"repl", "replay"} : NewRecorder(name, kind)
  \/ \E payload \in Payloads : WriteBlob(payload)
  \/ \E name \in Names : Rename(name)

Spec == Init /\ [][Next]_vars

-----------------------------------------------------------------------------
(* Properties.                                                             *)

\* Every variable keeps its type.
FilesTypeOK ==
  /\ logs \in [Names -> Sessions \cup {NoSession}]
  /\ blobs \in [Names -> SUBSET Payloads]
  /\ spmd \in [Names -> Fountain \cup {NoFile}]
  /\ data \in [Sessions -> Log]
  /\ begun \in 0..MaxSessions
  /\ at \in Places
  /\ me \in Run /\ outer \in Run
  /\ to \in Names \cup {NoName} /\ undo \in BOOLEAN /\ todo \subseteq Names
  /\ apart \subseteq Sessions

\* Nothing recorded is lost: a session's log keeps its events and one name of its
\* own through every recording, rename that fails half way, replay and crash
\* (OpenSessionLog and SessionLog.Rename, which never write over a log).
NameOf(s) ==
  IF \E name \in Names : logs[name] = s THEN CHOOSE name \in Names : logs[name] = s ELSE NoName
Registry == INSTANCE SessionNames WITH
  called <- [s \in Sessions |-> NameOf(s)], held <- [s \in Sessions |-> data[s].events]
ImplementsSessionNames == Registry!Spec

Whole(run) ==
  run.log # NoName /\ run.session \notin apart =>
    /\ run.rec = run.log
    /\ logs[run.log] = run.session
    /\ spmd[run.rec] # NoFile /\ spmd[run.rec].of = run.session

\* The files of a session that runs, and of one a replay has put aside, have one
\* name, and the recorder and the log know it: whatever rename failed before, the
\* next event, blob and rendering go beside the others (cmdRename: they "move
\* together").
FilesTogether == at = "idle" => Whole(me) /\ Whole(outer)

\* Every payload an event of any log refers to is found beside that log, but for
\* the log whose blobs are on their way (SessionLog.Content: "an event that names
\* it can never point at a missing file").
BlobsResolve ==
  \A name \in Names :
    logs[name] \notin apart \cup {NoSession} /\ ~(at = "moveblobs" /\ name = to) =>
      data[logs[name]].refs \subseteq blobs[name]

Current(name) ==
  /\ spmd[name] # NoFile
  /\ spmd[name].of = logs[name]
  /\ spmd[name].events = data[logs[name]].events
  /\ spmd[name].refs = data[logs[name]].refs

Running == IF at = "down" THEN {} ELSE {me.session, outer.session}

\* Of every session that is over, its Fountain file renders all of its log, or the
\* next startup will see that it does not: no rendering is out of date for good.
RenderedOrTaken ==
  \A name \in Names :
    Renders(name) /\ logs[name] \notin Running \cup apart => Current(name) \/ Takes(name)

\* What ListSessions shows under a name: the log, or a Fountain file with no log.
Listed(name) ==
  CASE Renders(name) -> logs[name]
    [] logs[name] = NoSession /\ spmd[name] # NoFile -> spmd[name].of
    [] OTHER -> NoSession

\* The list of sessions has no session twice (ListSessions: a log and the Fountain
\* file rendered from it are one session).
ListedOnce ==
  at \in {"down", "recover", "ready", "idle"} =>
    \A m, n \in Names : m # n /\ Listed(m) = Listed(n) => Listed(m) \in apart \cup {NoSession}

\* SessionsStayWhole: the log, the blobs and the rendering of a session stay together
\* through every rename, whole or undone, and are listed as one.
SessionsStayWhole == FilesTogether /\ BlobsResolve /\ ListedOnce

=============================================================================
