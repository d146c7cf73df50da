------------------------- MODULE SessionFilesProofs -------------------------
(***************************************************************************)
(* Proofs about SessionFiles: its variables keep their types, and it       *)
(* implements SessionNames, so that no log is lost or written over, for    *)
(* every number of names, sessions, payloads and events, whatever fails,   *)
(* whatever else happens, and wherever the process is killed.              *)
(*                                                                         *)
(* What a step does to a log's name depends on where a rename or the start *)
(* of a recording has got to, so the invariant says of each such place     *)
(* what is at the names in use there.                                      *)
(***************************************************************************)
EXTENDS SessionFiles, TLAPS

\* Sessions have at most one name, and only those begun have one.
OneName == \A m, n \in Names : logs[m] # NoSession /\ logs[m] = logs[n] => m = n
BegunOnly ==
  /\ \A name \in Names : logs[name] <= begun
  /\ me.session <= begun /\ outer.session <= begun
  /\ \A s \in Sessions : s > begun => data[s].events = 0

\* A run that has a log is a session whose log has a name, and room for an event.
HasLog(run) ==
  run.log # NoName =>
    /\ run.session \in Sessions
    /\ \E name \in Names : logs[name] = run.session
HasRoom(run) == run.log # NoName => data[run.session].events < MaxEvents

\* The session that runs and the one put aside are two.
RunsInv ==
  /\ HasLog(me) /\ HasLog(outer)
  /\ HasRoom(outer)
  /\ at \notin Ending => HasRoom(me)
  /\ me.session # NoSession => me.session # outer.session

\* A recording that starts has no log, then an empty one.
StartInv ==
  /\ at = "open" =>
       /\ me.session \in Sessions /\ me.rec \in Names /\ me.log = NoName
       /\ data[me.session].events = 0
       /\ \A name \in Names : logs[name] # me.session
  /\ at = "first" => me.log \in Names /\ data[me.session].events = 0
  /\ at \in Ending => me.rec \in Names
  /\ at = "render" => me.log \in Names

\* A rename goes from a name in use to one that has no log.
MoveInv ==
  /\ at \in Moving => me.rec \in Names /\ to \in Names
  /\ at = "movelog" => me.log \in Names /\ me.log # to /\ logs[to] = NoSession
  /\ at = "moveblobs" =>
       me.log \in Names /\ me.log # to /\ logs[to] # NoSession /\ logs[me.log] = NoSession

FilesInv == FilesTypeOK /\ OneName /\ BegunOnly /\ RunsInv /\ StartInv /\ MoveInv

-----------------------------------------------------------------------------
(* The operators the actions are built from.                               *)

\* A move gives the new name what the old one had, and the old one nothing.
LEMMA MoveResult ==
  ASSUME NEW S, NEW f \in [Names -> S], NEW nothing \in S,
         NEW from \in Names, NEW name \in Names
  PROVE  /\ Moved(f, from, name, nothing) \in [Names -> S]
         /\ Moved(f, from, name, nothing)[name] = f[from]
         /\ from # name => Moved(f, from, name, nothing)[from] = nothing
         /\ \A m \in Names : m \notin {from, name} => Moved(f, from, name, nothing)[m] = f[m]
BY DEF Moved

\* What an append does to the logs, and to the Fountain files.
LEMMA AppendResult ==
  ASSUME FilesTypeOK, ConstantsOK, me.session \in Sessions,
         data[me.session].events < MaxEvents,
         \E ends \in BOOLEAN : Append(ends)
  PROVE  /\ data' \in [Sessions -> Log]
         /\ spmd' \in [Names -> Fountain \cup {NoFile}]
         /\ data'[me.session].events = data[me.session].events + 1
         /\ \A s \in Sessions \ {me.session} : data'[s] = data[s]
<1>1. PICK ends \in BOOLEAN : Append(ends)
  OBVIOUS
<1> DEFINE old == data[me.session]
           new == [events |-> old.events + 1, ended |-> ends,
                   refs |-> old.refs \cup ({me.payload} \ {NoPayload})]
<1>2. data' = [data EXCEPT ![me.session] = new]
  BY <1>1 DEF Append
<1>3. old \in Log /\ me.payload \in Payloads \cup {NoPayload}
  BY DEF FilesTypeOK, Run
<1>4. new \in Log
  BY <1>3, SMT DEF Log, ConstantsOK
<1> HIDE DEF new
<1>5. new.events = old.events + 1
  BY DEF new
<1>6. data' \in [Sessions -> Log]
  BY <1>2, <1>4 DEF FilesTypeOK
<1>7. spmd' = [name \in Names |-> IF spmd[name] = NoFile THEN NoFile
                                  ELSE [spmd[name] EXCEPT !.behind = @ \cup {me.session}]]
  BY <1>1 DEF Append, Touched
<1>8. ASSUME NEW name \in Names, spmd[name] # NoFile
      PROVE  [spmd[name] EXCEPT !.behind = @ \cup {me.session}] \in Fountain
  <2>1. spmd[name] \in Fountain
    BY <1>8 DEF FilesTypeOK
  <2> QED
    BY <2>1 DEF Fountain
<1>9. spmd' \in [Names -> Fountain \cup {NoFile}]
  BY <1>7, <1>8
<1> QED
  BY <1>2, <1>5, <1>6, <1>9 DEF FilesTypeOK

\* What recovery or the end of a session renders.
LEMMA RenderingType ==
  ASSUME FilesTypeOK, NEW name \in Names, Renders(name)
  PROVE  Rendering(name) \in Fountain
<1>1. logs[name] \in Sessions
  BY DEF FilesTypeOK, Renders
<1>2. data[logs[name]] \in Log
  BY <1>1 DEF FilesTypeOK
<1> QED
  BY <1>1, <1>2 DEF Rendering, Fountain, Log

LEMMA OwnerType ==
  ASSUME FilesTypeOK, NEW name \in Names
  PROVE  Owner(name) \in Sessions \cup {NoSession}
<1>1. spmd[name] \in Fountain \cup {NoFile}
  BY DEF FilesTypeOK
<1> QED
  BY <1>1 DEF Owner, Fountain

LEMMA PartsType ==
  ASSUME FilesTypeOK, NEW ss \in SUBSET (Sessions \cup {NoSession}), Parts(ss)
  PROVE  apart' \subseteq Sessions
BY DEF Parts, FilesTypeOK

-----------------------------------------------------------------------------
(* Every action keeps the invariant.  Startup:                             *)

LEMMA InitKeeps ==
  ASSUME ConstantsOK, Init
  PROVE  FilesInv
<1>1. NoRun \in Run /\ NoRun.session = NoSession /\ NoRun.log = NoName
  BY DEF NoRun, NotRecorded, Run
<1>2. data \in [Sessions -> Log]
  <2>1. [events |-> 0, refs |-> {}, ended |-> FALSE] \in Log
    BY DEF Log, ConstantsOK
  <2> QED
    BY <2>1 DEF Init
<1>3. begun \in 0..MaxSessions /\ \A s \in Sessions : data[s].events = 0
  BY DEF Init, ConstantsOK
<1>4. FilesTypeOK
  BY <1>1, <1>2, <1>3 DEF Init, FilesTypeOK, Places
<1> QED
  BY <1>1, <1>3, <1>4 DEF Init, FilesInv, OneName, BegunOnly, RunsInv, HasLog, HasRoom,
                          StartInv, MoveInv, Moving, Ending, NoSession

\* A step that does nothing but move on to a place where nothing is promised.
LEMMA MovingOn ==
  ASSUME FilesInv, at' \in {"down", "recover", "ready", "idle"}, at \notin Ending,
         to' \in Names \cup {NoName}, undo' \in BOOLEAN, todo' \subseteq Names,
         UNCHANGED <<disk, begun, me, outer, apart>>
  PROVE  FilesInv'
<1>1. FilesTypeOK'
  BY DEF FilesInv, FilesTypeOK, Places, disk
<1> QED
  BY <1>1 DEF FilesInv, OneName, BegunOnly, RunsInv, HasLog, HasRoom, StartInv, MoveInv,
              Moving, Ending, disk

LEMMA RecoverKeeps ==
  ASSUME ConstantsOK, FilesInv, NEW name \in todo, Recover(name)
  PROVE  FilesInv'
<1>1. name \in Names
  BY DEF FilesInv, FilesTypeOK
<1>2. spmd' \in [Names -> Fountain \cup {NoFile}]
  <2>1. CASE Takes(name) /\ spmd' = [spmd EXCEPT ![name] = Rendering(name)]
    <3>1. Rendering(name) \in Fountain
      BY <1>1, <2>1, RenderingType DEF FilesInv, Takes
    <3> QED
      BY <2>1, <3>1 DEF FilesInv, FilesTypeOK
  <2>2. CASE UNCHANGED spmd
    BY <2>2 DEF FilesInv, FilesTypeOK
  <2> QED
    BY <2>1, <2>2 DEF Recover
<1>3. FilesTypeOK'
  BY <1>2 DEF FilesInv, FilesTypeOK, Recover
<1> QED
  BY <1>3 DEF Recover, FilesInv, OneName, BegunOnly, RunsInv, HasLog, HasRoom, StartInv, MoveInv

LEMMA NewRecorderKeeps ==
  ASSUME ConstantsOK, FilesInv, NEW name \in Names, NEW kind \in {"repl", "replay"},
         NewRecorder(name, kind)
  PROVE  FilesInv'
<1>1. begun' \in Sessions /\ begun' = begun + 1
  BY DEF FilesInv, FilesTypeOK, NewRecorder, Sessions, ConstantsOK
<1>2. TitlePage(begun') \in Fountain
  BY <1>1 DEF TitlePage, Fountain, ConstantsOK
<1>3. me' = [kind |-> kind, session |-> begun', rec |-> name, fd |-> TRUE, log |-> NoName,
             payload |-> NoPayload]
  BY DEF NewRecorder, NotRecorded
<1>4. FilesTypeOK'
  <2>1. spmd' \in [Names -> Fountain \cup {NoFile}]
    BY <1>2 DEF NewRecorder, FilesInv, FilesTypeOK
  <2>2. me' \in Run
    BY <1>1, <1>3 DEF Run
  <2>3. logs[name] \in Sessions \cup {NoSession} /\ Owner(name) \in Sessions \cup {NoSession}
    BY OwnerType DEF FilesInv, FilesTypeOK
  <2>4. apart' \subseteq Sessions
    BY <2>3, PartsType DEF NewRecorder, FilesInv
  <2> QED
    BY <1>1, <2>1, <2>2, <2>4 DEF NewRecorder, FilesInv, FilesTypeOK, Sessions, Places
<1>5. \A m \in Names : logs'[m] # begun'
  BY <1>1 DEF NewRecorder, FilesInv, FilesTypeOK, BegunOnly, Sessions, NoSession, ConstantsOK
<1>6. data'[begun'].events = 0
  BY <1>1 DEF NewRecorder, FilesInv, FilesTypeOK, BegunOnly, Sessions, ConstantsOK
<1>7. at' = "open" /\ outer' = me /\ UNCHANGED <<logs, blobs, data>>
  BY DEF NewRecorder
<1>8. me'.session = begun' /\ me'.log = NoName /\ me'.rec = name
  BY <1>3
<1>9. BegunOnly'
  BY <1>1, <1>7, <1>8 DEF FilesInv, FilesTypeOK, BegunOnly, Sessions, ConstantsOK, Run, NoSession
<1>10. RunsInv'
  <2>1. me.session # begun'
    BY <1>1 DEF FilesInv, FilesTypeOK, Run, BegunOnly, Sessions, NoSession, ConstantsOK
  <2>2. HasLog(me) /\ HasRoom(me)
    BY DEF FilesInv, RunsInv, NewRecorder, Ending
  <2> QED
    BY <1>7, <1>8, <2>1, <2>2 DEF RunsInv, HasLog, HasRoom
<1>11. StartInv' /\ MoveInv'
  BY <1>1, <1>5, <1>6, <1>7, <1>8 DEF StartInv, MoveInv, Moving, Ending
<1> QED
  BY <1>4, <1>7, <1>9, <1>10, <1>11 DEF FilesInv, OneName

LEMMA NoRecorderKeeps ==
  ASSUME ConstantsOK, FilesInv, NEW kind \in {"repl", "replay"}, NoRecorder(kind)
  PROVE  FilesInv'
<1>1. me' \in Run /\ me'.session = NoSession /\ me'.log = NoName
  BY DEF NoRecorder, NoRun, NotRecorded, Run
<1>2. FilesTypeOK'
  BY <1>1 DEF NoRecorder, FilesInv, FilesTypeOK, Places, disk
<1> QED
  BY <1>1, <1>2 DEF NoRecorder, disk, FilesInv, FilesTypeOK, OneName, BegunOnly, RunsInv, HasLog,
     HasRoom, StartInv, MoveInv, Moving, Ending, NoSession, ConstantsOK
LEMMA OpenSessionLogKeeps ==
  ASSUME ConstantsOK, FilesInv, OpenSessionLog
  PROVE  FilesInv'
<1>1. /\ me \in Run /\ me.session \in Sessions /\ me.rec \in Names /\ me.log = NoName
      /\ data[me.session].events = 0
      /\ \A name \in Names : logs[name] # me.session
  BY DEF OpenSessionLog, FilesInv, FilesTypeOK, StartInv
<1>2. UNCHANGED <<blobs, spmd, data, begun, outer, to, undo, todo, apart>>
  BY DEF OpenSessionLog
<1>3. CASE logs[me.rec] = NoSession /\ logs' = [logs EXCEPT ![me.rec] = me.session]
           /\ me' = [me EXCEPT !.log = me.rec] /\ at' = "first"
  <2>1. me' \in Run /\ me'.session = me.session /\ me'.log = me.rec
    BY <1>1, <1>3 DEF Run
  <2>2. /\ logs' \in [Names -> Sessions \cup {NoSession}]
        /\ logs'[me.rec] = me.session
        /\ \A name \in Names : name # me.rec => logs'[name] = logs[name]
    BY <1>1, <1>3 DEF FilesInv, FilesTypeOK
  <2>3. FilesTypeOK'
    BY <1>2, <1>3, <2>1, <2>2 DEF FilesInv, FilesTypeOK, Places
  <2>4. OneName'
    BY <1>1, <2>2 DEF FilesInv, OneName
  <2>5. BegunOnly'
    BY <1>2, <2>1, <2>2 DEF FilesInv, BegunOnly
  <2>6. HasLog(me)' /\ HasLog(outer)'
    <3>1. HasLog(me)'
      BY <1>1, <2>1, <2>2 DEF HasLog
    <3>2. ASSUME outer.log # NoName
          PROVE  outer.session \in Sessions /\ \E name \in Names : logs'[name] = outer.session
      <4>1. outer.session \in Sessions
        BY <3>2 DEF FilesInv, RunsInv, HasLog
      <4>2. PICK name \in Names : logs[name] = outer.session
        BY <3>2 DEF FilesInv, RunsInv, HasLog
      <4>3. name # me.rec
        BY <1>3, <4>1, <4>2 DEF Sessions, NoSession, ConstantsOK
      <4> QED
        BY <2>2, <4>1, <4>2, <4>3
    <3> QED
      BY <1>2, <3>1, <3>2 DEF HasLog
  <2>7. RunsInv'
    BY <1>1, <1>2, <2>1, <2>6 DEF FilesInv, RunsInv, HasRoom, ConstantsOK
  <2> QED
    BY <1>1, <1>2, <1>3, <2>1, <2>3, <2>4, <2>5, <2>7 DEF FilesInv, StartInv, MoveInv, Moving, Ending
<1>4. CASE at' = "idle" /\ UNCHANGED <<logs, me>>
  <2>1. at \notin Ending
    BY DEF OpenSessionLog, Ending
  <2>2. to' \in Names \cup {NoName} /\ undo' \in BOOLEAN /\ todo' \subseteq Names
    BY <1>2 DEF FilesInv, FilesTypeOK
  <2> QED
    BY <1>2, <1>4, <2>1, <2>2, MovingOn DEF disk
<1> QED
  BY <1>3, <1>4 DEF OpenSessionLog

\* What else an append keeps.
LEMMA AppendKeeps ==
  ASSUME ConstantsOK, FilesInv, me.log # NoName, HasRoom(me),
         \E ends \in BOOLEAN : Append(ends)
  PROVE  /\ data' \in [Sessions -> Log]
         /\ spmd' \in [Names -> Fountain \cup {NoFile}]
         /\ data'[me.session].events = data[me.session].events + 1
         /\ outer.log # NoName => data'[outer.session].events < MaxEvents
         /\ \A s \in Sessions : s > begun => data'[s].events = 0
<1>1. me.session \in Sessions /\ me.session <= begun /\ me.session # outer.session
  BY DEF FilesInv, RunsInv, HasLog, BegunOnly, Sessions, NoSession, ConstantsOK
<1>2. /\ data' \in [Sessions -> Log]
      /\ spmd' \in [Names -> Fountain \cup {NoFile}]
      /\ data'[me.session].events = data[me.session].events + 1
      /\ \A s \in Sessions \ {me.session} : data'[s] = data[s]
  BY <1>1, AppendResult DEF FilesInv, HasRoom
<1>3. outer.log # NoName => data'[outer.session].events < MaxEvents
  BY <1>1, <1>2 DEF FilesInv, RunsInv, HasLog, HasRoom
<1>4. ASSUME NEW s \in Sessions, s > begun
      PROVE  data'[s].events = 0
  <2>1. s # me.session
    BY <1>1, <1>4 DEF FilesInv, FilesTypeOK, Sessions, ConstantsOK
  <2> QED
    BY <1>2, <1>4, <2>1 DEF FilesInv, BegunOnly
<1> QED
  BY <1>2, <1>3, <1>4

LEMMA FirstEventKeeps ==
  ASSUME ConstantsOK, FilesInv, FirstEvent
  PROVE  FilesInv'
<1>1. /\ me \in Run /\ me.log \in Names /\ data[me.session].events = 0
      /\ HasRoom(me) /\ HasLog(me)
  BY DEF FirstEvent, FilesInv, FilesTypeOK, RunsInv, StartInv, Ending
<1>2. /\ at' = "idle"
      /\ UNCHANGED <<logs, blobs, begun, outer, to, undo, todo, apart>>
  BY DEF FirstEvent
<1>3. CASE Append(FALSE) /\ me' = [me EXCEPT !.payload = NoPayload]
  <2>1. me' \in Run /\ me'.session = me.session /\ me'.log = me.log
    BY <1>1, <1>3 DEF Run
  <2>2. \E ends \in BOOLEAN : Append(ends)
    BY <1>3
  <2>3. me.log # NoName
    BY <1>1 DEF ConstantsOK
  <2>4. /\ data' \in [Sessions -> Log]
        /\ spmd' \in [Names -> Fountain \cup {NoFile}]
        /\ data'[me.session].events = data[me.session].events + 1
        /\ outer.log # NoName => data'[outer.session].events < MaxEvents
        /\ \A s \in Sessions : s > begun => data'[s].events = 0
    BY <1>1, <2>2, <2>3, AppendKeeps
  <2>5. FilesTypeOK'
    BY <1>2, <2>1, <2>4 DEF FilesInv, FilesTypeOK, Places
  <2>6. data'[me.session].events < MaxEvents
    BY <1>1, <2>4 DEF ConstantsOK
  <2> QED
    BY <1>1, <1>2, <2>1, <2>4, <2>5, <2>6 DEF FilesInv, OneName, BegunOnly, RunsInv, HasLog,
       HasRoom, StartInv, MoveInv, Moving, Ending
<1>4. CASE me' = [me EXCEPT !.payload = NoPayload, !.log = NoName] /\ UNCHANGED <<data, spmd>>
  <2>1. me' \in Run /\ me'.session = me.session /\ me'.log = NoName
    BY <1>1, <1>4 DEF Run
  <2>2. FilesTypeOK'
    BY <1>2, <1>4, <2>1 DEF FilesInv, FilesTypeOK, Places
  <2> QED
    BY <1>2, <1>4, <2>1, <2>2 DEF FilesInv, OneName, BegunOnly, RunsInv, HasLog, HasRoom,
       StartInv, MoveInv, Moving, Ending
<1> QED
  BY <1>3, <1>4 DEF FirstEvent

-----------------------------------------------------------------------------
(* ... the session runs ...                                                *)

LEMMA WriteBlobKeeps ==
  ASSUME ConstantsOK, FilesInv, NEW payload \in Payloads, WriteBlob(payload)
  PROVE  FilesInv'
<1>1. me' \in Run /\ me'.session = me.session /\ me'.log = me.log /\ me'.rec = me.rec
  BY DEF WriteBlob, FilesInv, FilesTypeOK, Run
<1>2. blobs' \in [Names -> SUBSET Payloads]
  BY DEF WriteBlob, FilesInv, FilesTypeOK
<1>3. UNCHANGED <<logs, spmd, data, begun, at, outer, to, undo, todo, apart>>
  BY DEF WriteBlob
<1>4. FilesTypeOK'
  BY <1>1, <1>2, <1>3 DEF FilesInv, FilesTypeOK
<1> QED
  BY <1>1, <1>3, <1>4 DEF FilesInv, OneName, BegunOnly, RunsInv, HasLog, HasRoom, StartInv, MoveInv

LEMMA LogEventKeeps ==
  ASSUME ConstantsOK, FilesInv, LogEvent
  PROVE  FilesInv'
<1>1. me \in Run /\ me.log # NoName /\ HasRoom(me) /\ HasLog(me) /\ at = "idle"
  BY DEF LogEvent, FilesInv, FilesTypeOK, RunsInv, Ending
<1>2. UNCHANGED <<logs, blobs, begun, at, outer, to, undo, todo, apart>>
  BY DEF LogEvent
<1>3. me' \in Run /\ me'.session = me.session /\ me'.log = me.log
  BY <1>1 DEF LogEvent, Run
<1>4. CASE Append(FALSE)
  <2>1. \E ends \in BOOLEAN : Append(ends)
    BY <1>4
  <2>2. /\ data' \in [Sessions -> Log]
        /\ spmd' \in [Names -> Fountain \cup {NoFile}]
        /\ data'[me.session].events = data[me.session].events + 1
        /\ outer.log # NoName => data'[outer.session].events < MaxEvents
        /\ \A s \in Sessions : s > begun => data'[s].events = 0
    BY <1>1, <2>1, AppendKeeps
  <2>3. FilesTypeOK'
    BY <1>2, <1>3, <2>2 DEF FilesInv, FilesTypeOK
  <2>4. data[me.session] \in Log
    BY <1>1 DEF FilesInv, FilesTypeOK, HasLog
  <2>5. data'[me.session].events < MaxEvents
    BY <2>2, <2>4 DEF LogEvent, Log, ConstantsOK
  <2> QED
    BY <1>1, <1>2, <1>3, <2>2, <2>3, <2>5 DEF FilesInv, OneName, BegunOnly, RunsInv, HasLog,
       HasRoom, StartInv, MoveInv, Moving, Ending
<1>5. CASE UNCHANGED <<data, spmd>>
  <2>1. FilesTypeOK'
    BY <1>2, <1>3, <1>5 DEF FilesInv, FilesTypeOK
  <2> QED
    BY <1>1, <1>2, <1>3, <1>5, <2>1 DEF FilesInv, OneName, BegunOnly, RunsInv, HasLog, HasRoom,
       StartInv, MoveInv, Moving, Ending
<1> QED
  BY <1>4, <1>5 DEF LogEvent

LEMMA RenameKeeps ==
  ASSUME ConstantsOK, FilesInv, NEW name \in Names, Rename(name)
  PROVE  FilesInv'
<1>1. at = "idle" /\ me.rec \in Names /\ me.log \in Names \cup {NoName}
  BY DEF Rename, FilesInv, FilesTypeOK, Run
<1>2. to' = name /\ UNCHANGED <<disk, begun, me, outer, undo, todo, apart>>
  BY DEF Rename
<1>3. \/ at' = "movefile"
      \/ at' = "movelog" /\ me.log \in Names /\ me.log # name /\ logs[name] = NoSession
  BY <1>1 DEF Rename, Taken
<1>4. FilesTypeOK'
  BY <1>2, <1>3 DEF FilesInv, FilesTypeOK, Places, Moving, disk
<1> QED
  BY <1>1, <1>2, <1>3, <1>4 DEF FilesInv, OneName, BegunOnly, RunsInv, HasLog, HasRoom,
     StartInv, MoveInv, Moving, Ending, disk

\* The move of a log to a name that has none, or back, loses no log.
LEMMA LogsMoved ==
  ASSUME ConstantsOK, FilesInv, NEW from \in Names, NEW name \in Names, from # name,
         logs[name] = NoSession, logs' = Moved(logs, from, name, NoSession), begun' = begun
  PROVE  /\ logs' \in [Names -> Sessions \cup {NoSession}]
         /\ logs'[name] = logs[from] /\ logs'[from] = NoSession
         /\ OneName'
         /\ \A n \in Names : logs'[n] <= begun'
         /\ \A s \in Sessions : (\E n \in Names : logs[n] = s) => \E n \in Names : logs'[n] = s
<1> DEFINE S == Sessions \cup {NoSession}
<1>1. logs \in [Names -> S] /\ NoSession \in S
  BY DEF FilesInv, FilesTypeOK
<1> HIDE DEF S
<1>2. /\ logs' \in [Names -> S]
      /\ logs'[name] = logs[from] /\ logs'[from] = NoSession
      /\ \A m \in Names : m \notin {from, name} => logs'[m] = logs[m]
  BY <1>1 DEF Moved
<1>3. OneName'
  BY <1>2 DEF FilesInv, OneName
<1>4. \A n \in Names : logs'[n] <= begun'
  BY <1>2 DEF FilesInv, BegunOnly
<1>5. \A s \in Sessions : (\E n \in Names : logs[n] = s) => \E n \in Names : logs'[n] = s
  BY <1>2 DEF Sessions, NoSession, ConstantsOK
<1> QED
  BY <1>2, <1>3, <1>4, <1>5 DEF S

LEMMA MoveLogKeeps ==
  ASSUME ConstantsOK, FilesInv, MoveLog
  PROVE  FilesInv'
<1>1. /\ me \in Run /\ me.log \in Names /\ me.log # to /\ to \in Names /\ me.rec \in Names
      /\ logs[to] = NoSession /\ logs[me.log] \in Sessions \cup {NoSession}
  BY DEF MoveLog, FilesInv, FilesTypeOK, MoveInv, Moving
<1>2. at = "movelog" /\ UNCHANGED <<blobs, spmd, data, begun, outer, todo>>
  BY DEF MoveLog
<1>3. CASE logs' = Moved(logs, me.log, to, NoSession) /\ logs[me.log] # NoSession
           /\ \/ LogMoved
              \/ at' = "moveblobs" /\ UNCHANGED <<me, to, undo>>
           /\ Parts({logs[me.log]} \ {me.session})
  <2>1. /\ logs' \in [Names -> Sessions \cup {NoSession}]
        /\ logs'[to] = logs[me.log] /\ logs'[me.log] = NoSession
        /\ OneName'
        /\ \A n \in Names : logs'[n] <= begun'
        /\ \A s \in Sessions : (\E n \in Names : logs[n] = s) => \E n \in Names : logs'[n] = s
    BY <1>1, <1>2, <1>3, LogsMoved
  <2>2. apart' \subseteq Sessions
    BY <1>1, <1>3, PartsType DEF FilesInv
  <2>3. \/ at' = "idle" /\ to' = NoName /\ undo' = FALSE
        \/ at' = "movefile" /\ UNCHANGED <<to, undo>>
        \/ at' = "moveblobs" /\ UNCHANGED <<me, to, undo>>
    BY <1>3 DEF LogMoved, Idle
  <2>4. me' \in Run /\ me'.session = me.session /\ me'.rec = me.rec /\ me.log # NoName
    BY <1>1, <1>3 DEF LogMoved, Run, ConstantsOK
  <2>5. FilesTypeOK'
    BY <1>2, <2>1, <2>2, <2>3, <2>4 DEF FilesInv, FilesTypeOK, Places, Moving
  <2>6. HasLog(me) /\ HasLog(outer) /\ HasRoom(me) /\ HasRoom(outer)
    BY <1>2 DEF FilesInv, RunsInv, Ending
  <2>7. RunsInv'
    <3>1. HasLog(me)'
      BY <2>1, <2>4, <2>6 DEF HasLog
    <3>2. HasLog(outer)'
      BY <1>2, <2>1, <2>6 DEF HasLog
    <3> QED
      BY <1>2, <2>4, <2>6, <3>1, <3>2 DEF FilesInv, RunsInv, HasRoom
  <2>8. BegunOnly'
    BY <1>2, <2>1, <2>4 DEF FilesInv, BegunOnly
  <2>9. StartInv' /\ MoveInv'
    BY <1>1, <1>3, <2>1, <2>3, <2>4 DEF StartInv, MoveInv, Moving, Ending
  <2> QED
    BY <2>1, <2>5, <2>7, <2>8, <2>9 DEF FilesInv
<1>4. CASE Idle /\ (Parts({me.session}) \/ UNCHANGED apart) /\ UNCHANGED <<logs, me>>
  <2>1. apart' \subseteq Sessions
    BY <1>1, <1>4, PartsType DEF FilesInv, FilesTypeOK, Run
  <2>2. FilesTypeOK'
    BY <1>2, <1>4, <2>1 DEF FilesInv, FilesTypeOK, Places, Idle
  <2> QED
    BY <1>2, <1>4, <2>2 DEF Idle, FilesInv, OneName, BegunOnly, RunsInv, HasLog, HasRoom,
       StartInv, MoveInv, Moving, Ending
<1> QED
  BY <1>3, <1>4 DEF MoveLog

LEMMA MoveBlobsKeeps ==
  ASSUME ConstantsOK, FilesInv, MoveBlobs
  PROVE  FilesInv'
<1>1. /\ me \in Run /\ me.log \in Names /\ me.log # to /\ to \in Names /\ me.rec \in Names
      /\ logs[to] # NoSession /\ logs[me.log] = NoSession
  BY DEF MoveBlobs, FilesInv, FilesTypeOK, MoveInv, Moving
<1>2. at = "moveblobs" /\ UNCHANGED <<spmd, data, begun, outer, todo>>
  BY DEF MoveBlobs
<1>3. HasLog(me) /\ HasLog(outer) /\ HasRoom(me) /\ HasRoom(outer)
  BY <1>2 DEF FilesInv, RunsInv, Ending
<1>4. me.session \in Sessions \cup {NoSession}
  BY <1>1 DEF Run
<1>5. CASE blobs' = Moved(blobs, me.log, to, {}) /\ LogMoved /\ UNCHANGED <<logs, apart>>
  <2>1. \/ at' = "idle" /\ to' = NoName /\ undo' = FALSE
        \/ at' = "movefile" /\ UNCHANGED <<to, undo>>
    BY <1>5 DEF LogMoved, Idle
  <2>2. me' \in Run /\ me'.session = me.session /\ me'.rec = me.rec /\ me.log # NoName
    BY <1>1, <1>5 DEF LogMoved, Run, ConstantsOK
  <2>3. blobs' \in [Names -> SUBSET Payloads]
    BY <1>1, <1>5, MoveResult DEF FilesInv, FilesTypeOK
  <2>4. FilesTypeOK'
    BY <1>2, <1>5, <2>1, <2>2, <2>3 DEF FilesInv, FilesTypeOK, Places, Moving
  <2> QED
    BY <1>1, <1>2, <1>3, <1>5, <2>1, <2>2, <2>4 DEF FilesInv, OneName, BegunOnly, RunsInv,
       HasLog, HasRoom, StartInv, MoveInv, Moving, Ending
<1>6. CASE Idle /\ logs' = Moved(logs, to, me.log, NoSession)
           /\ (Parts({me.session}) \/ UNCHANGED apart) /\ UNCHANGED <<blobs, me>>
  <2>1. /\ logs' \in [Names -> Sessions \cup {NoSession}]
        /\ OneName'
        /\ \A n \in Names : logs'[n] <= begun'
        /\ \A s \in Sessions : (\E n \in Names : logs[n] = s) => \E n \in Names : logs'[n] = s
    BY <1>1, <1>2, <1>6, LogsMoved
  <2>2. apart' \subseteq Sessions
    BY <1>4, <1>6, PartsType DEF FilesInv, FilesTypeOK
  <2>3. FilesTypeOK'
    BY <1>2, <1>6, <2>1, <2>2 DEF FilesInv, FilesTypeOK, Places, Idle
  <2>4. HasLog(me)' /\ HasLog(outer)'
    BY <1>2, <1>3, <1>6, <2>1 DEF HasLog
  <2>5. RunsInv'
    BY <1>2, <1>3, <1>6, <2>4 DEF FilesInv, RunsInv, HasRoom
  <2> QED
    BY <1>2, <1>6, <2>1, <2>3, <2>5 DEF Idle, FilesInv, BegunOnly, StartInv, MoveInv, Moving, Ending
<1>7. CASE Idle /\ Parts({me.session}) /\ UNCHANGED <<logs, blobs, me>>
  <2>1. apart' \subseteq Sessions
    BY <1>4, <1>7, PartsType DEF FilesInv
  <2>2. FilesTypeOK'
    BY <1>2, <1>7, <2>1 DEF FilesInv, FilesTypeOK, Places, Idle
  <2> QED
    BY <1>2, <1>7, <2>2 DEF Idle, FilesInv, OneName, BegunOnly, RunsInv, HasLog, HasRoom,
       StartInv, MoveInv, Moving, Ending
<1> QED
  BY <1>5, <1>6, <1>7 DEF MoveBlobs

LEMMA MoveFileKeeps ==
  ASSUME ConstantsOK, FilesInv, MoveFile
  PROVE  FilesInv'
<1>1. me \in Run /\ me.rec \in Names /\ to \in Names /\ me.log \in Names \cup {NoName}
  BY DEF MoveFile, FilesInv, FilesTypeOK, MoveInv, Moving, Run
<1>2. at = "movefile" /\ UNCHANGED <<logs, blobs, data, begun, outer, todo>>
  BY DEF MoveFile
<1>3. Owner(me.rec) \in Sessions \cup {NoSession} /\ Owner(to) \in Sessions \cup {NoSession}
      /\ me.session \in Sessions \cup {NoSession}
  BY <1>1, OwnerType DEF FilesInv, Run
<1>4. spmd' \in [Names -> Fountain \cup {NoFile}]
  <2> DEFINE S == Fountain \cup {NoFile}
  <2>1. spmd \in [Names -> S] /\ NoFile \in S
    BY DEF FilesInv, FilesTypeOK
  <2> HIDE DEF S
  <2>2. Moved(spmd, me.rec, to, NoFile) \in [Names -> S]
    BY <1>1, <2>1, MoveResult
  <2>3. spmd' = Moved(spmd, me.rec, to, NoFile) \/ spmd' = spmd
    BY DEF MoveFile
  <2> QED
    BY <2>1, <2>2, <2>3 DEF S
<1>5. apart' \subseteq Sessions
  <2>1. ASSUME NEW ss \in SUBSET (Sessions \cup {NoSession}), Parts(ss)
        PROVE  apart' \subseteq Sessions
    BY <2>1, PartsType DEF FilesInv
  <2>2. \/ Parts({Owner(me.rec), Owner(to)} \ {me.session})
        \/ Parts({Owner(me.rec), Owner(to), me.session})
        \/ UNCHANGED apart
    BY DEF MoveFile
  <2> QED
    BY <1>3, <2>1, <2>2 DEF FilesInv, FilesTypeOK
<1>6. me' \in Run /\ me'.session = me.session /\ me'.log = me.log
  BY <1>1 DEF MoveFile, Run
<1>7. \/ at' = "idle" /\ to' = NoName /\ undo' = FALSE
      \/ /\ at' = "movelog" /\ to' = me'.rec /\ undo' = TRUE /\ me'.rec = me.rec
         /\ me.log \in Names /\ me.log # me.rec /\ logs[me.rec] = NoSession
  <2>1. CASE Idle
    BY <2>1 DEF Idle
  <2>2. CASE TakeBack /\ me'.rec = me.rec
    BY <1>1, <2>2 DEF TakeBack, Idle, Taken
  <2>3. me' = me \/ me' = [me EXCEPT !.fd = FALSE] => me'.rec = me.rec
    BY <1>1 DEF Run
  <2> QED
    BY <2>1, <2>2, <2>3 DEF MoveFile
<1>8. FilesTypeOK'
  BY <1>1, <1>2, <1>4, <1>5, <1>6, <1>7 DEF FilesInv, FilesTypeOK, Places, Moving
<1>9. RunsInv'
  BY <1>2, <1>6, <1>7 DEF FilesInv, RunsInv, HasLog, HasRoom, Ending
<1>10. StartInv' /\ MoveInv'
  BY <1>1, <1>2, <1>6, <1>7 DEF StartInv, MoveInv, Moving, Ending
<1> QED
  BY <1>2, <1>6, <1>8, <1>9, <1>10 DEF FilesInv, OneName, BegunOnly

-----------------------------------------------------------------------------
(* ... and ends.                                                           *)

\* The records of the session put aside are those of the one that runs, or none are.
LEMMA OverResult ==
  ASSUME ConstantsOK, FilesInv, Over
  PROVE  /\ me' \in Run /\ outer' \in Run
         /\ \/ me' = outer /\ outer' = NoRun
            \/ me' = NoRun /\ UNCHANGED outer
         /\ at' \in {"idle", "down", "ready"}
         /\ NoRun.session = NoSession /\ NoRun.log = NoName
<1>1. NoRun \in Run /\ NoRun.session = NoSession /\ NoRun.log = NoName
  BY DEF NoRun, NotRecorded, Run
<1> QED
  BY <1>1 DEF Over, FilesInv, FilesTypeOK

LEMMA OverKeeps ==
  ASSUME ConstantsOK, FilesInv, Over,
         spmd' \in [Names -> Fountain \cup {NoFile}], apart' \subseteq Sessions,
         UNCHANGED <<logs, blobs, data, begun, to, undo, todo>>
  PROVE  FilesInv'
<1>1. /\ me' \in Run /\ outer' \in Run
      /\ \/ me' = outer /\ outer' = NoRun
         \/ me' = NoRun /\ UNCHANGED outer
      /\ at' \in {"idle", "down", "ready"}
      /\ NoRun.session = NoSession /\ NoRun.log = NoName
  BY OverResult
<1>2. FilesTypeOK'
  BY <1>1 DEF FilesInv, FilesTypeOK, Places
<1>3. BegunOnly'
  BY <1>1 DEF FilesInv, FilesTypeOK, BegunOnly, NoSession, ConstantsOK
<1>4. RunsInv'
  BY <1>1 DEF FilesInv, RunsInv, HasLog, HasRoom
<1> QED
  BY <1>1, <1>2, <1>3, <1>4 DEF FilesInv, OneName, StartInv, MoveInv, Moving, Ending

LEMMA EndLogKeeps ==
  ASSUME ConstantsOK, FilesInv, EndLog
  PROVE  FilesInv'
<1>1. me \in Run /\ HasRoom(me) /\ HasLog(me) /\ at = "idle"
  BY DEF EndLog, FilesInv, FilesTypeOK, RunsInv, Ending
<1>2. UNCHANGED <<logs, blobs, begun, outer, to, undo, todo, apart>>
  BY DEF EndLog
<1>3. \/ at' = "down" /\ me' = NoRun
      \/ at' = "close" /\ UNCHANGED me /\ me.rec \in Names
  BY <1>1 DEF EndLog, Run
<1>4. NoRun \in Run /\ NoRun.session = NoSession /\ NoRun.log = NoName
  BY DEF NoRun, NotRecorded, Run
<1>5. /\ data' \in [Sessions -> Log]
      /\ spmd' \in [Names -> Fountain \cup {NoFile}]
      /\ outer.log # NoName => data'[outer.session].events < MaxEvents
      /\ \A s \in Sessions : s > begun => data'[s].events = 0
  <2>1. CASE UNCHANGED <<data, spmd>>
    BY <2>1 DEF FilesInv, FilesTypeOK, RunsInv, HasRoom, BegunOnly
  <2>2. CASE me.log # NoName /\ Append(TRUE)
    <3>1. \E ends \in BOOLEAN : Append(ends)
      BY <2>2
    <3> QED
      BY <1>1, <2>2, <3>1, AppendKeeps
  <2> QED
    BY <2>1, <2>2 DEF EndLog
<1>6. FilesTypeOK'
  BY <1>1, <1>2, <1>3, <1>4, <1>5 DEF FilesInv, FilesTypeOK, Places, Ending
<1>7. BegunOnly'
  BY <1>2, <1>3, <1>4, <1>5 DEF FilesInv, FilesTypeOK, BegunOnly, NoSession, ConstantsOK
<1>8. RunsInv'
  BY <1>1, <1>2, <1>3, <1>4, <1>5 DEF FilesInv, RunsInv, HasLog, HasRoom, Ending
<1> QED
  BY <1>2, <1>3, <1>6, <1>7, <1>8 DEF FilesInv, OneName, StartInv, MoveInv, Moving, Ending

LEMMA CloseRecorderKeeps ==
  ASSUME ConstantsOK, FilesInv, CloseRecorder
  PROVE  FilesInv'
<1>1. at = "close" /\ me \in Run /\ me.rec \in Names /\ me.log \in Names \cup {NoName}
  BY DEF CloseRecorder, FilesInv, FilesTypeOK, StartInv, Ending, Run
<1>2. UNCHANGED <<logs, blobs, data, begun, to, undo, todo, apart>>
  BY DEF CloseRecorder
<1>3. spmd' \in [Names -> Fountain \cup {NoFile}]
  <2>1. CASE spmd' = [spmd EXCEPT ![me.rec].behind = {}] /\ spmd[me.rec] # NoFile
    <3>1. spmd[me.rec] \in Fountain
      BY <1>1, <2>1 DEF FilesInv, FilesTypeOK
    <3>2. [spmd[me.rec] EXCEPT !.behind = {}] \in Fountain
      BY <3>1 DEF Fountain
    <3> QED
      BY <1>1, <2>1, <3>2 DEF FilesInv, FilesTypeOK
  <2>2. CASE spmd' = spmd
    BY <2>2 DEF FilesInv, FilesTypeOK
  <2> QED
    BY <2>1, <2>2 DEF CloseRecorder
<1>4. CASE Over
  BY <1>2, <1>3, <1>4, OverKeeps DEF FilesInv, FilesTypeOK
<1>5. CASE me.log # NoName /\ at' = "render" /\ UNCHANGED <<me, outer>>
  <2>1. FilesTypeOK'
    BY <1>2, <1>3, <1>5 DEF FilesInv, FilesTypeOK, Places, Ending
  <2> QED
    BY <1>1, <1>2, <1>5, <2>1 DEF FilesInv, OneName, BegunOnly, RunsInv, HasLog, HasRoom,
       StartInv, MoveInv, Moving, Ending
<1> QED
  BY <1>4, <1>5 DEF CloseRecorder

LEMMA RenderFileKeeps ==
  ASSUME ConstantsOK, FilesInv, RenderFile
  PROVE  FilesInv'
<1>1. me \in Run /\ me.rec \in Names /\ me.log \in Names
  BY DEF RenderFile, FilesInv, FilesTypeOK, StartInv, Ending
<1>2. Over /\ UNCHANGED <<logs, blobs, data, begun, to, undo, todo>>
  BY DEF RenderFile
<1>3. spmd' \in [Names -> Fountain \cup {NoFile}]
  <2>1. CASE Renders(me.log) /\ spmd' = [spmd EXCEPT ![me.rec] = Rendering(me.log)]
    <3>1. Rendering(me.log) \in Fountain
      BY <1>1, <2>1, RenderingType DEF FilesInv
    <3> QED
      BY <2>1, <3>1 DEF FilesInv, FilesTypeOK
  <2>2. CASE UNCHANGED spmd
    BY <2>2 DEF FilesInv, FilesTypeOK
  <2> QED
    BY <2>1, <2>2 DEF RenderFile
<1>4. apart' \subseteq Sessions
  <2>1. ASSUME NEW ss \in SUBSET (Sessions \cup {NoSession}), Parts(ss)
        PROVE  apart' \subseteq Sessions
    BY <2>1, PartsType DEF FilesInv
  <2>2. Parts({Owner(me.rec), logs[me.log]} \ {me.session}) \/ Parts({me.session})
    BY DEF RenderFile
  <2>3. /\ Owner(me.rec) \in Sessions \cup {NoSession}
        /\ logs[me.log] \in Sessions \cup {NoSession}
        /\ me.session \in Sessions \cup {NoSession}
    BY <1>1, OwnerType DEF FilesInv, FilesTypeOK, Run
  <2> QED
    BY <2>1, <2>2, <2>3
<1> QED
  BY <1>2, <1>3, <1>4, OverKeeps

LEMMA CrashKeeps ==
  ASSUME ConstantsOK, FilesInv, Crash
  PROVE  FilesInv'
<1>1. /\ at' = "down" /\ me' = NoRun /\ outer' = NoRun
      /\ to' = NoName /\ undo' = FALSE /\ todo' = {}
      /\ UNCHANGED <<logs, blobs, begun>>
  BY DEF Crash
<1>2. NoRun \in Run /\ NoRun.session = NoSession /\ NoRun.log = NoName
  BY DEF NoRun, NotRecorded, Run
<1>3. /\ data' \in [Sessions -> Log]
      /\ spmd' \in [Names -> Fountain \cup {NoFile}]
      /\ \A s \in Sessions : s > begun => data'[s].events = 0
  <2>1. CASE UNCHANGED <<data, spmd>>
    BY <2>1 DEF FilesInv, FilesTypeOK, BegunOnly
  <2>2. CASE me.log # NoName /\ data[me.session].events < MaxEvents /\ Append(FALSE)
    <3>1. \E ends \in BOOLEAN : Append(ends)
      BY <2>2
    <3> QED
      BY <2>2, <3>1, AppendKeeps DEF HasRoom
  <2> QED
    BY <2>1, <2>2 DEF Crash
<1>4. apart' \subseteq Sessions
  <2>1. me.session \in Sessions \cup {NoSession}
    BY DEF FilesInv, FilesTypeOK, Run
  <2>2. Parts({me.session}) \/ UNCHANGED apart
    BY DEF Crash
  <2> QED
    BY <2>1, <2>2, PartsType DEF FilesInv, FilesTypeOK
<1>5. FilesTypeOK'
  BY <1>1, <1>2, <1>3, <1>4 DEF FilesInv, FilesTypeOK, Places
<1> QED
  BY <1>1, <1>2, <1>3, <1>5 DEF FilesInv, FilesTypeOK, OneName, BegunOnly, RunsInv, HasLog, HasRoom,
     StartInv, MoveInv, Moving, Ending, NoSession, ConstantsOK

-----------------------------------------------------------------------------
(* The invariant holds, and with it the types.                             *)

LEMMA NextKeeps ==
  ASSUME ConstantsOK, FilesInv, [Next]_vars
  PROVE  FilesInv'
<1>1. CASE Start
  BY <1>1, MovingOn DEF Start, FilesInv, FilesTypeOK, Ending
<1>2. CASE Recovered
  BY <1>2, MovingOn DEF Recovered, FilesInv, FilesTypeOK, Ending
<1>3. CASE \E name \in todo : Recover(name)
  BY <1>3, RecoverKeeps
<1>4. CASE \E kind \in {"repl", "replay"} : NoRecorder(kind)
  BY <1>4, NoRecorderKeeps
<1>5. CASE \E name \in Names, kind \in {"repl", "replay"} : NewRecorder(name, kind)
  BY <1>5, NewRecorderKeeps
<1>6. CASE \E payload \in Payloads : WriteBlob(payload)
  BY <1>6, WriteBlobKeeps
<1>7. CASE \E name \in Names : Rename(name)
  BY <1>7, RenameKeeps
<1>8. CASE OpenSessionLog \/ FirstEvent \/ LogEvent
  BY <1>8, OpenSessionLogKeeps, FirstEventKeeps, LogEventKeeps
<1>9. CASE MoveLog \/ MoveBlobs \/ MoveFile
  BY <1>9, MoveLogKeeps, MoveBlobsKeeps, MoveFileKeeps
<1>10. CASE EndLog \/ CloseRecorder \/ RenderFile \/ Crash
  BY <1>10, EndLogKeeps, CloseRecorderKeeps, RenderFileKeeps, CrashKeeps
<1>11. CASE UNCHANGED vars
  BY <1>11 DEF vars, disk, FilesInv, FilesTypeOK, OneName, BegunOnly, RunsInv, HasLog, HasRoom,
     StartInv, MoveInv
<1> QED
  BY <1>1, <1>2, <1>3, <1>4, <1>5, <1>6, <1>7, <1>8, <1>9, <1>10, <1>11 DEF Next

\* The invariant holds of every state of every behaviour.
THEOREM FilesInvariant == Spec => []FilesInv
<1>1. Init => FilesInv
  BY ConstantsOK, InitKeeps
<1>2. FilesInv /\ [Next]_vars => FilesInv'
  BY ConstantsOK, NextKeeps
<1> QED
  BY <1>1, <1>2, PTL DEF Spec

\* Every variable of the sessions directory keeps its type, for every number of
\* names, sessions and events, with every set of failures and happenings.
THEOREM FilesTypes == Spec => []FilesTypeOK
<1>1. FilesInv => FilesTypeOK
  BY DEF FilesInv
<1> QED
  BY <1>1, FilesInvariant, PTL

-----------------------------------------------------------------------------
(* The directory implements SessionNames.                                  *)

\* NameOf, of any directory f.
NameIn(f, s) ==
  IF \E name \in Names : f[name] = s THEN CHOOSE name \in Names : f[name] = s ELSE NoName
Called(f) == [s \in Sessions |-> NameIn(f, s)]
Held(d) == [s \in Sessions |-> d[s].events]

\* No session has two names in f.
Single(f) == \A m, n \in Names : f[m] # NoSession /\ f[m] = f[n] => m = n

LEMMA NameInIs ==
  ASSUME NEW f \in [Names -> Sessions \cup {NoSession}], Single(f), ConstantsOK,
         NEW s \in Sessions
  PROVE  /\ \A n \in Names : f[n] = s => NameIn(f, s) = n
         /\ (\A n \in Names : f[n] # s) => NameIn(f, s) = NoName
         /\ \A n \in Names : NameIn(f, s) = n => f[n] = s
<1>1. s # NoSession
  BY DEF Sessions, NoSession, ConstantsOK
<1>2. ASSUME NEW n \in Names, f[n] = s
      PROVE  NameIn(f, s) = n
  <2>1. \A m \in Names : f[m] = s => m = n
    BY <1>1, <1>2 DEF Single
  <2> QED
    BY <1>2, <2>1 DEF NameIn
<1>3. (\A n \in Names : f[n] # s) => NameIn(f, s) = NoName
  BY DEF NameIn
<1>4. ASSUME NEW n \in Names, NameIn(f, s) = n
      PROVE  f[n] = s
  BY <1>4 DEF NameIn, ConstantsOK
<1> QED
  BY <1>2, <1>3, <1>4

\* A name given to a session that had none.
LEMMA CalledWhenCreated ==
  ASSUME ConstantsOK,
         NEW f \in [Names -> Sessions \cup {NoSession}], Single(f),
         NEW s \in Sessions, \A n \in Names : f[n] # s,
         NEW name \in Names, f[name] = NoSession
  PROVE  /\ Called(f)[s] = NoName
         /\ \A t \in Sessions : Called(f)[t] # name
         /\ Called([f EXCEPT ![name] = s]) = [Called(f) EXCEPT ![s] = name]
<1> DEFINE g == [f EXCEPT ![name] = s]
<1>1. /\ g \in [Names -> Sessions \cup {NoSession}]
      /\ g[name] = s
      /\ \A n \in Names : n # name => g[n] = f[n]
  OBVIOUS
<1> HIDE DEF g
<1>2. Single(g)
  BY <1>1 DEF Single
<1>3. NoSession \notin Sessions
  BY DEF Sessions, NoSession, ConstantsOK
<1>4. Called(f)[s] = NoName
  BY NameInIs DEF Called
<1>5. \A t \in Sessions : Called(f)[t] # name
  BY <1>3, NameInIs DEF Called
<1>6. NameIn(g, s) = name
  BY <1>1, <1>2, NameInIs
<1>7. ASSUME NEW t \in Sessions, t # s
      PROVE  NameIn(g, t) = NameIn(f, t)
  <2>1. CASE \E n \in Names : f[n] = t
    <3>1. PICK n \in Names : f[n] = t
      BY <2>1
    <3>2. g[n] = t
      BY <1>1, <1>3, <3>1
    <3> QED
      BY <1>1, <1>2, <3>1, <3>2, NameInIs
  <2>2. CASE \A n \in Names : f[n] # t
    <3>1. \A n \in Names : g[n] # t
      BY <1>1, <1>7, <2>2
    <3> QED
      BY <1>1, <1>2, <2>2, <3>1, NameInIs
  <2> QED
    BY <2>1, <2>2
<1>8. Called(g) = [Called(f) EXCEPT ![s] = name]
  BY <1>6, <1>7 DEF Called
<1> QED
  BY <1>4, <1>5, <1>8 DEF g

\* A log moved to a name that has none.
LEMMA CalledWhenMoved ==
  ASSUME ConstantsOK,
         NEW f \in [Names -> Sessions \cup {NoSession}], Single(f),
         NEW from \in Names, NEW name \in Names, from # name,
         f[from] \in Sessions, f[name] = NoSession
  PROVE  /\ Called(f)[f[from]] # NoName
         /\ \A t \in Sessions : Called(f)[t] # name
         /\ Called(Moved(f, from, name, NoSession)) = [Called(f) EXCEPT ![f[from]] = name]
<1> DEFINE g == Moved(f, from, name, NoSession)
           s == f[from]
<1>1. /\ g \in [Names -> Sessions \cup {NoSession}]
      /\ g[name] = s /\ g[from] = NoSession
      /\ \A n \in Names : n \notin {from, name} => g[n] = f[n]
  BY DEF Moved
<1> HIDE DEF g
<1>2. NoSession \notin Sessions
  BY DEF Sessions, NoSession, ConstantsOK
<1>3. Single(g)
  BY <1>1, <1>2 DEF Single
<1>4. Called(f)[s] # NoName
  <2>1. NameIn(f, s) = from
    BY NameInIs
  <2> QED
    BY <2>1 DEF Called, ConstantsOK
<1>5. \A t \in Sessions : Called(f)[t] # name
  BY <1>2, NameInIs DEF Called
<1>6. NameIn(g, s) = name
  BY <1>1, <1>3, NameInIs
<1>7. ASSUME NEW t \in Sessions, t # s
      PROVE  NameIn(g, t) = NameIn(f, t)
  <2>1. CASE \E n \in Names : f[n] = t
    <3>1. PICK n \in Names : f[n] = t
      BY <2>1
    <3>2. g[n] = t
      BY <1>1, <1>2, <1>7, <3>1
    <3> QED
      BY <1>1, <1>3, <3>1, <3>2, NameInIs
  <2>2. CASE \A n \in Names : f[n] # t
    <3>1. \A n \in Names : g[n] # t
      BY <1>1, <1>2, <1>7, <2>2
    <3> QED
      BY <1>1, <1>3, <2>2, <3>1, NameInIs
  <2> QED
    BY <2>1, <2>2
<1>8. Called(g) = [Called(f) EXCEPT ![s] = name]
  BY <1>6, <1>7 DEF Called
<1> QED
  BY <1>4, <1>5, <1>8 DEF g

\* A step that leaves every log alone is none of SessionNames.
LEMMA Stutters ==
  ASSUME UNCHANGED <<logs, data>>
  PROVE  UNCHANGED Registry!vars
BY DEF Registry!vars, NameOf

\* An event of the session that runs.
LEMMA Logs ==
  ASSUME ConstantsOK, FilesInv, me.log # NoName, HasRoom(me),
         \E ends \in BOOLEAN : Append(ends), UNCHANGED logs
  PROVE  Registry!Next
<1>1. me.session \in Sessions
  BY DEF FilesInv, RunsInv, HasLog
<1>2. /\ data' \in [Sessions -> Log]
      /\ data'[me.session].events = data[me.session].events + 1
      /\ \A s \in Sessions \ {me.session} : data'[s] = data[s]
  BY <1>1, AppendResult DEF FilesInv, HasRoom
<1>3. PICK name \in Names : logs[name] = me.session
  BY DEF FilesInv, RunsInv, HasLog
<1>4. Called(logs)[me.session] # NoName
  <2>1. NameIn(logs, me.session) = name
    BY <1>1, <1>3, NameInIs, ConstantsOK DEF FilesInv, FilesTypeOK, OneName, Single
  <2> QED
    BY <1>1, <2>1 DEF Called, ConstantsOK
<1>5. Held(data') = [Held(data) EXCEPT ![me.session] = @ + 1]
  BY <1>1, <1>2 DEF Held
<1>6. Called(logs') = Called(logs)
  OBVIOUS
<1>7. /\ [s \in Sessions |-> NameOf(s)] = Called(logs)
      /\ [s \in Sessions |-> data[s].events] = Held(data)
      /\ [s \in Sessions |-> NameOf(s)]' = Called(logs')
      /\ [s \in Sessions |-> data[s].events]' = Held(data')
  BY DEF NameOf, Called, NameIn, Held
<1>8. PICK s \in Sessions : s = me.session
  BY <1>1
<1>9. Registry!Log(s)
  BY <1>4, <1>5, <1>6, <1>7, <1>8 DEF Registry!Log
<1> QED
  BY <1>9 DEF Registry!Next

\* The log of a recording that starts.
LEMMA Creates ==
  ASSUME ConstantsOK, FilesInv, OpenSessionLog, logs[me.rec] = NoSession,
         logs' = [logs EXCEPT ![me.rec] = me.session]
  PROVE  Registry!Next
<1>1. me.session \in Sessions /\ me.rec \in Names /\ \A n \in Names : logs[n] # me.session
  BY DEF OpenSessionLog, FilesInv, StartInv
<1>2. logs \in [Names -> Sessions \cup {NoSession}] /\ Single(logs)
  BY DEF FilesInv, FilesTypeOK, OneName, Single
<1>3. PICK s \in Sessions, name \in Names : s = me.session /\ name = me.rec
  BY <1>1
<1>4. /\ Called(logs)[s] = NoName
      /\ \A t \in Sessions : Called(logs)[t] # name
      /\ Called([logs EXCEPT ![name] = s]) = [Called(logs) EXCEPT ![s] = name]
  <2>1. logs[name] = NoSession /\ \A n \in Names : logs[n] # s
    BY <1>1, <1>3
  <2> HIDE <1>1, <1>3
  <2> QED
    BY <1>2, <2>1, CalledWhenCreated
<1>5. Called(logs') = [Called(logs) EXCEPT ![s] = name]
  BY <1>3, <1>4
<1>6. /\ [t \in Sessions |-> NameOf(t)] = Called(logs)
      /\ [t \in Sessions |-> NameOf(t)]' = Called(logs')
  BY DEF NameOf, Called, NameIn
<1>7. UNCHANGED data
  BY DEF OpenSessionLog
<1>8. Registry!Create(s, name)
  BY <1>4, <1>5, <1>6, <1>7 DEF Registry!Create, Registry!Free
<1> QED
  BY <1>8 DEF Registry!Next

\* A log that moves, or goes back.
LEMMA Renames ==
  ASSUME ConstantsOK, FilesInv, NEW from \in Names, NEW name \in Names, from # name,
         logs[from] # NoSession, logs[name] = NoSession,
         logs' = Moved(logs, from, name, NoSession), UNCHANGED data
  PROVE  Registry!Next
<1>1. logs \in [Names -> Sessions \cup {NoSession}] /\ Single(logs)
  BY DEF FilesInv, FilesTypeOK, OneName, Single
<1>2. PICK s \in Sessions : s = logs[from]
  BY <1>1
<1>3. /\ Called(logs)[s] # NoName
      /\ \A t \in Sessions : Called(logs)[t] # name
      /\ Called(Moved(logs, from, name, NoSession)) = [Called(logs) EXCEPT ![s] = name]
  BY <1>1, <1>2, CalledWhenMoved
<1>4. Called(logs') = [Called(logs) EXCEPT ![s] = name]
  BY <1>3
<1>5. /\ [t \in Sessions |-> NameOf(t)] = Called(logs)
      /\ [t \in Sessions |-> NameOf(t)]' = Called(logs')
  BY DEF NameOf, Called, NameIn
<1>6. Registry!Rename(s, name)
  BY <1>3, <1>4, <1>5 DEF Registry!Rename, Registry!Free
<1> QED
  BY <1>6 DEF Registry!Next

\* Every step maps to one of SessionNames, or to none.
LEMMA StepRefines ==
  ASSUME ConstantsOK, FilesInv, [Next]_vars
  PROVE  [Registry!Next]_Registry!vars
<1>1. CASE UNCHANGED <<logs, data>>
  BY <1>1, Stutters
<1>2. CASE OpenSessionLog
  <2>1. CASE logs[me.rec] = NoSession /\ logs' = [logs EXCEPT ![me.rec] = me.session]
    BY <1>2, <2>1, Creates
  <2>2. CASE UNCHANGED <<logs, data>>
    BY <2>2, Stutters
  <2> QED
    BY <1>2, <2>1, <2>2 DEF OpenSessionLog
<1>3. CASE FirstEvent \/ LogEvent \/ EndLog \/ Crash
  <2>1. UNCHANGED logs
    BY <1>3 DEF FirstEvent, LogEvent, EndLog, Crash
  <2>2. CASE UNCHANGED data
    BY <2>1, <2>2, Stutters
  <2>3. CASE me.log # NoName /\ HasRoom(me) /\ (\E ends \in BOOLEAN : Append(ends))
    BY <2>1, <2>3, Logs
  <2>4. CASE FirstEvent
    <3>1. me.log # NoName /\ HasRoom(me)
      BY <2>4 DEF FirstEvent, FilesInv, StartInv, RunsInv, Ending, ConstantsOK
    <3>2. UNCHANGED data \/ \E ends \in BOOLEAN : Append(ends)
      BY <2>4 DEF FirstEvent
    <3> QED
      BY <2>2, <2>3, <3>1, <3>2
  <2>5. CASE LogEvent
    <3>1. me.log # NoName /\ HasRoom(me)
      BY <2>5 DEF LogEvent, FilesInv, RunsInv, Ending
    <3>2. UNCHANGED data \/ \E ends \in BOOLEAN : Append(ends)
      BY <2>5 DEF LogEvent
    <3> QED
      BY <2>2, <2>3, <3>1, <3>2
  <2>6. CASE EndLog
    <3>1. HasRoom(me)
      BY <2>6 DEF EndLog, FilesInv, RunsInv, Ending
    <3>2. UNCHANGED data \/ (me.log # NoName /\ \E ends \in BOOLEAN : Append(ends))
      BY <2>6 DEF EndLog
    <3> QED
      BY <2>2, <2>3, <3>1, <3>2
  <2>7. CASE Crash
    <3>1. UNCHANGED data \/ (me.log # NoName /\ HasRoom(me) /\ \E ends \in BOOLEAN : Append(ends))
      BY <2>7 DEF Crash, HasRoom
    <3> QED
      BY <2>2, <2>3, <3>1
  <2> QED
    BY <1>3, <2>4, <2>5, <2>6, <2>7
<1>4. CASE MoveLog
  <2>1. me.log \in Names /\ to \in Names /\ me.log # to /\ logs[to] = NoSession
    BY <1>4 DEF MoveLog, FilesInv, MoveInv, Moving
  <2>2. UNCHANGED data
    BY <1>4 DEF MoveLog
  <2>3. CASE logs[me.log] # NoSession /\ logs' = Moved(logs, me.log, to, NoSession)
    BY <2>1, <2>2, <2>3, Renames
  <2>4. CASE UNCHANGED logs
    BY <2>2, <2>4, Stutters
  <2> QED
    BY <1>4, <2>3, <2>4 DEF MoveLog
<1>5. CASE MoveBlobs
  <2>1. /\ me.log \in Names /\ to \in Names /\ me.log # to
        /\ logs[to] # NoSession /\ logs[me.log] = NoSession
    BY <1>5 DEF MoveBlobs, FilesInv, MoveInv, Moving
  <2>2. UNCHANGED data
    BY <1>5 DEF MoveBlobs
  <2>3. CASE logs' = Moved(logs, to, me.log, NoSession)
    BY <2>1, <2>2, <2>3, Renames
  <2>4. CASE UNCHANGED logs
    BY <2>2, <2>4, Stutters
  <2> QED
    BY <1>5, <2>3, <2>4 DEF MoveBlobs
<1>6. CASE \/ Start \/ Recovered \/ MoveFile \/ CloseRecorder \/ RenderFile
           \/ \E name \in todo : Recover(name)
           \/ \E kind \in {"repl", "replay"} : NoRecorder(kind)
           \/ \E name \in Names, kind \in {"repl", "replay"} : NewRecorder(name, kind)
           \/ \E payload \in Payloads : WriteBlob(payload)
           \/ \E name \in Names : Rename(name)
           \/ UNCHANGED vars
  <2>1. UNCHANGED <<logs, data>>
    BY <1>6 DEF Start, Recovered, MoveFile, CloseRecorder, RenderFile, Recover, NoRecorder,
       NewRecorder, WriteBlob, Rename, vars, disk
  <2> QED
    BY <2>1, Stutters
<1> QED
  BY <1>2, <1>3, <1>4, <1>5, <1>6 DEF Next

\* No log is ever lost or written over, and no two sessions get one name: the
\* sessions directory implements SessionNames, whatever fails or happens.
THEOREM DirectoryKeepsLogs == Spec => ImplementsSessionNames
<1>1. Init => Registry!Init
  <2>1. ASSUME Init, NEW s \in Sessions
        PROVE  NameOf(s) = NoName /\ data[s].events = 0
    BY <2>1, ConstantsOK DEF Init, NameOf, Sessions, NoSession, ConstantsOK
  <2> QED
    BY <2>1 DEF Registry!Init
<1>2. FilesInv /\ [Next]_vars => [Registry!Next]_Registry!vars
  BY ConstantsOK, StepRefines
<1> QED
  BY <1>1, <1>2, FilesInvariant, PTL DEF Spec, ImplementsSessionNames, Registry!Spec

-----------------------------------------------------------------------------
(* A session's files stay together.  That a step keeps them so depends on  *)
(* where they are when the step begins, so the invariant says, of every    *)
(* session that nothing has left apart, where its Fountain file is, and of *)
(* the two that are recorded, what their records know.                     *)

\* What is said of a run is said while its files are not left apart.
Kept(run) == run.session \notin apart \cup {NoSession}

\* Which run there is at a place; only one started first is renamed.
RunsAre ==
  /\ at \in {"down", "recover", "ready"} => me = NoRun /\ outer = NoRun
  /\ outer # NoRun => me.kind = "replay" /\ me.rec # NoName /\ outer.kind = "repl"
  /\ at \in Moving => me.kind = "repl" /\ me.payload = NoPayload
  /\ at \notin {"movelog", "moveblobs"} => ~undo
  /\ me.session # NoSession <=> me.rec # NoName
  /\ outer.session # NoSession <=> outer.rec # NoName

\* The recorder of a run knows where its Fountain file is, a log that is given up
\* is empty, and a payload not yet in an event is in the log's blobs.
Home(run) ==
  Kept(run) =>
    /\ run.rec \in Names /\ Owner(run.rec) = run.session
    /\ run.log = NoName => data[run.session].events = 0 /\ run.payload = NoPayload
    /\ run.log # NoName => run.payload \in blobs[run.log] \cup {NoPayload}

\* The next startup would see that what a run has logged is not rendered.
Unfinished(run) ==
  Kept(run) =>
    /\ ~data[run.session].ended
    /\ data[run.session].events > 0 => run.session \in spmd[run.rec].behind

\* The log of a run is where its Fountain file is.
Beside(run) ==
  Kept(run) /\ run.log # NoName => run.rec = run.log /\ logs[run.log] = run.session

RunsKnow ==
  /\ Home(me) /\ Home(outer)
  /\ at \notin Ending => Unfinished(me)
  /\ Unfinished(outer)
  /\ at \notin Moving => Beside(me)
  /\ Beside(outer)
  /\ Kept(outer) => outer.rec # me.rec

\* Where the files of the session that is renamed are, on the way and on the way back.
OnTheWay ==
  /\ Kept(me) /\ at = "movelog" =>
       logs[me.log] = me.session /\ me.rec = IF undo THEN to ELSE me.log
  /\ Kept(me) /\ at = "moveblobs" =>
       /\ logs[to] = me.session /\ me.rec = IF undo THEN to ELSE me.log
       /\ data[me.session].refs \subseteq blobs[me.log]
  /\ Kept(me) /\ at = "movefile" /\ me.log # NoName =>
       me.log = to /\ logs[to] = me.session /\ (me.log # me.rec => ~Taken(me.rec))
  /\ at = "moveblobs" => logs[to] \in apart \cup {me.session}

\* A session has one Fountain file, and it is beside its log, unless a rename is
\* under way.
OneFile ==
  \A m, n \in Names : Owner(m) = Owner(n) /\ Owner(m) \notin apart \cup {NoSession} => m = n
FileBeside ==
  \A name \in Names :
    Renders(name) /\ logs[name] \notin apart /\ ~(at \in Moving /\ logs[name] = me.session) =>
      Owner(name) = logs[name]
OwnerBegun == \A name \in Names : Owner(name) <= begun
Fresh == \A s \in Sessions : data[s].events = 0 => data[s].refs = {} /\ ~data[s].ended

\* A session that is over is rendered, or will be; where a run may write over its
\* rendering's time, it is rendered.
Live == {me.session, outer.session}
RenderedWhenOver ==
  \A name \in Names :
    Renders(name) /\ logs[name] \notin Live \cup apart => Current(name) \/ Takes(name)
Spared(run) ==
  run.rec \in Names /\ Renders(run.rec) /\ logs[run.rec] \notin Live \cup apart => Current(run.rec)

WholeInv ==
  /\ RunsAre /\ RunsKnow /\ OnTheWay
  /\ OneFile /\ FileBeside /\ OwnerBegun /\ Fresh
  /\ BlobsResolve /\ RenderedWhenOver /\ Spared(me) /\ Spared(outer)

\* What the records and the directory hold is of the types they declare.
LEMMA RunFields ==
  ASSUME NEW run \in Run
  PROVE  /\ run.kind \in {"none", "repl", "replay"} /\ run.session \in Sessions \cup {NoSession}
         /\ run.rec \in Names \cup {NoName} /\ run.log \in Names \cup {NoName}
         /\ run.fd \in BOOLEAN /\ run.payload \in Payloads \cup {NoPayload}
BY DEF Run

LEMMA NoRunIs ==
  /\ NoRun \in Run /\ NoRun.kind = "none" /\ NoRun.session = NoSession
  /\ NoRun.rec = NoName /\ NoRun.log = NoName /\ NoRun.payload = NoPayload
BY DEF NoRun, NotRecorded, Run

LEMMA NoFileIs ==
  ASSUME NEW file \in Fountain
  PROVE  file # NoFile /\ file.of \in Sessions /\ file.of # NoSession
         /\ file.behind \subseteq Sessions /\ file.refs \subseteq Payloads /\ file.events \in Nat
<1>1. file.of \in Sessions /\ file.behind \subseteq Sessions /\ file.refs \subseteq Payloads
      /\ file.events \in Nat
  BY DEF Fountain
<1>2. file # NoFile
  BY DEF Fountain, NoFile
<1>3. file.of # NoSession
  BY <1>1 DEF Sessions, NoSession
<1> QED
  BY <1>1, <1>2, <1>3

LEMMA InitWhole ==
  ASSUME ConstantsOK, Init
  PROVE  WholeInv
<1>1. /\ \A name \in Names : ~Renders(name) /\ Owner(name) = NoSession /\ logs[name] = NoSession
      /\ ~Kept(me) /\ ~Kept(outer) /\ me = NoRun /\ outer = NoRun
  BY NoRunIs DEF Init, Renders, Owner, Kept
<1>2. \A s \in Sessions : data[s].refs = {} /\ ~data[s].ended
  BY DEF Init
<1>3. begun = 0 /\ at = "down" /\ ~undo
  BY DEF Init
<1>4. RunsAre
  BY <1>1, <1>3, NoRunIs DEF RunsAre, Moving
<1>5. RunsKnow /\ OnTheWay
  BY <1>1, <1>3 DEF RunsKnow, Home, Unfinished, Beside, OnTheWay
<1>6. OneFile /\ FileBeside /\ OwnerBegun /\ Fresh /\ BlobsResolve
  BY <1>1, <1>2, <1>3 DEF OneFile, FileBeside, OwnerBegun, Fresh, BlobsResolve, NoSession
<1>7. RenderedWhenOver /\ Spared(me) /\ Spared(outer)
  BY <1>1 DEF RenderedWhenOver, Spared
<1> QED
  BY <1>4, <1>5, <1>6, <1>7 DEF WholeInv

\* A step that leaves the logs and the Fountain files alone, and lets no session
\* end, keeps what is said of them alone.
LEMMA SameFiles ==
  ASSUME WholeInv, UNCHANGED <<logs, spmd, data, begun>>, apart \subseteq apart',
         \A s \in Live \ {NoSession} : s \in Live' \cup apart'
  PROVE  OneFile' /\ OwnerBegun' /\ Fresh' /\ RenderedWhenOver'
<1>1. OneFile'
  BY DEF WholeInv, OneFile, Owner
<1>2. OwnerBegun' /\ Fresh'
  BY DEF WholeInv, OwnerBegun, Fresh, Owner
<1>3. RenderedWhenOver'
  BY DEF WholeInv, RenderedWhenOver, Renders, Current, Takes
<1> QED
  BY <1>1, <1>2, <1>3

\* A step that only moves on, to a place where no rename is under way.
LEMMA PassingOn ==
  ASSUME WholeInv, UNCHANGED <<disk, begun, me, outer, apart>>,
         at \notin Moving \cup Ending, at' \notin Moving \cup Ending, ~undo',
         at' \in {"down", "recover", "ready"} => me = NoRun /\ outer = NoRun
  PROVE  WholeInv'
<1>1. UNCHANGED <<logs, blobs, spmd, data, begun, me, outer, apart>>
  BY DEF disk
<1>2. OneFile' /\ OwnerBegun' /\ Fresh' /\ RenderedWhenOver'
  BY <1>1, SameFiles DEF Live
<1>3. RunsAre' /\ OnTheWay'
  BY <1>1 DEF WholeInv, RunsAre, OnTheWay, Moving
<1>4. RunsKnow'
  BY <1>1 DEF WholeInv, RunsKnow, Home, Unfinished, Beside, Kept, Owner
<1>5. FileBeside'
  BY <1>1 DEF WholeInv, FileBeside, Renders, Owner
<1>6. BlobsResolve'
  BY <1>1 DEF WholeInv, BlobsResolve, Moving
<1>7. Spared(me)' /\ Spared(outer)'
  BY <1>1 DEF WholeInv, Spared, Renders, Live, Current
<1> QED
  BY <1>2, <1>3, <1>4, <1>5, <1>6, <1>7 DEF WholeInv

LEMMA StartWhole ==
  ASSUME WholeInv, Start \/ Recovered
  PROVE  WholeInv'
BY PassingOn DEF Start, Recovered, Moving, Ending, WholeInv, RunsAre

\* What recovery renders is what is in the log, and it takes no Fountain file from
\* a session that has its log beside it.
LEMMA RecoverWhole ==
  ASSUME ConstantsOK, FilesInv, WholeInv, NEW name \in todo, Recover(name)
  PROVE  WholeInv'
<1>1. /\ name \in Names /\ at = "recover" /\ UNCHANGED at
      /\ UNCHANGED <<logs, blobs, data, begun, me, outer, to, undo, apart>>
      /\ me = NoRun /\ outer = NoRun /\ ~undo
  BY DEF Recover, FilesInv, FilesTypeOK, WholeInv, RunsAre
<1>2. CASE UNCHANGED spmd
  BY <1>1, <1>2, PassingOn DEF Moving, Ending, disk
<1>3. CASE Takes(name) /\ spmd' = [spmd EXCEPT ![name] = Rendering(name)]
  <2> DEFINE s == logs[name]
             file == Rendering(name)
  <2>1. s \in Sessions /\ s # NoSession /\ Renders(name)
    BY <1>1, <1>3 DEF FilesInv, FilesTypeOK, Takes, Renders
  <2>2. file \in Fountain /\ file # NoFile /\ file.of = s /\ file.events = data[s].events
        /\ file.refs = data[s].refs \cap blobs[name]
    BY <1>1, <2>1, RenderingType, NoFileIs DEF FilesInv, Rendering
  <2>3. spmd'[name] = file /\ \A n \in Names \ {name} : spmd'[n] = spmd[n]
    BY <1>1, <1>3 DEF FilesInv, FilesTypeOK
  <2> HIDE DEF file
  <2>4. Owner(name)' = s /\ \A n \in Names \ {name} : Owner(n)' = Owner(n)
    BY <2>2, <2>3 DEF Owner
  <2>5. s \notin apart => Owner(name) = s
    BY <1>1, <2>1 DEF WholeInv, FileBeside, Moving
  <2>6. OneFile' /\ OwnerBegun' /\ Fresh'
    <3>1. s <= begun
      BY <1>1 DEF FilesInv, BegunOnly
    <3> QED
      BY <1>1, <2>4, <2>5, <3>1 DEF WholeInv, OneFile, OwnerBegun, Fresh
  <2>7. RunsAre' /\ OnTheWay'
    BY <1>1 DEF WholeInv, RunsAre, OnTheWay, Moving
  <2>8. RunsKnow'
    BY <1>1, NoRunIs DEF RunsKnow, Home, Unfinished, Beside, Kept
  <2>9. FileBeside'
    BY <1>1, <2>4 DEF WholeInv, FileBeside, Renders
  <2>10. BlobsResolve'
    BY <1>1 DEF WholeInv, BlobsResolve
  <2>11. RenderedWhenOver'
    <3>1. s \notin apart => data[s].refs \subseteq blobs[name]
      BY <1>1, <2>1 DEF WholeInv, BlobsResolve
    <3>2. s \notin apart => Current(name)'
      BY <1>1, <2>2, <2>3, <3>1 DEF Current
    <3>3. ASSUME NEW n \in Names \ {name}
          PROVE  Renders(n)' = Renders(n) /\ Current(n)' = Current(n) /\ Takes(n)' = Takes(n)
      BY <1>1, <2>3 DEF Renders, Current, Takes
    <3> QED
      BY <1>1, <3>2, <3>3 DEF WholeInv, RenderedWhenOver, Live
  <2>12. Spared(me)' /\ Spared(outer)'
    BY <1>1, NoRunIs DEF Spared, ConstantsOK
  <2> QED
    BY <2>6, <2>7, <2>8, <2>9, <2>10, <2>11, <2>12 DEF WholeInv
<1> QED
  BY <1>2, <1>3 DEF Recover

-----------------------------------------------------------------------------
(* An event.                                                               *)

\* To touch the Fountain files changes nothing in them, and makes them older.
LEMMA TouchedFiles ==
  ASSUME FilesInv, NEW s, spmd' = Touched(s), NEW name \in Names
  PROVE  /\ Owner(name)' = Owner(name)
         /\ spmd[name] = NoFile => spmd'[name] = NoFile
         /\ spmd[name] # NoFile =>
              /\ spmd'[name] # NoFile /\ spmd'[name].of = spmd[name].of
              /\ spmd'[name].events = spmd[name].events /\ spmd'[name].refs = spmd[name].refs
              /\ spmd'[name].behind = spmd[name].behind \cup {s}
<1>1. spmd'[name] = IF spmd[name] = NoFile THEN NoFile
                    ELSE [spmd[name] EXCEPT !.behind = @ \cup {s}]
  BY DEF Touched
<1>2. CASE spmd[name] = NoFile
  BY <1>1, <1>2 DEF Owner
<1>3. CASE spmd[name] # NoFile
  <2> DEFINE file == [spmd[name] EXCEPT !.behind = @ \cup {s}]
  <2>1. spmd[name] \in Fountain
    BY <1>3 DEF FilesInv, FilesTypeOK
  <2>2. /\ file = [of |-> spmd[name].of, events |-> spmd[name].events, refs |-> spmd[name].refs,
                   behind |-> spmd[name].behind \cup {s}]
        /\ spmd'[name] = file
    BY <1>1, <1>3, <2>1 DEF Fountain
  <2> HIDE DEF file
  <2>3. /\ file.of = spmd[name].of /\ file.events = spmd[name].events
        /\ file.refs = spmd[name].refs /\ file.behind = spmd[name].behind \cup {s}
    BY <2>2
  <2>4. file # NoFile
    BY <2>2 DEF NoFile
  <2> QED
    BY <1>3, <2>2, <2>3, <2>4 DEF Owner
<1> QED
  BY <1>2, <1>3

\* What an appended event says of the session it is about, and of the others.
LEMMA AppendedEvent ==
  ASSUME ConstantsOK, FilesInv, me.log # NoName, HasRoom(me), NEW ends \in BOOLEAN, Append(ends)
  PROVE  /\ me.session \in Sessions /\ me.session # NoSession
         /\ data'[me.session].events = data[me.session].events + 1
         /\ data'[me.session].events > 0
         /\ data'[me.session].ended = ends
         /\ data'[me.session].refs = data[me.session].refs \cup ({me.payload} \ {NoPayload})
         /\ \A s \in Sessions \ {me.session} : data'[s] = data[s]
<1> DEFINE old == data[me.session]
           new == [events |-> old.events + 1, ended |-> ends,
                   refs |-> old.refs \cup ({me.payload} \ {NoPayload})]
<1>1. me.session \in Sessions /\ me.session # NoSession
  BY DEF FilesInv, RunsInv, HasLog, Sessions, NoSession
<1>2. data' = [data EXCEPT ![me.session] = new]
  BY DEF Append
<1>3. old.events \in Nat
  BY <1>1 DEF FilesInv, FilesTypeOK, Log
<1>4. /\ new.events = old.events + 1 /\ new.ended = ends
      /\ new.refs = old.refs \cup ({me.payload} \ {NoPayload})
  OBVIOUS
<1> HIDE DEF new
<1>5. data'[me.session] = new /\ \A s \in Sessions \ {me.session} : data'[s] = data[s]
  BY <1>1, <1>2 DEF FilesInv, FilesTypeOK
<1> QED
  BY <1>1, <1>3, <1>4, <1>5

\* An event of the session that runs keeps every session whole: its blobs hold what
\* the event refers to, and the next startup would render it.
LEMMA AppendedWhole ==
  ASSUME ConstantsOK, FilesInv, WholeInv, me.log # NoName, HasRoom(me),
         at \notin Moving, NEW ends \in BOOLEAN, Append(ends),
         UNCHANGED <<logs, blobs, begun, apart>>
  PROVE  /\ OneFile' /\ OwnerBegun' /\ Fresh' /\ BlobsResolve' /\ FileBeside'
         /\ \A name \in Names : logs[name] # me.session =>
              /\ Renders(name)' = Renders(name) /\ Current(name)' = Current(name)
              /\ Takes(name) => Takes(name)'
         /\ \A name \in Names : name = me.rec /\ Kept(me) =>
              /\ Owner(name)' = me.session
              /\ me.session \in spmd'[name].behind
              /\ ~ends => Takes(name)'
         /\ outer' = outer => Home(outer)' /\ Unfinished(outer)' /\ Beside(outer)'
<1>1. /\ me.session \in Sessions /\ me.session # NoSession
      /\ data'[me.session].events = data[me.session].events + 1
      /\ data'[me.session].events > 0
      /\ data'[me.session].ended = ends
      /\ data'[me.session].refs = data[me.session].refs \cup ({me.payload} \ {NoPayload})
      /\ \A s \in Sessions \ {me.session} : data'[s] = data[s]
  BY AppendedEvent
<1>2. \A name \in Names :
         /\ Owner(name)' = Owner(name)
         /\ spmd[name] = NoFile => spmd'[name] = NoFile
         /\ spmd[name] # NoFile =>
              /\ spmd'[name] # NoFile /\ spmd'[name].of = spmd[name].of
              /\ spmd'[name].events = spmd[name].events /\ spmd'[name].refs = spmd[name].refs
              /\ spmd'[name].behind = spmd[name].behind \cup {me.session}
  BY TouchedFiles DEF Append
<1>3. \A name \in Names : logs[name] \in Sessions \cup {NoSession}
  BY DEF FilesInv, FilesTypeOK
<1>4. Kept(me) => /\ me.rec = me.log /\ logs[me.log] = me.session /\ me.rec \in Names
                  /\ Owner(me.rec) = me.session
                  /\ me.payload \in blobs[me.log] \cup {NoPayload}
  BY DEF WholeInv, RunsKnow, Home, Beside
<1>5. OneFile' /\ OwnerBegun'
  BY <1>2 DEF WholeInv, OneFile, OwnerBegun
<1>6. Fresh'
  BY <1>1 DEF WholeInv, Fresh
<1>7. \A name \in Names : logs[name] # me.session =>
        /\ Renders(name)' = Renders(name) /\ Current(name)' = Current(name)
        /\ Takes(name) => Takes(name)'
  <2> SUFFICES ASSUME NEW name \in Names, logs[name] # me.session
               PROVE  /\ Renders(name)' = Renders(name) /\ Current(name)' = Current(name)
                      /\ Takes(name) => Takes(name)'
    OBVIOUS
  <2>1. logs'[name] = logs[name] /\ (logs[name] # NoSession => data'[logs[name]] = data[logs[name]])
    BY <1>1, <1>3
  <2>2. Renders(name)' = Renders(name)
    BY <2>1 DEF Renders
  <2>3. Takes(name) => Takes(name)'
    BY <1>2, <2>1, <2>2 DEF Takes, Renders
  <2>4. Current(name)' = Current(name)
    <3>1. CASE logs[name] = NoSession
      <4>1. spmd[name] # NoFile => spmd[name].of # NoSession
        BY NoFileIs DEF FilesInv, FilesTypeOK
      <4> QED
        BY <1>2, <2>1, <3>1, <4>1 DEF Current
    <3>2. CASE logs[name] # NoSession
      BY <1>2, <2>1, <3>2 DEF Current
    <3> QED
      BY <3>1, <3>2
  <2> QED
    BY <2>2, <2>3, <2>4
<1>8. \A name \in Names : logs[name] = me.session /\ Kept(me) => name = me.log
  BY <1>1, <1>3, <1>4 DEF FilesInv, OneName
<1>9. FileBeside'
  <2> SUFFICES ASSUME NEW name \in Names, Renders(name)', logs[name] \notin apart
               PROVE  Owner(name)' = logs[name]
    BY DEF FileBeside
  <2>1. CASE logs[name] = me.session
    BY <1>1, <1>2, <1>4, <1>8, <2>1 DEF Kept
  <2>2. CASE logs[name] # me.session
    BY <1>2, <1>7, <2>2 DEF WholeInv, FileBeside
  <2> QED
    BY <2>1, <2>2
<1>10. BlobsResolve'
  <2> SUFFICES ASSUME NEW name \in Names, logs[name] \notin apart \cup {NoSession}
               PROVE  data'[logs[name]].refs \subseteq blobs[name]
    BY DEF BlobsResolve
  <2>1. data[logs[name]].refs \subseteq blobs[name]
    BY DEF WholeInv, BlobsResolve, Moving
  <2>2. CASE logs[name] = me.session
    BY <1>1, <1>4, <1>8, <2>1, <2>2 DEF Kept
  <2>3. CASE logs[name] # me.session
    BY <1>1, <1>3, <2>1, <2>3
  <2> QED
    BY <2>2, <2>3
<1>11. ASSUME NEW name \in Names, name = me.rec, Kept(me)
       PROVE  /\ Owner(name)' = me.session
              /\ me.session \in spmd'[name].behind
              /\ ~ends => Takes(name)'
  <2>1. spmd[name] # NoFile
    BY <1>1, <1>4, <1>11 DEF Owner
  <2>2. me.session \in spmd'[name].behind
    BY <1>2, <1>4, <2>1
  <2>3. logs'[name] = me.session
    BY <1>4, <1>11
  <2>4. ~ends => Takes(name)'
    BY <1>1, <2>2, <2>3 DEF Takes, Renders
  <2> QED
    BY <1>2, <1>4, <1>11, <2>2, <2>4
<1>12. ASSUME outer' = outer
       PROVE  Home(outer)' /\ Unfinished(outer)' /\ Beside(outer)'
  <2>1. Home(outer) /\ Unfinished(outer) /\ Beside(outer)
    BY DEF WholeInv, RunsKnow
  <2>2. Kept(outer) => /\ outer.session \in Sessions /\ data'[outer.session] = data[outer.session]
                       /\ outer.rec \in Names /\ Owner(outer.rec) = outer.session
    <3>1. outer.session # NoSession => outer.session # me.session
      BY DEF FilesInv, RunsInv
    <3>2. outer.session \in Sessions \cup {NoSession}
      BY RunFields DEF FilesInv, FilesTypeOK
    <3> QED
      BY <1>1, <2>1, <3>1, <3>2 DEF Kept, Home
  <2>3. Kept(outer)' = Kept(outer)
    BY <1>12 DEF Kept
  <2>4. Home(outer)' /\ Beside(outer)'
    BY <1>2, <1>12, <2>1, <2>2, <2>3 DEF Home, Beside
  <2>5. Unfinished(outer)'
    <3> SUFFICES ASSUME Kept(outer)
                 PROVE  /\ ~data'[outer.session].ended
                        /\ data'[outer.session].events > 0 => outer.session \in spmd'[outer.rec].behind
      BY <1>12, <2>3 DEF Unfinished
    <3>1. spmd[outer.rec] # NoFile
      BY <2>2 DEF Owner, Kept
    <3>2. spmd'[outer.rec].behind = spmd[outer.rec].behind \cup {me.session}
      BY <1>2, <2>2, <3>1
    <3>3. ~data[outer.session].ended
          /\ (data[outer.session].events > 0 => outer.session \in spmd[outer.rec].behind)
      BY <2>1 DEF Unfinished
    <3> QED
      BY <2>2, <3>2, <3>3
  <2> QED
    BY <2>4, <2>5
<1> QED
  BY <1>5, <1>6, <1>7, <1>9, <1>10, <1>11, <1>12

-----------------------------------------------------------------------------
(* Every action keeps the sessions whole.  A recording starts:             *)

LEMMA NewRecorderWhole ==
  ASSUME ConstantsOK, FilesInv, WholeInv, NEW name \in Names, NEW kind \in {"repl", "replay"},
         NewRecorder(name, kind)
  PROVE  WholeInv'
<1>1. begun' \in Sessions /\ begun' = begun + 1 /\ begun \in Nat
  BY DEF FilesInv, FilesTypeOK, NewRecorder, Sessions, ConstantsOK
<1>2. /\ me'.kind = kind /\ me'.session = begun' /\ me'.rec = name /\ me'.log = NoName
      /\ me'.payload = NoPayload /\ at \in {"ready", "idle"} /\ at' = "open" /\ outer' = me
      /\ UNCHANGED <<logs, blobs, data, to, undo, todo>>
  BY DEF NewRecorder, NotRecorded
<1>3. \/ at = "ready" /\ me = NoRun
      \/ at = "idle" /\ me.kind = "repl" /\ kind = "replay"
  BY DEF NewRecorder, WholeInv, RunsAre
<1>4. outer.session = NoSession
  <2>1. outer = NoRun
    BY <1>3 DEF WholeInv, RunsAre
  <2> QED
    BY <2>1, NoRunIs
<1>5. /\ apart \subseteq apart' /\ logs[name] \in apart' \cup {NoSession}
      /\ Owner(name) \in apart' \cup {NoSession}
  BY DEF NewRecorder, Parts
<1>6. /\ \A n \in Names \ {name} : spmd'[n] = spmd[n]
      /\ spmd'[name] = TitlePage(begun')
  BY DEF NewRecorder, FilesInv, FilesTypeOK
<1>7. TitlePage(begun') \in Fountain /\ TitlePage(begun').of = begun'
  BY <1>1 DEF TitlePage, Fountain, ConstantsOK
<1>8. Owner(name)' = begun' /\ \A n \in Names \ {name} : Owner(n)' = Owner(n)
  BY <1>6, <1>7, NoFileIs DEF Owner
<1>9. /\ begun' # NoSession /\ begun' > begun
      /\ \A n \in Names : logs[n] # begun' /\ Owner(n) # begun' /\ Owner(n) <= begun'
  <2>1. \A n \in Names : Owner(n) <= begun /\ logs[n] <= begun
    BY DEF WholeInv, OwnerBegun, FilesInv, BegunOnly
  <2>2. \A n \in Names : Owner(n) \in Nat /\ logs[n] \in Nat
    BY OwnerType DEF FilesInv, FilesTypeOK, Sessions, NoSession
  <2> QED
    BY <1>1, <2>1, <2>2 DEF NoSession
<1>10. data[begun'].events = 0 /\ ~data[begun'].ended
  BY <1>1, <1>9 DEF FilesInv, BegunOnly, WholeInv, Fresh
<1>11. RunsAre'
  <2>1. undo' = FALSE
    BY <1>2, <1>3 DEF WholeInv, RunsAre, FilesInv, FilesTypeOK
  <2>2. outer' # NoRun => me'.kind = "replay" /\ me'.rec # NoName /\ outer'.kind = "repl"
    BY <1>2, <1>3 DEF ConstantsOK
  <2>3. me'.session # NoSession /\ me'.rec # NoName
    BY <1>2, <1>9 DEF ConstantsOK
  <2>4. outer'.session # NoSession <=> outer'.rec # NoName
    BY <1>2 DEF WholeInv, RunsAre
  <2> QED
    BY <1>2, <2>1, <2>2, <2>3, <2>4 DEF RunsAre, Moving
<1>12. Kept(outer)' => /\ Kept(me) /\ me.rec # name
                       /\ Home(me) /\ Unfinished(me) /\ Beside(me)
  BY <1>2, <1>5 DEF Kept, WholeInv, RunsKnow, Home, Moving, Ending
<1>13. RunsKnow'
  <2>1. Home(me)' /\ Unfinished(me)' /\ Beside(me)'
    BY <1>2, <1>8, <1>10 DEF Home, Unfinished, Beside
  <2>2. Home(outer)' /\ Unfinished(outer)' /\ Beside(outer)'
    BY <1>2, <1>6, <1>8, <1>12 DEF Home, Unfinished, Beside, Kept
  <2>3. Kept(outer)' => outer'.rec # me'.rec
    BY <1>2, <1>12
  <2> QED
    BY <2>1, <2>2, <2>3 DEF RunsKnow
<1>14. OnTheWay' /\ Fresh'
  BY <1>2 DEF OnTheWay, WholeInv, Fresh
<1>15. OneFile'
  BY <1>5, <1>8, <1>9 DEF WholeInv, OneFile
<1>16. FileBeside'
  BY <1>2, <1>5, <1>8 DEF WholeInv, FileBeside, Renders, Moving
<1>17. OwnerBegun'
  BY <1>1, <1>8, <1>9 DEF OwnerBegun
<1>18. BlobsResolve'
  BY <1>2, <1>5 DEF WholeInv, BlobsResolve, Moving
<1>19. /\ \A n \in Names : Renders(n)' = Renders(n)
       /\ \A n \in Names \ {name} : Current(n)' = Current(n) /\ Takes(n)' = Takes(n)
  BY <1>2, <1>6 DEF Renders, Current, Takes
<1>20. \A s : s \notin Live' \cup apart' /\ s # NoSession => s \notin Live \cup apart
  BY <1>2, <1>4, <1>5 DEF Live
<1>21. \A n \in Names : Renders(n) => logs[n] # NoSession
  BY DEF Renders
<1>22. RenderedWhenOver'
  BY <1>2, <1>5, <1>19, <1>20, <1>21 DEF WholeInv, RenderedWhenOver
<1>23. Spared(me)' /\ Spared(outer)'
  BY <1>2, <1>5, <1>19, <1>20, <1>21 DEF WholeInv, Spared
<1> QED
  BY <1>11, <1>13, <1>14, <1>15, <1>16, <1>17, <1>18, <1>22, <1>23 DEF WholeInv

LEMMA NoRecorderWhole ==
  ASSUME ConstantsOK, FilesInv, WholeInv, NEW kind \in {"repl", "replay"}, NoRecorder(kind)
  PROVE  WholeInv'
<1>1. /\ UNCHANGED <<logs, blobs, spmd, data, begun, outer, to, undo, apart>>
      /\ at = "ready" /\ me = NoRun /\ outer = NoRun /\ ~undo
  BY DEF NoRecorder, disk, WholeInv, RunsAre
<1>2. /\ me'.session = NoSession /\ me'.rec = NoName
      /\ \/ at' = "idle"
         \/ at' = "down" /\ me' = NoRun
  BY NoRunIs DEF NoRecorder, NotRecorded
<1>3. RunsAre' /\ RunsKnow' /\ OnTheWay'
  BY <1>1, <1>2, NoRunIs DEF RunsAre, RunsKnow, OnTheWay, Home, Unfinished, Beside, Kept, Moving
<1>4. OneFile' /\ OwnerBegun' /\ Fresh' /\ RenderedWhenOver'
  BY <1>1, <1>2, NoRunIs, SameFiles DEF Live
<1>5. FileBeside'
  BY <1>1, <1>2 DEF WholeInv, FileBeside, Renders, Owner, Moving
<1>6. BlobsResolve'
  BY <1>1, <1>2 DEF WholeInv, BlobsResolve
<1>7. Spared(me)' /\ Spared(outer)'
  BY <1>1, <1>2, NoRunIs DEF Spared, ConstantsOK
<1> QED
  BY <1>3, <1>4, <1>5, <1>6, <1>7 DEF WholeInv

LEMMA OpenSessionLogWhole ==
  ASSUME ConstantsOK, FilesInv, WholeInv, OpenSessionLog
  PROVE  WholeInv'
<1>1. /\ me \in Run /\ me.session \in Sessions /\ me.rec \in Names /\ me.log = NoName
      /\ data[me.session].events = 0
      /\ at = "open" /\ UNCHANGED <<blobs, spmd, data, begun, outer, to, undo, todo, apart>>
  BY DEF OpenSessionLog, FilesInv, FilesTypeOK, StartInv
<1>2. CASE at' = "idle" /\ UNCHANGED <<logs, me>>
  <2>1. ~undo
    BY <1>1 DEF WholeInv, RunsAre
  <2> QED
    BY <1>1, <1>2, <2>1, PassingOn DEF Moving, Ending, disk
<1>3. CASE logs[me.rec] = NoSession /\ logs' = [logs EXCEPT ![me.rec] = me.session]
           /\ me' = [me EXCEPT !.log = me.rec] /\ at' = "first"
  <2>1. /\ me'.session = me.session /\ me'.rec = me.rec /\ me'.log = me.rec /\ me'.kind = me.kind
        /\ me'.payload = me.payload
    BY <1>1, <1>3 DEF Run
  <2>2. logs'[me.rec] = me.session /\ \A n \in Names \ {me.rec} : logs'[n] = logs[n]
    BY <1>1, <1>3 DEF FilesInv, FilesTypeOK
  <2>3. data[me.session].refs = {}
    BY <1>1 DEF WholeInv, Fresh
  <2>4. /\ \A n \in Names \ {me.rec} :
             Renders(n)' = Renders(n) /\ Current(n)' = Current(n) /\ Takes(n)' = Takes(n)
        /\ \A n \in Names : n = me.rec => ~Renders(n)'
        /\ \A n \in Names : Owner(n)' = Owner(n)
    BY <1>1, <2>2 DEF Renders, Current, Takes, Owner
  <2>5. RunsAre'
    BY <1>1, <1>3, <2>1 DEF WholeInv, RunsAre, Moving
  <2>6. Kept(me)' = Kept(me) /\ Kept(outer)' = Kept(outer)
    BY <1>1, <2>1 DEF Kept
  <2>7. Home(me)' /\ Unfinished(me)' /\ Beside(me)'
    BY <1>1, <2>1, <2>2, <2>4, <2>6 DEF WholeInv, RunsKnow, Home, Unfinished, Beside, Kept, Ending
  <2>8. Home(outer)' /\ Unfinished(outer)' /\ Beside(outer)'
    <3>1. Beside(outer) => (Kept(outer) /\ outer.log # NoName => outer.log # me.rec)
      BY <1>3 DEF Beside, Kept
    <3>2. Kept(outer) /\ outer.log # NoName => logs'[outer.log] = logs[outer.log]
      <4>1. outer.log \in Names \cup {NoName}
        BY RunFields DEF FilesInv, FilesTypeOK
      <4> QED
        BY <2>2, <3>1, <4>1 DEF WholeInv, RunsKnow
    <3> QED
      BY <1>1, <2>4, <2>6, <3>2 DEF WholeInv, RunsKnow, Home, Unfinished, Beside
  <2>9. RunsKnow'
    BY <1>1, <2>1, <2>6, <2>7, <2>8 DEF WholeInv, RunsKnow
  <2>10. OnTheWay' /\ Fresh'
    BY <1>1, <1>3 DEF OnTheWay, WholeInv, Fresh
  <2>11. OneFile' /\ OwnerBegun'
    BY <1>1, <2>4 DEF WholeInv, OneFile, OwnerBegun
  <2>12. FileBeside'
    BY <1>1, <1>3, <2>2, <2>4 DEF WholeInv, FileBeside, Moving
  <2>13. BlobsResolve'
    BY <1>1, <1>3, <2>2, <2>3 DEF WholeInv, BlobsResolve
  <2>14. Live' = Live
    BY <1>1, <2>1 DEF Live
  <2>15. RenderedWhenOver' /\ Spared(me)' /\ Spared(outer)'
    BY <1>1, <2>1, <2>2, <2>4, <2>14 DEF WholeInv, RenderedWhenOver, Spared
  <2> QED
    BY <2>5, <2>9, <2>10, <2>11, <2>12, <2>13, <2>15 DEF WholeInv
<1> QED
  BY <1>2, <1>3 DEF OpenSessionLog

-----------------------------------------------------------------------------
(* ... the session runs ...                                                *)

\* An event that is logged, by a session that goes on.
LEMMA LoggedWhole ==
  ASSUME ConstantsOK, FilesInv, WholeInv, at \in {"first", "idle"}, at' = "idle",
         me.log # NoName, Append(FALSE), me' = [me EXCEPT !.payload = NoPayload],
         UNCHANGED <<logs, blobs, begun, outer, to, undo, apart>>
  PROVE  WholeInv'
<1>1. HasRoom(me) /\ at \notin Moving /\ at \notin Ending /\ ~undo /\ me \in Run
  BY DEF FilesInv, RunsInv, Ending, Moving, WholeInv, RunsAre, FilesTypeOK
<1>2. /\ me'.session = me.session /\ me'.rec = me.rec /\ me'.log = me.log /\ me'.kind = me.kind
      /\ me'.payload = NoPayload
  BY <1>1 DEF Run
<1>3. /\ OneFile' /\ OwnerBegun' /\ Fresh' /\ BlobsResolve' /\ FileBeside'
      /\ \A name \in Names : logs[name] # me.session =>
           /\ Renders(name)' = Renders(name) /\ Current(name)' = Current(name)
           /\ Takes(name) => Takes(name)'
      /\ \A name \in Names : name = me.rec /\ Kept(me) =>
           /\ Owner(name)' = me.session
           /\ me.session \in spmd'[name].behind
           /\ ~FALSE => Takes(name)'
      /\ Home(outer)' /\ Unfinished(outer)' /\ Beside(outer)'
  BY <1>1, AppendedWhole
<1>4. ~data'[me.session].ended
  BY <1>1, AppendedEvent
<1>5. RunsAre' /\ OnTheWay'
  BY <1>1, <1>2 DEF WholeInv, RunsAre, OnTheWay, Moving
<1>6. Kept(me)' = Kept(me) /\ Kept(outer)' = Kept(outer) /\ Live' = Live
  BY <1>2 DEF Kept, Live
<1>7. RunsKnow'
  <2>1. Home(me)' /\ Unfinished(me)' /\ Beside(me)'
    BY <1>1, <1>2, <1>3, <1>4, <1>6 DEF WholeInv, RunsKnow, Home, Unfinished, Beside
  <2>2. Kept(outer)' => outer'.rec # me'.rec
    BY <1>2, <1>6 DEF WholeInv, RunsKnow
  <2> QED
    BY <1>3, <2>1, <2>2 DEF RunsKnow
<1>8. RenderedWhenOver' /\ Spared(me)' /\ Spared(outer)'
  <2>1. \A name \in Names : logs'[name] \notin Live' \cup apart' =>
          logs[name] # me.session /\ logs[name] \notin Live \cup apart
    BY <1>6 DEF Live
  <2> QED
    BY <1>2, <1>3, <2>1 DEF WholeInv, RenderedWhenOver, Spared
<1> QED
  BY <1>3, <1>5, <1>7, <1>8 DEF WholeInv

\* A call of the session that runs that only adds to its blobs, gives up an empty log,
\* or fails.
LEMMA BlobsGrow ==
  ASSUME ConstantsOK, FilesInv, WholeInv, at \in {"first", "idle"}, at' \in {at, "idle"},
         UNCHANGED <<logs, spmd, data, begun, outer, to, undo, apart>>,
         blobs' \in [Names -> SUBSET Payloads], \A n \in Names : blobs[n] \subseteq blobs'[n],
         me'.session = me.session, me'.rec = me.rec, me'.kind = me.kind,
         \/ me'.log = me.log /\ me'.log # NoName
         \/ me'.log = NoName /\ data[me.session].events = 0 /\ me'.payload = NoPayload,
         me'.log # NoName => me'.payload \in blobs'[me'.log] \cup {NoPayload}
  PROVE  WholeInv'
<1>1. at \notin Moving /\ at' \notin Moving /\ at \notin Ending /\ at' \notin Ending /\ ~undo
      /\ at' \notin {"down", "recover", "ready"} /\ at # "moveblobs" /\ at' # "moveblobs"
  BY DEF Ending, Moving, WholeInv, RunsAre
<1>2. Kept(me)' = Kept(me) /\ Kept(outer)' = Kept(outer) /\ Live' = Live
  BY DEF Kept, Live
<1>3. \A n \in Names : /\ Owner(n)' = Owner(n) /\ Renders(n)' = Renders(n)
                       /\ Current(n)' = Current(n) /\ Takes(n)' = Takes(n)
  BY DEF Owner, Renders, Current, Takes
<1>4. RunsAre' /\ OnTheWay'
  BY <1>1 DEF WholeInv, RunsAre, OnTheWay, Moving
<1>5. Home(me)' /\ Unfinished(me)' /\ Beside(me)'
  BY <1>1, <1>2, <1>3 DEF WholeInv, RunsKnow, Home, Unfinished, Beside
<1>6. Home(outer)' /\ Unfinished(outer)' /\ Beside(outer)'
  <2>1. outer.log \in Names \cup {NoName}
    BY RunFields DEF FilesInv, FilesTypeOK
  <2> QED
    BY <1>2, <1>3, <2>1 DEF WholeInv, RunsKnow, Home, Unfinished, Beside
<1>7. RunsKnow'
  BY <1>2, <1>5, <1>6 DEF WholeInv, RunsKnow
<1>8. OneFile' /\ OwnerBegun' /\ Fresh' /\ RenderedWhenOver'
  BY <1>2, SameFiles
<1>9. FileBeside'
  BY <1>1, <1>3 DEF WholeInv, FileBeside
<1>10. BlobsResolve'
  BY <1>1 DEF WholeInv, BlobsResolve
<1>11. Spared(me)' /\ Spared(outer)'
  BY <1>2, <1>3 DEF WholeInv, Spared
<1> QED
  BY <1>4, <1>7, <1>8, <1>9, <1>10, <1>11 DEF WholeInv

LEMMA FirstEventWhole ==
  ASSUME ConstantsOK, FilesInv, WholeInv, FirstEvent
  PROVE  WholeInv'
<1>1. /\ me \in Run /\ me.log # NoName /\ data[me.session].events = 0 /\ at = "first" /\ at' = "idle"
      /\ UNCHANGED <<logs, blobs, begun, outer, to, undo, todo, apart>>
      /\ blobs \in [Names -> SUBSET Payloads]
  BY DEF FirstEvent, FilesInv, FilesTypeOK, StartInv, ConstantsOK
<1>2. CASE Append(FALSE) /\ me' = [me EXCEPT !.payload = NoPayload]
  BY <1>1, <1>2, LoggedWhole
<1>3. CASE me' = [me EXCEPT !.payload = NoPayload, !.log = NoName] /\ UNCHANGED <<data, spmd>>
  <2>1. /\ me'.session = me.session /\ me'.rec = me.rec /\ me'.kind = me.kind
        /\ me'.log = NoName /\ me'.payload = NoPayload
    BY <1>1, <1>3 DEF Run
  <2> QED
    BY <1>1, <1>3, <2>1, BlobsGrow
<1> QED
  BY <1>2, <1>3 DEF FirstEvent

LEMMA LogEventWhole ==
  ASSUME ConstantsOK, FilesInv, WholeInv, LogEvent
  PROVE  WholeInv'
<1>1. /\ me \in Run /\ me.log # NoName /\ at = "idle" /\ at' = "idle"
      /\ me' = [me EXCEPT !.payload = NoPayload]
      /\ UNCHANGED <<logs, blobs, begun, outer, to, undo, todo, apart>>
      /\ blobs \in [Names -> SUBSET Payloads]
  BY DEF LogEvent, FilesInv, FilesTypeOK
<1>2. CASE Append(FALSE)
  BY <1>1, <1>2, LoggedWhole
<1>3. CASE UNCHANGED <<data, spmd>>
  <2>1. /\ me'.session = me.session /\ me'.rec = me.rec /\ me'.kind = me.kind
        /\ me'.log = me.log /\ me'.payload = NoPayload
    BY <1>1 DEF Run
  <2> QED
    BY <1>1, <1>3, <2>1, BlobsGrow
<1> QED
  BY <1>2, <1>3 DEF LogEvent

LEMMA WriteBlobWhole ==
  ASSUME ConstantsOK, FilesInv, WholeInv, NEW payload \in Payloads, WriteBlob(payload)
  PROVE  WholeInv'
<1>1. /\ me \in Run /\ me.log \in Names /\ me.log # NoName /\ at \in {"first", "idle"} /\ at' = at
      /\ UNCHANGED <<logs, spmd, data, begun, outer, to, undo, apart>>
  BY DEF WriteBlob, FilesInv, FilesTypeOK, Run
<1>2. /\ me'.session = me.session /\ me'.rec = me.rec /\ me'.kind = me.kind
      /\ me'.log = me.log /\ me'.payload = payload
  BY <1>1 DEF WriteBlob, Run
<1>3. /\ blobs' \in [Names -> SUBSET Payloads]
      /\ payload \in blobs'[me.log]
      /\ \A n \in Names : blobs[n] \subseteq blobs'[n]
  BY <1>1 DEF WriteBlob, FilesInv, FilesTypeOK
<1> QED
  BY <1>1, <1>2, <1>3, BlobsGrow

-----------------------------------------------------------------------------
(* ... is renamed ...                                                      *)

LEMMA RenameWhole ==
  ASSUME ConstantsOK, FilesInv, WholeInv, NEW name \in Names, Rename(name)
  PROVE  WholeInv'
<1>1. /\ UNCHANGED <<logs, blobs, spmd, data, begun, me, outer, undo, apart>>
      /\ at = "idle" /\ me.kind = "repl" /\ me.payload = NoPayload /\ to' = name /\ ~undo
      /\ at \notin Moving /\ at \notin Ending
  BY DEF Rename, disk, WholeInv, RunsAre, Moving, Ending
<1>2. \/ at' = "movefile" /\ me.log \in {NoName, name}
      \/ at' = "movelog" /\ me.log # NoName
  BY DEF Rename
<1>3. RunsAre'
  BY <1>1, <1>2 DEF WholeInv, RunsAre, Moving
<1>4. Kept(me)' = Kept(me) /\ Kept(outer)' = Kept(outer) /\ Live' = Live
  BY <1>1 DEF Kept, Live
<1>5. \A n \in Names : /\ Owner(n)' = Owner(n) /\ Renders(n)' = Renders(n)
                       /\ Current(n)' = Current(n)
  BY <1>1 DEF Owner, Renders, Current
<1>6. RunsKnow'
  BY <1>1, <1>4, <1>5 DEF WholeInv, RunsKnow, Home, Unfinished, Beside
<1>7. OnTheWay'
  BY <1>1, <1>2, <1>4 DEF WholeInv, RunsKnow, Beside, OnTheWay
<1>8. OneFile' /\ OwnerBegun' /\ Fresh' /\ RenderedWhenOver'
  BY <1>1, <1>4, SameFiles
<1>9. FileBeside'
  BY <1>1, <1>5 DEF WholeInv, FileBeside
<1>10. BlobsResolve'
  BY <1>1, <1>2 DEF WholeInv, BlobsResolve
<1>11. Spared(me)' /\ Spared(outer)'
  BY <1>1, <1>4, <1>5 DEF WholeInv, Spared
<1> QED
  BY <1>3, <1>6, <1>7, <1>8, <1>9, <1>10, <1>11 DEF WholeInv

\* The session that is renamed is the only one recorded, and its log is where the
\* rename has brought it.
LEMMA WhereRenamed ==
  ASSUME ConstantsOK, FilesInv, WholeInv, at \in Moving
  PROVE  /\ me \in Run /\ me.rec \in Names /\ to \in Names /\ me.payload = NoPayload
         /\ outer = NoRun /\ outer.session = NoSession /\ outer.rec = NoName
         /\ me.session \in Sessions /\ me.session # NoSession /\ me.kind = "repl"
         /\ Kept(me) => Owner(me.rec) = me.session
         /\ Unfinished(me)
<1>1. me \in Run /\ me.rec \in Names /\ to \in Names /\ me.payload = NoPayload /\ me.kind = "repl"
  BY DEF FilesInv, FilesTypeOK, MoveInv, WholeInv, RunsAre
<1>2. outer = NoRun
  BY <1>1 DEF WholeInv, RunsAre
<1>3. me.session # NoSession
  BY <1>1 DEF WholeInv, RunsAre, ConstantsOK
<1>4. me.session \in Sessions
  BY <1>1, <1>3, RunFields
<1>5. at \notin Ending
  BY DEF Moving, Ending
<1> QED
  BY <1>1, <1>2, <1>3, <1>4, <1>5, NoRunIs DEF WholeInv, RunsKnow, Home

\* A rename that fails goes back to where the session runs: its files are where
\* they were, or something is said to have left them apart.
LEMMA RenameFailed ==
  ASSUME ConstantsOK, FilesInv, WholeInv, at \in Moving, Idle,
         UNCHANGED <<logs, blobs, spmd, data, begun, outer>>,
         me'.session = me.session, me'.rec = me.rec, me'.log = me.log, me'.kind = me.kind,
         me'.payload = me.payload,
         apart' = apart \/ apart' = apart \cup {me.session},
         Kept(me)' => Beside(me),
         at = "moveblobs" => ~Kept(me)'
  PROVE  WholeInv'
<1>1. /\ me.rec \in Names /\ me.payload = NoPayload /\ me.session # NoSession
      /\ outer'.session = NoSession /\ outer'.rec = NoName /\ outer' = NoRun
      /\ Kept(me) => Owner(me.rec) = me.session
      /\ Unfinished(me)
  BY WhereRenamed
<1>2. at' = "idle" /\ ~undo' /\ at' \notin Moving /\ at' \notin {"moveblobs", "movelog", "movefile"}
      /\ at' \notin {"down", "recover", "ready"}
  BY DEF Idle, Moving
<1>3. apart \subseteq apart' /\ Live' = Live /\ (Kept(me)' => Kept(me))
  BY DEF Kept, Live
<1>4. RunsAre' /\ OnTheWay'
  BY <1>1, <1>2 DEF WholeInv, RunsAre, OnTheWay
<1>5. \A n \in Names : /\ Owner(n)' = Owner(n) /\ Renders(n)' = Renders(n)
                       /\ Current(n)' = Current(n)
  BY DEF Owner, Renders, Current
<1>6. Home(me)' /\ Unfinished(me)' /\ Beside(me)'
  BY <1>1, <1>3, <1>5 DEF WholeInv, RunsKnow, Home, Unfinished, Beside
<1>7. RunsKnow'
  BY <1>1, <1>6 DEF RunsKnow, Home, Unfinished, Beside, Kept
<1>8. OneFile' /\ OwnerBegun' /\ Fresh' /\ RenderedWhenOver'
  BY <1>3, SameFiles
<1>9. FileBeside'
  <2> SUFFICES ASSUME NEW name \in Names, Renders(name), logs[name] \notin apart'
               PROVE  Owner(name) = logs[name]
    BY <1>5 DEF FileBeside
  <2>1. CASE logs[name] # me.session
    BY <1>3, <2>1 DEF WholeInv, FileBeside
  <2>2. CASE logs[name] = me.session
    <3>1. Kept(me)'
      BY <1>1, <2>2 DEF Kept
    <3>2. me.log # NoName
      BY <1>3, <2>2, <3>1 DEF WholeInv, RunsKnow, Home, Renders, FilesInv, FilesTypeOK
    <3>3. me.rec = me.log /\ logs[me.log] = me.session
      BY <1>3, <3>1, <3>2 DEF Beside
    <3>4. name = me.rec
      BY <1>1, <2>2, <3>3 DEF FilesInv, OneName
    <3> QED
      BY <1>1, <1>3, <2>2, <3>1, <3>4
  <2> QED
    BY <2>1, <2>2
<1>10. BlobsResolve'
  <2> SUFFICES ASSUME NEW name \in Names, logs[name] \notin apart' \cup {NoSession}
               PROVE  data[logs[name]].refs \subseteq blobs[name]
    BY DEF BlobsResolve
  <2>1. at = "moveblobs" => name # to
    BY <1>1, <1>3 DEF WholeInv, OnTheWay, Kept
  <2> QED
    BY <1>3, <2>1 DEF WholeInv, BlobsResolve
<1>11. Spared(me)' /\ Spared(outer)'
  BY <1>1, <1>3, <1>5 DEF WholeInv, Spared, ConstantsOK
<1> QED
  BY <1>4, <1>7, <1>8, <1>9, <1>10, <1>11 DEF WholeInv

\* A log that is moved is that of the session that is renamed, or of one whose files
\* are apart: nothing is said of another's rendering that was not.
LEMMA LogWent ==
  ASSUME ConstantsOK, FilesInv, WholeInv, at \in Moving,
         NEW from \in Names, NEW name \in Names, from # name, logs[name] = NoSession,
         logs' = Moved(logs, from, name, NoSession),
         logs[from] \in apart' \cup {me.session}, apart \subseteq apart',
         UNCHANGED <<spmd, data, begun, outer>>, me'.session = me.session, me'.rec = me.rec
  PROVE  /\ OneFile' /\ OwnerBegun' /\ Fresh' /\ RenderedWhenOver'
         /\ Spared(me)' /\ Spared(outer)'
         /\ logs'[name] = logs[from] /\ logs'[from] = NoSession
         /\ \A n \in Names : n \notin {from, name} => logs'[n] = logs[n]
         /\ \A n \in Names : Owner(n)' = Owner(n)
<1>1. /\ logs'[name] = logs[from] /\ logs'[from] = NoSession
      /\ \A n \in Names : n \notin {from, name} => logs'[n] = logs[n]
  BY DEF Moved, FilesInv, FilesTypeOK
<1>2. \A n \in Names : n \notin {from, name} =>
        Renders(n)' = Renders(n) /\ Current(n)' = Current(n) /\ Takes(n)' = Takes(n)
  BY <1>1 DEF Renders, Current, Takes
<1>3. \A n \in Names : Owner(n)' = Owner(n)
  BY DEF Owner
<1>4. OneFile' /\ OwnerBegun' /\ Fresh'
  BY <1>3 DEF WholeInv, OneFile, OwnerBegun, Fresh
<1>5. Live' = Live /\ me.session \in Live
  BY DEF Live
<1>6. \A n \in Names : Renders(n)' /\ logs'[n] \notin Live' \cup apart' =>
        n \notin {from, name} /\ Renders(n) /\ logs[n] \notin Live \cup apart /\ logs'[n] = logs[n]
  BY <1>1, <1>2, <1>5 DEF Renders
<1>7. RenderedWhenOver' /\ Spared(me)' /\ Spared(outer)'
  BY <1>2, <1>6 DEF WholeInv, RenderedWhenOver, Spared
<1> QED
  BY <1>1, <1>3, <1>4, <1>7

LEMMA MoveLogWhole ==
  ASSUME ConstantsOK, FilesInv, WholeInv, MoveLog
  PROVE  WholeInv'
<1>1. /\ me \in Run /\ me.log \in Names /\ me.log # NoName /\ me.log # to /\ to \in Names
      /\ logs[to] = NoSession /\ at = "movelog" /\ at \in Moving /\ at \notin Ending
      /\ UNCHANGED <<blobs, spmd, data, begun, outer, todo>>
  BY DEF MoveLog, FilesInv, FilesTypeOK, MoveInv, Moving, Ending, ConstantsOK
<1>2. /\ me.rec \in Names /\ me.payload = NoPayload /\ me.session # NoSession /\ me.kind = "repl"
      /\ me.session \in Sessions
      /\ outer = NoRun /\ outer.session = NoSession /\ outer.rec = NoName
      /\ Kept(me) => Owner(me.rec) = me.session
      /\ Unfinished(me)
  BY <1>1, WhereRenamed
<1>3. Kept(me) => logs[me.log] = me.session /\ me.rec = IF undo THEN to ELSE me.log
  BY <1>1 DEF WholeInv, OnTheWay
<1>4. CASE Idle /\ (IF undo THEN Parts({me.session}) ELSE UNCHANGED apart) /\ UNCHANGED <<logs, me>>
  <2>1. apart' = apart \/ apart' = apart \cup {me.session}
    BY <1>2, <1>4 DEF Parts
  <2>2. undo => ~Kept(me)'
    BY <1>2, <1>4 DEF Parts, Kept
  <2>3. Kept(me)' => Kept(me)
    BY <1>4, <2>1 DEF Kept
  <2>4. Kept(me)' => Beside(me)
    BY <1>3, <2>2, <2>3 DEF Beside
  <2> QED
    BY <1>1, <1>4, <2>1, <2>4, RenameFailed
<1>5. CASE /\ logs[me.log] # NoSession
           /\ logs' = Moved(logs, me.log, to, NoSession)
           /\ \/ blobs[me.log] = {} /\ LogMoved
              \/ at' = "moveblobs" /\ UNCHANGED <<me, to, undo>>
           /\ Parts({logs[me.log]} \ {me.session})
  <2>1. apart \subseteq apart' /\ logs[me.log] \in apart' \cup {me.session}
        /\ (me.session \in apart' <=> me.session \in apart)
    BY <1>5 DEF Parts
  <2>2. /\ me'.session = me.session /\ me'.rec = me.rec /\ me'.kind = me.kind
        /\ me'.payload = NoPayload /\ me'.log \in {me.log, to} /\ me'.log # NoName
    BY <1>1, <1>2, <1>5 DEF LogMoved, Run, ConstantsOK
  <2>3. \/ at' = "moveblobs" /\ me'.log = me.log /\ to' = to /\ undo' = undo
        \/ at' = "idle" /\ me'.log = to /\ undo /\ ~undo' /\ blobs[me.log] = {}
        \/ at' = "movefile" /\ me'.log = to /\ to' = to /\ ~undo /\ ~undo' /\ blobs[me.log] = {}
    BY <1>1, <1>5 DEF LogMoved, Idle, Run
  <2>4. /\ OneFile' /\ OwnerBegun' /\ Fresh' /\ RenderedWhenOver'
        /\ Spared(me)' /\ Spared(outer)'
        /\ logs'[to] = logs[me.log] /\ logs'[me.log] = NoSession
        /\ \A n \in Names : n \notin {me.log, to} => logs'[n] = logs[n]
        /\ \A n \in Names : Owner(n)' = Owner(n)
    BY <1>1, <1>5, <2>1, <2>2, LogWent
  <2>5. Kept(me)' = Kept(me) /\ ~Kept(outer)'
    BY <1>1, <1>2, <2>1, <2>2 DEF Kept
  <2>6. RunsAre'
    BY <1>1, <1>2, <2>2, <2>3 DEF WholeInv, RunsAre
  <2>7. Home(me)' /\ Unfinished(me)' /\ (at' \notin Moving => Beside(me)')
    <3>1. Home(me)'
      BY <1>2, <2>2, <2>4, <2>5 DEF Home
    <3>2. Unfinished(me)'
      BY <1>1, <1>2, <2>2, <2>5 DEF Unfinished
    <3>3. at' \notin Moving => Beside(me)'
      BY <1>3, <2>2, <2>3, <2>4, <2>5 DEF Beside, Moving
    <3> QED
      BY <3>1, <3>2, <3>3
  <2>8. RunsKnow'
    BY <2>5, <2>7 DEF RunsKnow, Home, Unfinished, Beside
  <2>9. Kept(me) => data[me.session].refs \subseteq blobs[me.log]
    BY <1>1, <1>2, <1>3 DEF WholeInv, BlobsResolve, Kept
  <2>10. OnTheWay'
    <3>1. CASE at' = "moveblobs"
      BY <1>1, <1>3, <2>1, <2>2, <2>3, <2>4, <2>5, <2>9, <3>1 DEF OnTheWay
    <3>2. CASE at' = "movefile"
      BY <1>1, <1>3, <2>2, <2>3, <2>4, <2>5, <3>2 DEF OnTheWay, Taken
    <3>3. CASE at' = "idle"
      BY <3>3 DEF OnTheWay
    <3> QED
      BY <2>3, <3>1, <3>2, <3>3
  <2>11. FileBeside'
    <3> SUFFICES ASSUME NEW name \in Names, Renders(name)', logs'[name] \notin apart',
                        ~(at' \in Moving /\ logs'[name] = me'.session)
                 PROVE  Owner(name) = logs'[name]
      BY <2>4 DEF FileBeside
    <3>1. name # me.log /\ logs'[name] # NoSession
      BY <2>4 DEF Renders
    <3>2. CASE name = to
      BY <1>2, <1>3, <2>1, <2>2, <2>3, <2>4, <3>2 DEF Kept, Moving
    <3>3. CASE name # to
      <4>1. logs'[name] = logs[name] /\ Renders(name)
        BY <1>1, <2>4, <3>1, <3>3 DEF Renders
      <4>2. logs[name] # me.session
        BY <1>1, <1>2, <1>3, <2>1, <3>1, <4>1 DEF Kept, FilesInv, OneName
      <4> QED
        BY <2>1, <4>1, <4>2 DEF WholeInv, FileBeside
    <3> QED
      BY <3>2, <3>3
  <2>12. BlobsResolve'
    <3> SUFFICES ASSUME NEW name \in Names, logs'[name] \notin apart' \cup {NoSession},
                        ~(at' = "moveblobs" /\ name = to')
                 PROVE  data[logs'[name]].refs \subseteq blobs[name]
      BY <1>1 DEF BlobsResolve
    <3>1. name # me.log
      BY <2>4
    <3>2. CASE name = to
      BY <1>2, <1>3, <2>1, <2>3, <2>4, <2>9, <3>2 DEF Kept
    <3>3. CASE name # to
      BY <1>1, <2>1, <2>4, <3>1, <3>3 DEF WholeInv, BlobsResolve
    <3> QED
      BY <3>2, <3>3
  <2> QED
    BY <2>4, <2>6, <2>8, <2>10, <2>11, <2>12 DEF WholeInv
<1> QED
  BY <1>4, <1>5 DEF MoveLog

LEMMA MoveBlobsWhole ==
  ASSUME ConstantsOK, FilesInv, WholeInv, MoveBlobs
  PROVE  WholeInv'
<1>1. /\ me \in Run /\ me.log \in Names /\ me.log # NoName /\ me.log # to /\ to \in Names
      /\ logs[me.log] = NoSession /\ at = "moveblobs" /\ at \in Moving /\ at \notin Ending
      /\ UNCHANGED <<spmd, data, begun, outer, todo>>
  BY DEF MoveBlobs, FilesInv, FilesTypeOK, MoveInv, Moving, Ending, ConstantsOK
<1>2. /\ me.rec \in Names /\ me.payload = NoPayload /\ me.session # NoSession /\ me.kind = "repl"
      /\ me.session \in Sessions
      /\ outer = NoRun /\ outer.session = NoSession /\ outer.rec = NoName
      /\ Kept(me) => Owner(me.rec) = me.session
      /\ Unfinished(me)
  BY <1>1, WhereRenamed
<1>3. /\ Kept(me) => /\ logs[to] = me.session /\ me.rec = IF undo THEN to ELSE me.log
                     /\ data[me.session].refs \subseteq blobs[me.log]
      /\ logs[to] \in apart \cup {me.session}
  BY <1>1 DEF WholeInv, OnTheWay
<1>4. CASE blobs' = Moved(blobs, me.log, to, {}) /\ LogMoved /\ UNCHANGED <<logs, apart>>
  <2>1. /\ me'.session = me.session /\ me'.rec = me.rec /\ me'.kind = me.kind
        /\ me'.payload = NoPayload /\ me'.log = to /\ me'.log # NoName
    BY <1>1, <1>2, <1>4 DEF LogMoved, Run, ConstantsOK
  <2>2. \/ at' = "idle" /\ undo /\ ~undo'
        \/ at' = "movefile" /\ to' = to /\ ~undo /\ ~undo'
    BY <1>1, <1>4 DEF LogMoved, Idle
  <2>3. /\ blobs'[to] = blobs[me.log] /\ blobs'[me.log] = {}
        /\ \A n \in Names : n \notin {me.log, to} => blobs'[n] = blobs[n]
    BY <1>1, <1>4 DEF Moved, FilesInv, FilesTypeOK
  <2>4. Kept(me)' = Kept(me) /\ ~Kept(outer)' /\ Live' = Live
    BY <1>1, <1>2, <1>4, <2>1 DEF Kept, Live
  <2>5. \A n \in Names : /\ Owner(n)' = Owner(n) /\ Renders(n)' = Renders(n)
                         /\ Current(n)' = Current(n)
    BY <1>1, <1>4 DEF Owner, Renders, Current
  <2>6. RunsAre'
    BY <1>1, <1>2, <2>1, <2>2 DEF WholeInv, RunsAre
  <2>7. Home(me)' /\ Unfinished(me)' /\ (at' \notin Moving => Beside(me)')
    BY <1>1, <1>2, <1>3, <1>4, <2>1, <2>2, <2>4, <2>5 DEF Home, Unfinished, Beside, Moving
  <2>8. RunsKnow'
    BY <2>4, <2>7 DEF RunsKnow, Home, Unfinished, Beside
  <2>9. OnTheWay'
    BY <1>1, <1>3, <1>4, <2>1, <2>2, <2>3, <2>4 DEF OnTheWay, Taken
  <2>10. OneFile' /\ OwnerBegun' /\ Fresh' /\ RenderedWhenOver'
    BY <1>1, <1>4, <2>4, SameFiles
  <2>11. FileBeside'
    <3> SUFFICES ASSUME NEW name \in Names, Renders(name), logs[name] \notin apart,
                        ~(at' \in Moving /\ logs[name] = me.session)
                 PROVE  Owner(name) = logs[name]
      BY <1>4, <2>1, <2>5 DEF FileBeside
    <3>1. CASE logs[name] = me.session
      <4>1. Kept(me)
        BY <1>2, <3>1 DEF Kept
      <4>2. name = to
        BY <1>1, <1>2, <1>3, <3>1, <4>1 DEF FilesInv, OneName
      <4>3. me.rec = to
        BY <1>3, <2>2, <3>1, <4>1 DEF Moving
      <4> QED
        BY <1>2, <3>1, <4>1, <4>2, <4>3
    <3>2. CASE logs[name] # me.session
      BY <3>2 DEF WholeInv, FileBeside
    <3> QED
      BY <3>1, <3>2
  <2>12. BlobsResolve'
    <3> SUFFICES ASSUME NEW name \in Names, logs[name] \notin apart \cup {NoSession}
                 PROVE  data[logs[name]].refs \subseteq blobs'[name]
      BY <1>1, <1>4 DEF BlobsResolve
    <3>1. name # me.log
      BY <1>1
    <3>2. CASE name = to
      BY <1>2, <1>3, <2>3, <3>2 DEF Kept
    <3>3. CASE name # to
      BY <1>1, <2>3, <3>1, <3>3 DEF WholeInv, BlobsResolve
    <3> QED
      BY <3>2, <3>3
  <2>13. Spared(me)' /\ Spared(outer)'
    BY <1>1, <1>4, <2>1, <2>4, <2>5 DEF WholeInv, Spared
  <2> QED
    BY <2>6, <2>8, <2>9, <2>10, <2>11, <2>12, <2>13 DEF WholeInv
<1>5. CASE /\ Idle /\ UNCHANGED <<blobs, me>>
           /\ logs' = Moved(logs, to, me.log, NoSession)
           /\ IF undo THEN Parts({me.session}) ELSE UNCHANGED apart
  <2>1. /\ apart' = apart \/ apart' = apart \cup {me.session}
        /\ undo => me.session \in apart'
        /\ apart \subseteq apart'
    BY <1>2, <1>5 DEF Parts
  <2>2. Kept(me)' => Kept(me) /\ ~undo /\ me.rec = me.log /\ logs[to] = me.session
    BY <1>3, <1>5, <2>1 DEF Kept
  <2>3. /\ OneFile' /\ OwnerBegun' /\ Fresh' /\ RenderedWhenOver'
        /\ Spared(me)' /\ Spared(outer)'
        /\ logs'[me.log] = logs[to] /\ logs'[to] = NoSession
        /\ \A n \in Names : n \notin {to, me.log} => logs'[n] = logs[n]
        /\ \A n \in Names : Owner(n)' = Owner(n)
    BY <1>1, <1>3, <1>5, <2>1, LogWent
  <2>4. at' = "idle" /\ ~undo' /\ at' \notin Moving
    BY <1>5 DEF Idle, Moving
  <2>5. RunsAre' /\ OnTheWay'
    BY <1>1, <1>2, <1>5, <2>4 DEF WholeInv, RunsAre, OnTheWay
  <2>6. Home(me)' /\ Unfinished(me)' /\ Beside(me)'
    BY <1>1, <1>2, <1>5, <2>2, <2>3 DEF Home, Unfinished, Beside
  <2>7. RunsKnow'
    BY <1>1, <1>2, <2>6 DEF RunsKnow, Home, Unfinished, Beside, Kept
  <2>8. FileBeside'
    <3> SUFFICES ASSUME NEW name \in Names, Renders(name)', logs'[name] \notin apart'
                 PROVE  Owner(name) = logs'[name]
      BY <2>3 DEF FileBeside
    <3>1. name # to
      BY <2>3 DEF Renders
    <3>2. CASE name = me.log
      BY <1>2, <1>3, <1>5, <2>1, <2>2, <2>3, <3>2 DEF Kept
    <3>3. CASE name # me.log
      <4>1. logs'[name] = logs[name] /\ Renders(name)
        BY <1>1, <2>3, <3>1, <3>3 DEF Renders
      <4>2. logs[name] # me.session
        BY <1>1, <1>2, <1>3, <2>1, <3>1, <4>1 DEF Kept, FilesInv, OneName
      <4> QED
        BY <2>1, <4>1, <4>2 DEF WholeInv, FileBeside
    <3> QED
      BY <3>2, <3>3
  <2>9. BlobsResolve'
    <3> SUFFICES ASSUME NEW name \in Names, logs'[name] \notin apart' \cup {NoSession}
                 PROVE  data[logs'[name]].refs \subseteq blobs[name]
      BY <1>1, <1>5 DEF BlobsResolve
    <3>1. name # to
      BY <2>3
    <3>2. CASE name = me.log
      BY <1>2, <1>3, <2>1, <2>3, <3>2 DEF Kept
    <3>3. CASE name # me.log
      BY <1>1, <2>1, <2>3, <3>1, <3>3 DEF WholeInv, BlobsResolve
    <3> QED
      BY <3>2, <3>3
  <2> QED
    BY <2>3, <2>5, <2>7, <2>8, <2>9 DEF WholeInv
<1>6. CASE Idle /\ Parts({me.session}) /\ UNCHANGED <<logs, blobs, me>>
  <2>1. apart' = apart \cup {me.session} /\ ~Kept(me)'
    BY <1>2, <1>6 DEF Parts, Kept
  <2> QED
    BY <1>1, <1>6, <2>1, RenameFailed
<1> QED
  BY <1>4, <1>5, <1>6 DEF MoveBlobs

LEMMA MoveFileWhole ==
  ASSUME ConstantsOK, FilesInv, WholeInv, MoveFile
  PROVE  WholeInv'
<1>1. /\ me \in Run /\ me.log \in Names \cup {NoName} /\ to \in Names
      /\ at = "movefile" /\ at \in Moving /\ at \notin Ending /\ ~undo
      /\ UNCHANGED <<logs, blobs, data, begun, outer, todo>>
  BY DEF MoveFile, FilesInv, FilesTypeOK, MoveInv, Moving, Ending, WholeInv, RunsAre, Run
<1>2. /\ me.rec \in Names /\ me.payload = NoPayload /\ me.session # NoSession /\ me.kind = "repl"
      /\ me.session \in Sessions
      /\ outer = NoRun /\ outer.session = NoSession /\ outer.rec = NoName
      /\ Kept(me) => Owner(me.rec) = me.session
      /\ Unfinished(me)
  BY <1>1, WhereRenamed
<1>3. Kept(me) =>
        IF me.log = NoName THEN data[me.session].events = 0
        ELSE me.log = to /\ logs[to] = me.session /\ (me.log # me.rec => ~Taken(me.rec))
  BY <1>1 DEF WholeInv, OnTheWay, RunsKnow, Home
<1>4. \A n \in Names : Renders(n)' = Renders(n) /\ (Renders(n) => logs[n] # NoSession)
  BY <1>1 DEF Renders
\* A session whose log is rendered has its Fountain file beside it, or is the one
\* that is renamed, whose log is where the rename goes.
<1>5. \A n \in Names : Renders(n) /\ logs[n] \notin apart =>
        IF logs[n] = me.session THEN Kept(me) /\ me.log = to /\ n = to ELSE Owner(n) = logs[n]
  <2> SUFFICES ASSUME NEW n \in Names, Renders(n), logs[n] \notin apart
               PROVE  IF logs[n] = me.session THEN Kept(me) /\ me.log = to /\ n = to
                                              ELSE Owner(n) = logs[n]
    OBVIOUS
  <2>1. CASE logs[n] # me.session
    BY <2>1 DEF WholeInv, FileBeside
  <2>2. CASE logs[n] = me.session
    <3>1. Kept(me)
      BY <1>2, <2>2 DEF Kept
    <3>2. data[me.session].events > 0
      BY <2>2 DEF Renders
    <3>3. me.log = to /\ logs[to] = me.session
      BY <1>3, <3>1, <3>2
    <3> QED
      BY <1>1, <1>2, <2>2, <3>1, <3>3 DEF FilesInv, OneName
  <2> QED
    BY <2>1, <2>2
\* The Fountain file is moved: those it takes away are said to be left apart.
<1>6. ASSUME spmd' = Moved(spmd, me.rec, to, NoFile), apart \subseteq apart',
             {Owner(me.rec), Owner(to)} \subseteq apart' \cup {NoSession, me.session},
             me'.session = me.session, me'.rec \in {me.rec, to}
      PROVE  /\ spmd'[to] = spmd[me.rec]
             /\ \A n \in Names : n = to => Owner(n)' = Owner(me.rec)
             /\ OneFile' /\ OwnerBegun' /\ Fresh' /\ RenderedWhenOver'
             /\ Spared(me)' /\ Spared(outer)'
             /\ \A n \in Names : Renders(n) /\ logs[n] \notin apart' \cup {me.session} =>
                  Owner(n)' = logs[n]
  <2>1. /\ spmd'[to] = spmd[me.rec]
        /\ me.rec # to => spmd'[me.rec] = NoFile
        /\ \A n \in Names : n \notin {me.rec, to} => spmd'[n] = spmd[n]
    BY <1>1, <1>2, <1>6 DEF Moved, FilesInv, FilesTypeOK
  <2>2. /\ \A n \in Names : n = to => Owner(n)' = Owner(me.rec)
        /\ \A n \in Names : n = me.rec /\ n # to => Owner(n)' = NoSession
        /\ \A n \in Names : n \notin {me.rec, to} => Owner(n)' = Owner(n)
    BY <2>1 DEF Owner
  <2>3. OneFile'
    <3> SUFFICES ASSUME NEW m \in Names, NEW n \in Names, Owner(m)' = Owner(n)',
                        Owner(m)' \notin apart' \cup {NoSession}
                 PROVE  m = n
      BY DEF OneFile
    <3> QED
      BY <1>1, <1>2, <1>6, <2>2 DEF WholeInv, OneFile
  <2>4. OwnerBegun' /\ Fresh'
    <3>1. NoSession <= begun
      BY DEF FilesInv, FilesTypeOK, NoSession
    <3> QED
      BY <1>1, <1>2, <2>2, <3>1 DEF WholeInv, OwnerBegun, Fresh
  <2>5. Live' = Live /\ me.session \in Live
    BY <1>1, <1>6 DEF Live
  <2>6. \A n \in Names : Renders(n) /\ logs[n] \notin apart' \cup {me.session} =>
          Owner(n) = logs[n] /\ n \notin {me.rec, to}
    BY <1>4, <1>5, <1>6
  <2>7. \A n \in Names \ {me.rec, to} : Current(n)' = Current(n) /\ Takes(n)' = Takes(n)
    BY <1>1, <2>1 DEF Current, Takes, Renders
  <2>8. RenderedWhenOver'
    BY <1>1, <1>4, <1>6, <2>5, <2>6, <2>7 DEF WholeInv, RenderedWhenOver
  <2>9. Spared(me)' /\ Spared(outer)'
    BY <1>1, <1>2, <1>4, <1>6, <2>5, <2>6 DEF Spared, ConstantsOK
  <2> QED
    BY <2>1, <2>2, <2>3, <2>4, <2>6, <2>8, <2>9
<1>7. CASE /\ spmd' = Moved(spmd, me.rec, to, NoFile) /\ me' = [me EXCEPT !.rec = to] /\ Idle
           /\ Parts({Owner(me.rec), Owner(to)} \ {me.session})
  <2>1. /\ me'.session = me.session /\ me'.rec = to /\ me'.kind = me.kind
        /\ me'.payload = NoPayload /\ me'.log = me.log
    BY <1>1, <1>2, <1>7 DEF Run
  <2>2. /\ apart \subseteq apart' /\ (me.session \in apart' <=> me.session \in apart)
        /\ {Owner(me.rec), Owner(to)} \subseteq apart' \cup {NoSession, me.session}
    BY <1>7 DEF Parts
  <2>3. /\ spmd'[to] = spmd[me.rec]
        /\ \A n \in Names : n = to => Owner(n)' = Owner(me.rec)
        /\ OneFile' /\ OwnerBegun' /\ Fresh' /\ RenderedWhenOver'
        /\ Spared(me)' /\ Spared(outer)'
        /\ \A n \in Names : Renders(n) /\ logs[n] \notin apart' \cup {me.session} =>
             Owner(n)' = logs[n]
    BY <1>6, <1>7, <2>1, <2>2
  <2>4. at' = "idle" /\ ~undo' /\ at' \notin Moving
    BY <1>7 DEF Idle, Moving
  <2>5. RunsAre' /\ OnTheWay'
    BY <1>1, <1>2, <2>1, <2>4, NoRunIs DEF RunsAre, OnTheWay, ConstantsOK
  <2>6. Kept(me)' = Kept(me) /\ ~Kept(outer)'
    BY <1>1, <1>2, <2>1, <2>2 DEF Kept
  <2>7. Home(me)' /\ Unfinished(me)' /\ Beside(me)'
    <3>1. Home(me)'
      <4>1. Kept(me) /\ me.log = NoName => data[me.session].events = 0
        BY <1>3
      <4> QED
        BY <1>1, <1>2, <2>1, <2>3, <2>6, <4>1 DEF Home
    <3>2. Unfinished(me)' /\ Beside(me)'
      BY <1>1, <1>2, <1>3, <2>1, <2>3, <2>6 DEF Unfinished, Beside
    <3> QED
      BY <3>1, <3>2
  <2>8. RunsKnow'
    BY <2>6, <2>7 DEF RunsKnow, Home, Unfinished, Beside
  <2>9. FileBeside'
    <3> SUFFICES ASSUME NEW n \in Names, Renders(n), logs[n] \notin apart'
                 PROVE  Owner(n)' = logs[n]
      BY <1>1, <1>4 DEF FileBeside
    <3>1. CASE logs[n] = me.session
      BY <1>2, <1>5, <2>2, <2>3, <3>1
    <3>2. CASE logs[n] # me.session
      BY <2>3, <3>2
    <3> QED
      BY <3>1, <3>2
  <2>10. BlobsResolve'
    BY <1>1, <2>2 DEF WholeInv, BlobsResolve
  <2> QED
    BY <2>3, <2>5, <2>8, <2>9, <2>10 DEF WholeInv
<1>8. CASE /\ spmd' = Moved(spmd, me.rec, to, NoFile) /\ me' = [me EXCEPT !.fd = FALSE] /\ TakeBack
           /\ Parts({Owner(me.rec), Owner(to), me.session})
  <2>1. /\ me'.session = me.session /\ me'.rec = me.rec /\ me'.kind = me.kind
        /\ me'.payload = NoPayload /\ me'.log = me.log
    BY <1>1, <1>2, <1>8 DEF Run
  <2>2. /\ apart \subseteq apart' /\ me.session \in apart'
        /\ {Owner(me.rec), Owner(to)} \subseteq apart' \cup {NoSession, me.session}
    BY <1>2, <1>8 DEF Parts
  <2>3. /\ OneFile' /\ OwnerBegun' /\ Fresh' /\ RenderedWhenOver'
        /\ Spared(me)' /\ Spared(outer)'
        /\ \A n \in Names : Renders(n) /\ logs[n] \notin apart' \cup {me.session} =>
             Owner(n)' = logs[n]
    BY <1>6, <1>8, <2>1, <2>2
  <2>4. \/ at' = "idle" /\ ~undo' /\ at' \notin Moving
        \/ at' = "movelog"
    BY <1>8 DEF TakeBack, Idle, Moving
  <2>5. ~Kept(me)' /\ ~Kept(outer)'
    BY <1>1, <1>2, <2>1, <2>2 DEF Kept
  <2>6. RunsAre' /\ OnTheWay'
    BY <1>1, <1>2, <2>1, <2>4, <2>5, NoRunIs DEF RunsAre, OnTheWay, ConstantsOK
  <2>7. RunsKnow'
    BY <2>5 DEF RunsKnow, Home, Unfinished, Beside
  <2>8. FileBeside'
    BY <1>1, <1>4, <2>2, <2>3 DEF FileBeside
  <2>9. BlobsResolve'
    BY <1>1, <2>2, <2>4 DEF WholeInv, BlobsResolve
  <2> QED
    BY <2>3, <2>6, <2>7, <2>8, <2>9 DEF WholeInv
<1>9. CASE TakeBack /\ UNCHANGED <<spmd, apart>> /\ (me' = me \/ me' = [me EXCEPT !.fd = FALSE])
  <2>1. /\ me'.session = me.session /\ me'.rec = me.rec /\ me'.kind = me.kind
        /\ me'.payload = me.payload /\ me'.log = me.log
    BY <1>1, <1>9 DEF Run
  <2>2. CASE Idle
    <3>1. me.log \in {NoName, me.rec} \/ Taken(me.rec)
      BY <1>1, <1>9, <2>2 DEF TakeBack, Idle
    <3>2. Beside(me)
      BY <1>3, <3>1 DEF Beside
    <3> QED
      BY <1>1, <1>9, <2>1, <2>2, <3>2, RenameFailed
  <2>3. CASE at' = "movelog" /\ to' = me.rec /\ undo' = TRUE
    <3>1. me.log # NoName
      BY <1>9, <2>3 DEF TakeBack, Idle
    <3>2. Kept(me)' = Kept(me) /\ ~Kept(outer)' /\ Live' = Live
      BY <1>1, <1>2, <1>9, <2>1 DEF Kept, Live
    <3>3. \A n \in Names : /\ Owner(n)' = Owner(n) /\ Current(n)' = Current(n)
      BY <1>1, <1>9 DEF Owner, Current
    <3>4. RunsAre'
      BY <1>1, <1>2, <2>1, <2>3, NoRunIs DEF RunsAre, ConstantsOK
    <3>5. Home(me)' /\ Unfinished(me)'
      BY <1>1, <1>2, <1>9, <2>1, <3>1, <3>2, <3>3 DEF Home, Unfinished
    <3>6. RunsKnow'
      BY <2>3, <3>2, <3>5 DEF RunsKnow, Home, Unfinished, Beside, Moving
    <3>7. OnTheWay'
      BY <1>1, <1>3, <2>1, <2>3, <3>1, <3>2 DEF OnTheWay
    <3>8. OneFile' /\ OwnerBegun' /\ Fresh' /\ RenderedWhenOver'
      BY <1>1, <1>9, <3>2, SameFiles
    <3>9. FileBeside'
      BY <1>1, <1>4, <1>9, <2>1, <2>3, <3>3 DEF WholeInv, FileBeside, Moving
    <3>10. BlobsResolve'
      BY <1>1, <1>9, <2>3 DEF WholeInv, BlobsResolve
    <3>11. Spared(me)' /\ Spared(outer)'
      BY <1>1, <1>2, <1>4, <1>9, <2>1, <3>2, <3>3 DEF WholeInv, Spared, ConstantsOK
    <3> QED
      BY <3>4, <3>6, <3>7, <3>8, <3>9, <3>10, <3>11 DEF WholeInv
  <2> QED
    BY <1>9, <2>2, <2>3 DEF TakeBack
<1> QED
  BY <1>7, <1>8, <1>9 DEF MoveFile

-----------------------------------------------------------------------------
(* ... and ends, or is killed.                                             *)

\* What the next startup finds of a run that was killed: it takes its log.
LEMMA LeftIsTaken ==
  ASSUME ConstantsOK, FilesInv, NEW run \in Run, Home(run), Unfinished(run), Beside(run),
         Kept(run), NEW name \in Names, Renders(name), logs[name] = run.session
  PROVE  name = run.rec /\ Takes(name)
<1>1. run.session \in Sessions /\ run.session # NoSession
  BY RunFields DEF Kept
<1>2. data[run.session].events > 0 /\ data[run.session].events # 0
  BY <1>1 DEF Renders, FilesInv, FilesTypeOK, Log
<1>3. run.log # NoName /\ run.rec \in Names
  BY <1>2 DEF Home
<1>4. run.rec = run.log /\ logs[run.log] = run.session
  BY <1>3 DEF Beside
<1>5. name = run.rec
  BY <1>1, <1>3, <1>4 DEF FilesInv, OneName
<1>6. ~data[run.session].ended /\ run.session \in spmd[run.rec].behind
  BY <1>2 DEF Unfinished
<1> QED
  BY <1>5, <1>6 DEF Takes

\* Nothing is left of the run but the one that was put aside.
LEMMA OverIs ==
  ASSUME WholeInv, Over
  PROVE  /\ me' = outer /\ outer' = NoRun
         /\ at' = "idle" \/ (at' \in {"down", "ready"} /\ me' = NoRun)
BY DEF Over

\* The records of the session put aside are as they were, if its Fountain file is.
LEMMA OverWhole ==
  ASSUME ConstantsOK, FilesInv, WholeInv, Over, at \in Ending,
         UNCHANGED <<logs, blobs, data, begun, to, undo>>, apart \subseteq apart',
         \A n \in Names : n # me.rec => spmd'[n] = spmd[n],
         Owner(me.rec) \notin apart' \cup {NoSession, me.session} =>
           spmd'[me.rec] # NoFile /\ spmd'[me.rec].of = Owner(me.rec)
  PROVE  /\ RunsAre' /\ RunsKnow' /\ OnTheWay' /\ Fresh' /\ BlobsResolve'
         /\ at' \notin Moving /\ Live' = {outer.session, NoSession}
         /\ Spared(outer)' /\ me'.rec = outer.rec
<1>1. /\ me' = outer /\ outer' = NoRun /\ outer'.session = NoSession /\ outer'.rec = NoName
      /\ at' = "idle" \/ (at' \in {"down", "ready"} /\ me' = NoRun)
  BY OverIs, NoRunIs
<1>2. at' \notin Moving /\ at' \notin {"movelog", "moveblobs", "movefile"} /\ ~undo'
      /\ at # "moveblobs"
  BY <1>1 DEF WholeInv, RunsAre, Ending, Moving
<1>3. RunsAre' /\ OnTheWay'
  BY <1>1, <1>2 DEF WholeInv, RunsAre, OnTheWay
<1>4. Fresh' /\ BlobsResolve'
  BY <1>2 DEF WholeInv, Fresh, BlobsResolve
<1>5. Kept(outer) => /\ outer.rec # me.rec /\ outer.rec \in Names
                     /\ Home(outer) /\ Unfinished(outer) /\ Beside(outer)
  BY DEF WholeInv, RunsKnow, Home
<1>6. Kept(me)' => Kept(outer)
  BY <1>1 DEF Kept
<1>7. \A n \in Names : n # me.rec => Owner(n)' = Owner(n)
  BY DEF Owner
<1>8. Home(me)' /\ Unfinished(me)' /\ Beside(me)'
  BY <1>1, <1>5, <1>6, <1>7 DEF Home, Unfinished, Beside
<1>9. RunsKnow'
  BY <1>1, <1>8 DEF RunsKnow, Home, Unfinished, Beside, Kept
<1>10. Live' = {outer.session, NoSession}
  BY <1>1 DEF Live
<1>11. Spared(outer)'
  BY <1>1 DEF Spared, ConstantsOK
<1> QED
  BY <1>1, <1>2, <1>3, <1>4, <1>9, <1>10, <1>11

LEMMA CloseRecorderWhole ==
  ASSUME ConstantsOK, FilesInv, WholeInv, CloseRecorder
  PROVE  WholeInv'
<1>1. /\ me \in Run /\ me.rec \in Names /\ me.log \in Names \cup {NoName}
      /\ at = "close" /\ at \in Ending /\ at \notin Moving /\ ~undo
      /\ UNCHANGED <<logs, blobs, data, begun, to, undo, todo, apart>>
  BY DEF CloseRecorder, FilesInv, FilesTypeOK, StartInv, Ending, Moving, Run, WholeInv, RunsAre
<1>2. /\ \A n \in Names : n # me.rec => spmd'[n] = spmd[n]
      /\ spmd[me.rec] = NoFile => spmd'[me.rec] = NoFile
      /\ spmd[me.rec] # NoFile =>
           /\ spmd'[me.rec] # NoFile /\ spmd'[me.rec].of = spmd[me.rec].of
           /\ spmd'[me.rec].events = spmd[me.rec].events
           /\ spmd'[me.rec].refs = spmd[me.rec].refs
  <2> DEFINE file == [spmd[me.rec] EXCEPT !.behind = {}]
  <2>1. CASE spmd' = spmd
    BY <2>1
  <2>2. CASE spmd[me.rec] # NoFile /\ spmd' = [spmd EXCEPT ![me.rec].behind = {}]
    <3>1. spmd[me.rec] \in Fountain
      BY <1>1, <2>2 DEF FilesInv, FilesTypeOK
    <3>2. spmd'[me.rec] = file /\ \A n \in Names : n # me.rec => spmd'[n] = spmd[n]
      BY <1>1, <2>2 DEF FilesInv, FilesTypeOK
    <3>3. file \in Fountain /\ file.of = spmd[me.rec].of /\ file.events = spmd[me.rec].events
          /\ file.refs = spmd[me.rec].refs
      BY <3>1 DEF Fountain
    <3> HIDE DEF file
    <3>4. file # NoFile
      BY <3>3, NoFileIs
    <3> QED
      BY <2>2, <3>2, <3>3, <3>4
  <2> QED
    BY <2>1, <2>2 DEF CloseRecorder
<1>3. \A n \in Names : /\ Owner(n)' = Owner(n) /\ Renders(n)' = Renders(n)
                       /\ Current(n)' = Current(n)
                       /\ n # me.rec => Takes(n)' = Takes(n)
  BY <1>1, <1>2 DEF Owner, Renders, Current, Takes
<1>4. OneFile' /\ OwnerBegun' /\ FileBeside'
  BY <1>1, <1>3 DEF WholeInv, OneFile, OwnerBegun, FileBeside
<1>5. \A n \in Names : Renders(n) /\ logs[n] \notin Live \cup apart => Current(n)' \/ Takes(n)'
  BY <1>1, <1>3 DEF WholeInv, RenderedWhenOver, Spared
<1>6. CASE me.log # NoName /\ at' = "render" /\ UNCHANGED <<me, outer>>
  <2>1. Kept(me)' = Kept(me) /\ Kept(outer)' = Kept(outer) /\ Live' = Live
    BY <1>1, <1>6 DEF Kept, Live
  <2>2. RunsAre' /\ OnTheWay' /\ Fresh' /\ BlobsResolve'
    BY <1>1, <1>6 DEF WholeInv, RunsAre, OnTheWay, Fresh, BlobsResolve, Moving
  <2>3. RunsKnow'
    <3>1. Unfinished(outer)'
      BY <1>1, <1>2, <1>6, <2>1 DEF WholeInv, RunsKnow, Home, Unfinished
    <3> QED
      BY <1>1, <1>3, <1>6, <2>1, <3>1 DEF WholeInv, RunsKnow, Home, Beside, Ending
  <2>4. RenderedWhenOver' /\ Spared(me)' /\ Spared(outer)'
    BY <1>1, <1>3, <1>5, <1>6, <2>1 DEF WholeInv, RenderedWhenOver, Spared
  <2> QED
    BY <1>4, <2>2, <2>3, <2>4 DEF WholeInv
<1>7. CASE me.log = NoName /\ Over
  <2>1. /\ RunsAre' /\ RunsKnow' /\ OnTheWay' /\ Fresh' /\ BlobsResolve'
        /\ at' \notin Moving /\ Live' = {outer.session, NoSession}
        /\ Spared(outer)' /\ me'.rec = outer.rec
    <3>1. Owner(me.rec) # NoSession => spmd'[me.rec] # NoFile /\ spmd'[me.rec].of = Owner(me.rec)
      BY <1>2 DEF Owner
    <3> QED
      BY <1>1, <1>2, <1>7, <3>1, OverWhole
  <2>2. \A n \in Names : Renders(n) /\ logs[n] \notin Live' \cup apart => logs[n] \notin Live \cup apart
    <3> SUFFICES ASSUME NEW n \in Names, Renders(n), logs[n] = me.session, me.session \notin apart
                 PROVE  FALSE
      BY <2>1 DEF Live
    <3>1. Kept(me)
      BY DEF Kept, Renders
    <3>2. data[me.session].events = 0
      BY <1>7, <3>1 DEF WholeInv, RunsKnow, Home
    <3> QED
      BY <3>2 DEF Renders
  <2>3. RenderedWhenOver'
    BY <1>1, <1>3, <1>5, <2>2 DEF RenderedWhenOver
  <2>4. Spared(me)'
    BY <1>1, <1>3, <2>1, <2>2 DEF WholeInv, Spared
  <2> QED
    BY <1>4, <2>1, <2>3, <2>4 DEF WholeInv
<1> QED
  BY <1>6, <1>7 DEF CloseRecorder

LEMMA RenderFileWhole ==
  ASSUME ConstantsOK, FilesInv, WholeInv, RenderFile
  PROVE  WholeInv'
<1>1. /\ me \in Run /\ me.rec \in Names /\ me.log \in Names /\ me.log # NoName
      /\ at = "render" /\ at \in Ending /\ at \notin Moving /\ ~undo /\ Over
      /\ UNCHANGED <<logs, blobs, data, begun, to, undo, todo>>
  BY DEF RenderFile, FilesInv, FilesTypeOK, StartInv, Ending, Moving, WholeInv, RunsAre, ConstantsOK
<1>2. \A n \in Names : Renders(n)' = Renders(n) /\ (Renders(n) => logs[n] # NoSession)
  BY <1>1 DEF Renders
<1>3. CASE Parts({me.session}) /\ UNCHANGED spmd
  <2>1. apart \subseteq apart' /\ me.session \in apart' \cup {NoSession}
    BY <1>3 DEF Parts
  <2>2. /\ RunsAre' /\ RunsKnow' /\ OnTheWay' /\ Fresh' /\ BlobsResolve'
        /\ at' \notin Moving /\ Live' = {outer.session, NoSession}
        /\ Spared(outer)' /\ me'.rec = outer.rec
    <3>1. Owner(me.rec) # NoSession => spmd'[me.rec] # NoFile /\ spmd'[me.rec].of = Owner(me.rec)
      BY <1>3 DEF Owner
    <3>2. \A n \in Names : n # me.rec => spmd'[n] = spmd[n]
      BY <1>3
    <3> QED
      BY <1>1, <2>1, <3>1, <3>2, OverWhole
  <2>3. \A n \in Names : Owner(n)' = Owner(n) /\ Current(n)' = Current(n)
    BY <1>1, <1>3 DEF Owner, Current
  <2>4. OneFile' /\ OwnerBegun' /\ RenderedWhenOver'
    <3>1. \A s \in Live \ {NoSession} : s \in Live' \cup apart'
      BY <2>1, <2>2 DEF Live
    <3> QED
      BY <1>1, <1>3, <2>1, <3>1, SameFiles
  <2>5. FileBeside'
    BY <1>1, <1>2, <2>1, <2>3 DEF WholeInv, FileBeside
  <2>6. Spared(me)'
    BY <1>1, <1>2, <2>1, <2>2, <2>3 DEF WholeInv, Spared, Live
  <2> QED
    BY <2>2, <2>4, <2>5, <2>6 DEF WholeInv
<1>4. CASE /\ Renders(me.log) /\ spmd' = [spmd EXCEPT ![me.rec] = Rendering(me.log)]
           /\ Parts({Owner(me.rec), logs[me.log]} \ {me.session})
  <2> DEFINE file == Rendering(me.log)
  <2>1. file \in Fountain /\ file # NoFile /\ file.of = logs[me.log]
        /\ file.events = data[logs[me.log]].events
        /\ file.refs = data[logs[me.log]].refs \cap blobs[me.log]
    BY <1>1, <1>4, RenderingType, NoFileIs DEF FilesInv, Rendering
  <2>2. spmd'[me.rec] = file /\ \A n \in Names : n # me.rec => spmd'[n] = spmd[n]
    BY <1>1, <1>4 DEF FilesInv, FilesTypeOK
  <2> HIDE DEF file
  <2>3. /\ apart \subseteq apart' /\ (me.session \in apart' <=> me.session \in apart)
        /\ {Owner(me.rec), logs[me.log]} \subseteq apart' \cup {NoSession, me.session}
    BY <1>4 DEF Parts
  <2>4. /\ RunsAre' /\ RunsKnow' /\ OnTheWay' /\ Fresh' /\ BlobsResolve'
        /\ at' \notin Moving /\ Live' = {outer.session, NoSession}
        /\ Spared(outer)' /\ me'.rec = outer.rec
    BY <1>1, <2>2, <2>3, OverWhole
  <2>5. /\ \A n \in Names : n # me.rec => Owner(n)' = Owner(n) /\ Current(n)' = Current(n)
                                          /\ Takes(n)' = Takes(n)
        /\ \A n \in Names : n = me.rec => Owner(n)' = logs[me.log]
    BY <1>1, <2>1, <2>2 DEF Owner, Current, Takes, Renders
  <2>6. Kept(me) => /\ me.rec = me.log /\ logs[me.log] = me.session
                    /\ Owner(me.rec) = me.session /\ me.session # NoSession
                    /\ \A n \in Names : logs[n] = me.session => n = me.log
    BY <1>1 DEF WholeInv, RunsKnow, Home, Beside, Kept, FilesInv, OneName
  <2>7. Kept(me) => \A n \in Names : n = me.rec => Current(n)'
    <3>1. Kept(me) => data[me.session].refs \subseteq blobs[me.log]
      BY <1>1, <2>6 DEF WholeInv, BlobsResolve, Kept
    <3> SUFFICES ASSUME Kept(me), NEW n \in Names, n = me.rec
                 PROVE  /\ spmd'[n] # NoFile /\ spmd'[n].of = logs'[n]
                        /\ spmd'[n].events = data'[logs'[n]].events
                        /\ spmd'[n].refs = data'[logs'[n]].refs
      BY DEF Current
    <3>2. spmd'[n] = file /\ logs'[n] = logs[me.log] /\ data'[logs'[n]] = data[logs[me.log]]
      BY <1>1, <2>2, <2>6
    <3>3. file.refs = data[logs[me.log]].refs
      BY <2>1, <2>6, <3>1
    <3> QED
      BY <2>1, <3>2, <3>3
\* A log that is rendered where the file was written is the session's own.
  <2>8. \A n \in Names : Renders(n) /\ logs[n] \notin apart' /\ (n = me.rec \/ logs[n] = me.session) =>
          Kept(me) /\ n = me.rec /\ logs[n] = me.session
    <3> SUFFICES ASSUME NEW n \in Names, Renders(n), logs[n] \notin apart',
                        n = me.rec \/ logs[n] = me.session
                 PROVE  Kept(me) /\ n = me.rec /\ logs[n] = me.session
      OBVIOUS
    <3>1. Owner(n) = logs[n] /\ logs[n] # NoSession
      BY <1>1, <1>2, <2>3 DEF WholeInv, FileBeside
    <3>2. logs[n] = me.session
      BY <2>3, <3>1
    <3>3. Kept(me)
      BY <2>3, <3>1, <3>2 DEF Kept
    <3> QED
      BY <2>6, <3>2, <3>3
  <2>9. OneFile'
    <3> SUFFICES ASSUME NEW m \in Names, NEW n \in Names, Owner(m)' = Owner(n)',
                        Owner(m)' \notin apart' \cup {NoSession}
                 PROVE  m = n
      BY DEF OneFile
    <3>1. logs[me.log] \notin apart' \cup {NoSession} => Owner(me.rec) = logs[me.log]
      BY <2>3, <2>6 DEF Kept
    <3> QED
      BY <1>1, <2>3, <2>5, <3>1 DEF WholeInv, OneFile
  <2>10. OwnerBegun'
    BY <1>1, <2>5 DEF WholeInv, OwnerBegun, FilesInv, BegunOnly
  <2>11. FileBeside'
    BY <1>1, <1>2, <2>3, <2>5, <2>6, <2>8 DEF WholeInv, FileBeside
  <2>12. \A n \in Names : Renders(n) /\ logs[n] \notin Live' \cup apart' =>
           n = me.rec \/ logs[n] \notin Live \cup apart
    BY <1>2, <2>3, <2>4, <2>8 DEF Live
  <2>13. RenderedWhenOver'
    BY <1>1, <1>2, <2>5, <2>7, <2>8, <2>12 DEF WholeInv, RenderedWhenOver
  <2>14. Spared(me)'
    BY <1>1, <1>2, <2>4, <2>5, <2>7, <2>8, <2>12 DEF WholeInv, Spared
  <2> QED
    BY <2>4, <2>9, <2>10, <2>11, <2>13, <2>14 DEF WholeInv
<1> QED
  BY <1>3, <1>4 DEF RenderFile

LEMMA EndLogWhole ==
  ASSUME ConstantsOK, FilesInv, WholeInv, EndLog
  PROVE  WholeInv'
<1>1. /\ me \in Run /\ at = "idle" /\ at \notin Moving /\ at \notin Ending /\ ~undo /\ HasRoom(me)
      /\ UNCHANGED <<logs, blobs, begun, outer, to, undo, todo, apart>>
  BY DEF EndLog, FilesInv, FilesTypeOK, RunsInv, Ending, Moving, WholeInv, RunsAre
<1>2. CASE me.rec = NoName
  <2>1. me.session = NoSession /\ me.log = NoName /\ outer = NoRun
    BY <1>1, <1>2 DEF WholeInv, RunsAre, FilesInv, RunsInv, HasLog, Sessions, NoSession
  <2>2. at' = "down" /\ me' = NoRun /\ UNCHANGED <<data, spmd>>
    BY <1>2, <2>1 DEF EndLog
  <2>3. RunsAre' /\ RunsKnow' /\ OnTheWay'
    BY <1>1, <2>1, <2>2, NoRunIs
    DEF RunsAre, RunsKnow, OnTheWay, Home, Unfinished, Beside, Kept, Moving
  <2>4. OneFile' /\ OwnerBegun' /\ Fresh' /\ RenderedWhenOver'
    BY <1>1, <2>1, <2>2, NoRunIs, SameFiles DEF Live
  <2>5. FileBeside' /\ BlobsResolve'
    BY <1>1, <2>2 DEF WholeInv, FileBeside, BlobsResolve, Renders, Owner, Moving
  <2>6. Spared(me)' /\ Spared(outer)'
    BY <1>1, <2>1, <2>2, NoRunIs DEF Spared, ConstantsOK
  <2> QED
    BY <2>3, <2>4, <2>5, <2>6 DEF WholeInv
<1>3. CASE me.rec # NoName
  <2>1. at' = "close" /\ me' = me /\ at' \in Ending /\ at' \notin Moving
    BY <1>3 DEF EndLog, Ending, Moving
  <2>2. Kept(me)' = Kept(me) /\ Kept(outer)' = Kept(outer) /\ Live' = Live
    BY <1>1, <2>1 DEF Kept, Live
  <2>3. RunsAre' /\ OnTheWay'
    BY <1>1, <2>1 DEF WholeInv, RunsAre, OnTheWay
  <2>4. CASE UNCHANGED <<data, spmd>>
    <3>1. \A n \in Names : Owner(n)' = Owner(n) /\ Renders(n)' = Renders(n) /\ Current(n)' = Current(n)
      BY <1>1, <2>4 DEF Owner, Renders, Current
    <3>2. RunsKnow'
      BY <1>1, <2>1, <2>2, <2>4, <3>1 DEF WholeInv, RunsKnow, Home, Unfinished, Beside
    <3>3. OneFile' /\ OwnerBegun' /\ Fresh' /\ RenderedWhenOver'
      BY <1>1, <2>2, <2>4, SameFiles
    <3>4. FileBeside' /\ BlobsResolve'
      BY <1>1, <2>1, <2>4, <3>1 DEF WholeInv, FileBeside, BlobsResolve
    <3>5. Spared(me)' /\ Spared(outer)'
      BY <1>1, <2>1, <2>2, <3>1 DEF WholeInv, Spared
    <3> QED
      BY <2>3, <3>2, <3>3, <3>4, <3>5 DEF WholeInv
  <2>5. CASE me.log # NoName /\ Append(TRUE)
    <3>1. /\ OneFile' /\ OwnerBegun' /\ Fresh' /\ BlobsResolve' /\ FileBeside'
          /\ \A name \in Names : logs[name] # me.session =>
               /\ Renders(name)' = Renders(name) /\ Current(name)' = Current(name)
               /\ Takes(name) => Takes(name)'
          /\ \A name \in Names : name = me.rec /\ Kept(me) =>
               /\ Owner(name)' = me.session
               /\ me.session \in spmd'[name].behind
               /\ ~TRUE => Takes(name)'
          /\ Home(outer)' /\ Unfinished(outer)' /\ Beside(outer)'
      BY <1>1, <2>5, AppendedWhole
    <3>2. RunsKnow'
      BY <1>1, <2>1, <2>2, <2>5, <3>1 DEF WholeInv, RunsKnow, Home, Beside
    <3>3. RenderedWhenOver' /\ Spared(me)' /\ Spared(outer)'
      <4>1. \A name \in Names : logs'[name] \notin Live' \cup apart' =>
              logs[name] # me.session /\ logs[name] \notin Live \cup apart
        BY <1>1, <2>2 DEF Live
      <4> QED
        BY <1>1, <2>1, <3>1, <4>1 DEF WholeInv, RenderedWhenOver, Spared
    <3> QED
      BY <2>3, <3>1, <3>2, <3>3 DEF WholeInv
  <2> QED
    BY <2>4, <2>5 DEF EndLog
<1> QED
  BY <1>2, <1>3

LEMMA CrashWhole ==
  ASSUME ConstantsOK, FilesInv, WholeInv, Crash
  PROVE  WholeInv'
<1>1. /\ at' = "down" /\ me' = NoRun /\ outer' = NoRun /\ ~undo' /\ at' \notin Moving
      /\ UNCHANGED <<logs, blobs, begun>>
      /\ apart' = apart \/ (at \in Moving \cup Ending /\ apart' = apart \cup ({me.session} \ {NoSession}))
      /\ at \in Moving \cup Ending => apart' = apart \cup ({me.session} \ {NoSession})
  BY DEF Crash, Parts, Moving
<1>2. /\ me \in Run /\ outer \in Run /\ apart \subseteq apart'
      /\ Live' = {NoSession}
      /\ \A n \in Names : Renders(n) => logs[n] # NoSession
  BY <1>1, NoRunIs DEF FilesInv, FilesTypeOK, Live, Renders
<1>3. RunsAre' /\ RunsKnow' /\ OnTheWay'
  BY <1>1, NoRunIs DEF RunsAre, RunsKnow, OnTheWay, Home, Unfinished, Beside, Kept, Moving
<1>4. Spared(me)' /\ Spared(outer)'
  BY <1>1, NoRunIs DEF Spared, ConstantsOK
<1>5. CASE UNCHANGED <<data, spmd>>
  <2>1. \A n \in Names : /\ Owner(n)' = Owner(n) /\ Renders(n)' = Renders(n)
                         /\ Current(n)' = Current(n) /\ Takes(n)' = Takes(n)
    BY <1>1, <1>5 DEF Owner, Renders, Current, Takes
  <2>2. OneFile' /\ OwnerBegun' /\ Fresh'
    BY <1>1, <1>2, <1>5, <2>1 DEF WholeInv, OneFile, OwnerBegun, Fresh
  <2>3. FileBeside'
    BY <1>1, <1>2, <2>1 DEF WholeInv, FileBeside
  <2>4. BlobsResolve'
    <3>1. at = "moveblobs" => logs[to] \in apart' \cup {NoSession}
      BY <1>1 DEF WholeInv, OnTheWay, Moving
    <3> QED
      BY <1>1, <1>2, <1>5, <3>1 DEF WholeInv, BlobsResolve
  <2>5. RenderedWhenOver'
    <3> SUFFICES ASSUME NEW n \in Names, Renders(n), logs[n] \notin apart'
                 PROVE  Current(n) \/ Takes(n)
      BY <1>1, <2>1 DEF RenderedWhenOver
    <3>1. CASE logs[n] = me.session
      <4>1. Kept(me) /\ at \notin Moving /\ at \notin Ending
        BY <1>1, <1>2, <3>1 DEF Kept
      <4> QED
        BY <1>2, <3>1, <4>1, LeftIsTaken DEF WholeInv, RunsKnow
    <3>2. CASE logs[n] = outer.session
      <4>1. Kept(outer)
        BY <1>2, <3>2 DEF Kept
      <4> QED
        BY <1>2, <3>2, <4>1, LeftIsTaken DEF WholeInv, RunsKnow
    <3>3. CASE logs[n] \notin Live
      BY <1>2, <3>3 DEF WholeInv, RenderedWhenOver
    <3> QED
      BY <3>1, <3>2, <3>3 DEF Live
  <2> QED
    BY <1>3, <1>4, <2>2, <2>3, <2>4, <2>5 DEF WholeInv
<1>6. CASE /\ at \in {"first", "idle"} /\ me.log # NoName
           /\ data[me.session].events < MaxEvents /\ Append(FALSE)
  <2>1. at \notin Moving /\ at \notin Ending /\ apart' = apart /\ HasRoom(me)
    BY <1>1, <1>6 DEF Moving, Ending, HasRoom
  <2>2. /\ OneFile' /\ OwnerBegun' /\ Fresh' /\ BlobsResolve' /\ FileBeside'
        /\ \A name \in Names : logs[name] # me.session =>
             /\ Renders(name)' = Renders(name) /\ Current(name)' = Current(name)
             /\ Takes(name) => Takes(name)'
        /\ \A name \in Names : name = me.rec /\ Kept(me) =>
             /\ Owner(name)' = me.session
             /\ me.session \in spmd'[name].behind
             /\ ~FALSE => Takes(name)'
    BY <1>1, <1>6, <2>1, AppendedWhole
  <2>3. RenderedWhenOver'
    <3> SUFFICES ASSUME NEW n \in Names, Renders(n)', logs[n] \notin apart
                 PROVE  Current(n)' \/ Takes(n)'
      BY <1>1, <2>1 DEF RenderedWhenOver
    <3>1. CASE logs[n] = me.session
      <4>1. Kept(me)
        BY <1>1, <3>1 DEF Kept, Renders
      <4>2. me.rec = me.log /\ logs[me.log] = me.session /\ me.rec \in Names
        BY <1>6, <2>1, <4>1 DEF WholeInv, RunsKnow, Beside, Home
      <4>3. n = me.rec
        BY <3>1, <4>1, <4>2 DEF FilesInv, OneName, Kept
      <4> QED
        BY <2>2, <4>1, <4>3
    <3>2. CASE logs[n] # me.session /\ logs[n] = outer.session
      <4>1. Renders(n) /\ Kept(outer)
        BY <1>2, <2>2, <3>2 DEF Kept
      <4>2. Takes(n)
        BY <1>2, <3>2, <4>1, LeftIsTaken DEF WholeInv, RunsKnow
      <4> QED
        BY <2>2, <3>2, <4>2
    <3>3. CASE logs[n] \notin Live
      BY <2>2, <3>3 DEF WholeInv, RenderedWhenOver, Live
    <3> QED
      BY <3>1, <3>2, <3>3 DEF Live
  <2> QED
    BY <1>3, <1>4, <2>2, <2>3 DEF WholeInv
<1> QED
  BY <1>5, <1>6 DEF Crash

LEMMA WholeNext ==
  ASSUME ConstantsOK, FilesInv, WholeInv, [Next]_vars
  PROVE  WholeInv'
<1>1. CASE Start \/ Recovered
  BY <1>1, StartWhole
<1>2. CASE \E name \in todo : Recover(name)
  BY <1>2, RecoverWhole
<1>3. CASE \E kind \in {"repl", "replay"} : NoRecorder(kind)
  BY <1>3, NoRecorderWhole
<1>4. CASE \E name \in Names, kind \in {"repl", "replay"} : NewRecorder(name, kind)
  BY <1>4, NewRecorderWhole
<1>5. CASE \E payload \in Payloads : WriteBlob(payload)
  BY <1>5, WriteBlobWhole
<1>6. CASE \E name \in Names : Rename(name)
  BY <1>6, RenameWhole
<1>7. CASE OpenSessionLog \/ FirstEvent \/ LogEvent
  BY <1>7, OpenSessionLogWhole, FirstEventWhole, LogEventWhole
<1>8. CASE MoveLog \/ MoveBlobs \/ MoveFile
  BY <1>8, MoveLogWhole, MoveBlobsWhole, MoveFileWhole
<1>9. CASE EndLog \/ CloseRecorder \/ RenderFile \/ Crash
  BY <1>9, EndLogWhole, CloseRecorderWhole, RenderFileWhole, CrashWhole
<1>10. CASE UNCHANGED vars
  <2>1. UNCHANGED <<begun, at, me, outer, to, undo, apart>>
    BY <1>10 DEF vars
  <2>2. UNCHANGED <<logs, blobs, spmd, data>>
    BY <1>10 DEF vars
  <2>3. RunsAre' /\ RunsKnow' /\ OnTheWay'
    BY <2>1, <2>2 DEF WholeInv, RunsAre, RunsKnow, OnTheWay, Home, Unfinished, Beside, Kept,
       Owner, Taken
  <2>4. OneFile' /\ OwnerBegun' /\ Fresh' /\ RenderedWhenOver'
    BY <2>1, <2>2, SameFiles DEF Live
  <2>5. FileBeside' /\ BlobsResolve'
    BY <2>1, <2>2 DEF WholeInv, FileBeside, BlobsResolve, Renders, Owner
  <2>6. Spared(me)' /\ Spared(outer)'
    BY <2>1, <2>2 DEF WholeInv, Spared, Renders, Current, Live
  <2> QED
    BY <2>3, <2>4, <2>5, <2>6 DEF WholeInv
<1> QED
  BY <1>1, <1>2, <1>3, <1>4, <1>5, <1>6, <1>7, <1>8, <1>9, <1>10 DEF Next

\* Every session nothing has left apart is whole, in every state of every behaviour.
THEOREM WholeInvariant == Spec => []WholeInv
<1>1. Init => WholeInv
  BY ConstantsOK, InitWhole
<1>2. FilesInv /\ WholeInv /\ [Next]_vars => WholeInv'
  BY ConstantsOK, WholeNext
<1> QED
  BY <1>1, <1>2, FilesInvariant, PTL DEF Spec

\* A session is listed under the name of its log, or of its Fountain file.
LEMMA ListedOf ==
  ASSUME NEW name \in Names, Listed(name) # NoSession
  PROVE  \/ Renders(name) /\ logs[name] = Listed(name)
         \/ ~Renders(name) /\ logs[name] = NoSession /\ Owner(name) = Listed(name)
BY DEF Listed, Owner, Renders

LEMMA WholeIsListedOnce ==
  ASSUME FilesInv, WholeInv
  PROVE  ListedOnce
<1> SUFFICES ASSUME at \in {"down", "recover", "ready", "idle"}, NEW m \in Names, NEW n \in Names,
                    m # n, Listed(m) = Listed(n), Listed(m) \notin apart \cup {NoSession}
             PROVE  FALSE
  BY DEF ListedOnce
<1> DEFINE s == Listed(m)
<1>1. \A k \in {m, n} : \/ Renders(k) /\ logs[k] = s
                        \/ ~Renders(k) /\ Owner(k) = s
  BY ListedOf
<1>2. \A k \in Names : Renders(k) /\ logs[k] = s => Owner(k) = s
  BY DEF WholeInv, FileBeside, Moving
<1>3. Owner(m) = s /\ Owner(n) = s
  BY <1>1, <1>2
<1> QED
  BY <1>3 DEF WholeInv, OneFile

\* The log, the blobs and the Fountain file of a session stay together, and are
\* listed as one session: whatever rename failed and was taken back, whatever replay
\* ran in between, wherever the process was killed, of every session of which the
\* code does not itself leave them apart.
THEOREM SessionsAreWhole == Spec => []SessionsStayWhole
<1>1. FilesInv /\ WholeInv => SessionsStayWhole
  <2> SUFFICES ASSUME FilesInv, WholeInv
               PROVE  FilesTogether /\ BlobsResolve /\ ListedOnce
    BY DEF SessionsStayWhole
  <2>1. \A run \in {me, outer} :
          Home(run) /\ Beside(run) /\ (run.log # NoName => run.session \in Sessions) => Whole(run)
    BY DEF Home, Beside, Whole, Kept, Owner, Sessions, NoSession
  <2>2. FilesTogether
    BY <2>1 DEF FilesTogether, WholeInv, RunsKnow, Moving, FilesInv, RunsInv, HasLog
  <2> QED
    BY <2>2, WholeIsListedOnce DEF WholeInv
<1> QED
  BY <1>1, FilesInvariant, WholeInvariant, PTL

\* No rendering is out of date for good: of every session that is over, the Fountain
\* file shows all of its log, or the next startup will see that it does not.
THEOREM OverIsRenderedOrTaken == Spec => []RenderedOrTaken
<1>1. WholeInv => RenderedOrTaken
  <2> SUFFICES ASSUME WholeInv, NEW name \in Names, Renders(name), logs[name] \notin Running \cup apart
               PROVE  Current(name) \/ Takes(name)
    BY DEF RenderedOrTaken
  <2>1. logs[name] \notin Live
    BY NoRunIs DEF Running, Live, Renders, WholeInv, RunsAre
  <2> QED
    BY <2>1 DEF WholeInv, RenderedWhenOver
<1> QED
  BY <1>1, WholeInvariant, PTL
=============================================================================
