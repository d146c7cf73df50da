---------------------------- MODULE MemoryMiner ----------------------------
(***************************************************************************)
(* Mining recorded sessions for memories (memory_miner.go), the manifest   *)
(* of the sessions already mined (memory_manifest.go), /memory mine        *)
(* (commands_memory.go) and the mining at exit (terminal.go), over the     *)
(* store of MemoryStore.                                                   *)
(*                                                                         *)
(* A session's dialogue is counted in units of minerMinChunkTokens, the    *)
(* least the miner sends to a model.  While a session is open its file     *)
(* holds the title page only; it is rendered from the log when the session *)
(* ends, or at the next start if the process was killed.                   *)
(***************************************************************************)
EXTENDS MemoryStore, Sequences

CONSTANTS
  Sessions,   \* session files that may come to be
  Models,     \* models that may be asked
  MaxText,    \* bound: units of dialogue in a session
  AutoText,   \* units at which a session is mined at exit
  MaxProps,   \* bound: proposals from one session
  MineLive,   \* may /memory mine be given the open session?
  FileFaults  \* what may fail with the files around the store: see AllFileFaults

\* The rendering of the session's file as it ends; the write of the manifest, with
\* an error, or cut short when the process is killed.
AllFileFaults == {"render", "manifest", "torn"}

ASSUME MinerConstantsOK ==
  /\ MaxText \in Nat /\ AutoText \in 1..MaxText /\ MaxProps \in Nat
  /\ MineLive \in BOOLEAN /\ FileFaults \subseteq AllFileFaults

NoSession == "none"

VARIABLES
  text,      \* units of dialogue of each session, as its log has them
  file,      \* the session's file: see FileStates
  live,      \* the open session
  manifest,  \* manifest.yaml
  task       \* the mining under way

minerVars == <<text, file, live, manifest, task>>
vars == <<storeVars, minerVars>>

\* None yet; the title page of a session that has not ended; the whole session;
\* the title page of one that has, which nothing renders any more.
FileStates == {"none", "open", "full", "left"}

\* In the manifest, how much of its session the model had read for an entry.
NotMined == -1
Manifest == [readable : BOOLEAN,
             mined : [Sessions -> {NotMined} \cup 0..MaxText],
             failed : SUBSET (Sessions \X Models)]

Proposal == [id : Ids, doc : Doc]

\* left: units not read yet. size: the largest part to ask about, 0 for any.
\* props: proposals not answered yet. next: the manifest about to be written.
Idle == [at |-> "prompt"]
Task == {Idle} \cup
  [at : {"extract", "review", "archiving", "saving", "record"}, s : Sessions, m : Models,
   auto : BOOLEAN, forced : BOOLEAN, left : 0..MaxText, got : 0..MaxText, size : 0..MaxText,
   props : Seq(Proposal), next : Manifest]

MinerInit ==
  /\ Init
  /\ text = [s \in Sessions |-> 0]
  /\ file = [s \in Sessions |-> "none"]
  /\ live = NoSession
  /\ manifest = [readable |-> TRUE, mined |-> [s \in Sessions |-> NotMined], failed |-> {}]
  /\ task = Idle

AtPrompt == op.at = "idle" /\ task = Idle

-----------------------------------------------------------------------------
(* The session and its file.                                               *)

\* Sessions left open by a killed process are rendered, then a new one begins.
Start(s) ==
  /\ Open
  /\ file[s] = "none"
  /\ file' = [r \in Sessions |-> IF r = s THEN "open"
                                 ELSE IF file[r] = "open" THEN "full" ELSE file[r]]
  /\ live' = s
  /\ UNCHANGED <<text, manifest, task>>

Turn ==
  /\ AtPrompt
  /\ text[live] < MaxText
  /\ text' = [text EXCEPT ![live] = @ + 1]
  /\ UNCHANGED <<storeVars, file, live, manifest, task>>

\* finishSession, as the process ends.
Finish ==
  /\ \E f \in {"full"} \cup (IF "render" \in FileFaults THEN {"left"} ELSE {}) :
       file' = [file EXCEPT ![live] = f]
  /\ live' = NoSession

-----------------------------------------------------------------------------
(* What the miner does first.                                              *)

Mined(s) == manifest.mined[s] # NotMined

\* Record and RecordFailure, on the manifest read when the command began, from
\* which --force took the session's entry.
Recorded(s, got) ==
  [manifest EXCEPT !.mined[s] = got, !.failed = {f \in @ : f[1] # s}]

RecordedFailure(s, m, forced) ==
  [manifest EXCEPT !.mined[s] = IF forced THEN NotMined ELSE @, !.failed = @ \cup {<<s, m>>}]

Record(t, next) == [t EXCEPT !.at = "record", !.next = next]

Fresh(s, m, auto, forced, size) ==
  [at |-> "extract", s |-> s, m |-> m, auto |-> auto, forced |-> forced, left |-> text[s],
   got |-> 0, size |-> size, props |-> <<>>, next |-> manifest]

\* sessionIsEmpty: no dialogue in the file f.
SessionIsEmpty(s, f) == f \in {"open", "left"} \/ text[s] = 0

\* The prompt limit is not known (size 0), leaves room for so much, or for
\* nothing.
Begins(s, f, m, auto, forced) ==
  IF SessionIsEmpty(s, f)
  THEN {Record(Fresh(s, m, auto, forced, 0), Recorded(s, 0))}
  ELSE {Fresh(s, m, auto, forced, size) : size \in 0..MaxText}
       \cup {Record(Fresh(s, m, auto, forced, 0), RecordedFailure(s, m, forced))}

\* /memory mine with a path, or on the last unmined session. A manifest that
\* cannot be read and a session already mined end the command.
Mine(s, m, forced) ==
  /\ AtPrompt
  /\ manifest.readable
  /\ file[s] # "none"
  /\ s = live => MineLive
  /\ forced \/ ~Mined(s)
  /\ task' \in Begins(s, file[s], m, FALSE, forced)
  /\ UNCHANGED <<storeVars, text, file, live, manifest>>

\* An empty session is recorded before the manifest is asked about failures.
MinedAtExit(m) ==
  /\ text[live] >= AutoText
  /\ manifest.readable
  /\ ~Mined(live)
  /\ file'[live] = "full" => <<live, m>> \notin manifest.failed

\* /exit. A session of some length is then mined without asking.
Exit(m) ==
  /\ AtPrompt
  /\ Finish
  /\ IF MinedAtExit(m)
     THEN task' \in Begins(live, file'[live], m, TRUE, FALSE) /\ UNCHANGED storeVars
     ELSE Close /\ UNCHANGED task
  /\ UNCHANGED <<text, manifest>>

\* The end of the input ends the session and nothing else.
EndOfInput ==
  /\ AtPrompt
  /\ Finish
  /\ Close
  /\ UNCHANGED <<text, manifest, task>>

-----------------------------------------------------------------------------
(* extractAll.                                                             *)

\* The mining is over, and with it the process if it was ending.
Over ==
  /\ task' = Idle
  /\ IF task.auto THEN Close ELSE UNCHANGED storeVars

\* takeChunk: all that is left if it fits, else whole paragraphs up to the size.
Chunks == IF task.size = 0 \/ task.left <= task.size THEN {task.left} ELSE 1..task.size

\* Ids are made of the time, so they are new.
NewIds == {id \in Ids \ archive : rows[id] = NoDoc /\ active[id] = NoDoc
                                  /\ \A i \in DOMAIN task.props : task.props[i].id # id}

\* The proposals with one more, unless it repeats what an earlier one says.
WithProposal(props, p) ==
  IF \E i \in DOMAIN props : props[i].doc.text = p.doc.text THEN props ELSE Append(props, p)

\* What the model may propose for one part: nothing, or a memory.
Proposals ==
  {task.props} \cup
  (IF Len(task.props) < MaxProps
   THEN {WithProposal(task.props, [id |-> id, doc |-> [text |-> t, conf |-> c]]) :
           id \in NewIds, t \in Texts, c \in NewConf}
   ELSE {})

\* Variant: the mining stops at the first part.
ReadOnePart ==
  /\ task.at = "extract"
  /\ \E chunk \in Chunks, props \in Proposals :
       LET done == [task EXCEPT !.left = 0, !.got = @ + chunk, !.props = props]
       IN task' = IF props # <<>> THEN [done EXCEPT !.at = "review"]
                  ELSE Record(done, Recorded(task.s, done.got))
  /\ UNCHANGED <<storeVars, text, file, live, manifest>>

ReadPart ==
  /\ task.at = "extract"
  /\ \E chunk \in Chunks, props \in Proposals :
       LET done == [task EXCEPT !.left = @ - chunk, !.got = @ + chunk, !.props = props]
       IN task' = IF done.left > 0 THEN done
                  ELSE IF props # <<>> THEN [done EXCEPT !.at = "review"]
                  ELSE Record(done, Recorded(task.s, done.got))
  /\ UNCHANGED <<storeVars, text, file, live, manifest>>

\* Variant: no least size, and a size of zero is no cap.
HalveDownToNothing ==
  /\ task.at = "extract"
  /\ \E chunk \in Chunks :
       LET half == chunk \div 2
       IN task' = IF task.size = 0 \/ half < task.size
                  THEN [task EXCEPT !.size = half]
                  ELSE Record(task, RecordedFailure(task.s, task.m, task.forced))
  /\ UNCHANGED <<storeVars, text, file, live, manifest>>

\* The model cannot take the part: too large, cut off, or not answered with a
\* list. Parts are halved while that makes them smaller; then the session is
\* left, and the failure remembered.
CannotTake ==
  /\ task.at = "extract"
  /\ \E chunk \in Chunks :
       LET half == chunk \div 2
       IN task' = IF half >= 1 /\ (task.size = 0 \/ half < task.size)
                  THEN [task EXCEPT !.size = half]
                  ELSE Record(task, RecordedFailure(task.s, task.m, task.forced))
  /\ UNCHANGED <<storeVars, text, file, live, manifest>>

\* The server cannot be reached: an error that says nothing of the model.
Unreachable ==
  /\ task.at = "extract"
  /\ Over
  /\ UNCHANGED <<text, file, live, manifest>>

-----------------------------------------------------------------------------
(* reviewInteractive, and what MineAuto does without asking.               *)

Asking == task.at = "review" /\ op.at = "idle"
First == task.props[1]
Rest == LET left == [task EXCEPT !.props = Tail(@)]
        IN IF left.props = <<>> THEN Record(left, Recorded(task.s, task.got))
           ELSE [left EXCEPT !.at = "review"]

\* Also a proposal MineAuto does not find in the store.
Accept ==
  /\ Asking
  /\ Save(First.id, First.doc)
  /\ task' = [task EXCEPT !.at = "saving"]
  /\ UNCHANGED <<text, file, live, manifest>>

\* Also one MineAuto finds there.
Skip ==
  /\ Asking
  /\ task.auto => \E id \in Ids : Active(id)
  /\ task' = Rest
  /\ UNCHANGED <<storeVars, text, file, live, manifest>>

\* r ID: what it replaces is archived first, whether or not it is there.
Replace(id) ==
  /\ Asking /\ ~task.auto
  /\ Archive(id)
  /\ task' = [task EXCEPT !.at = "archiving"]
  /\ UNCHANGED <<text, file, live, manifest>>

ThenSave ==
  /\ task.at = "archiving" /\ op.at = "idle"
  /\ Save(First.id, First.doc)
  /\ task' = [task EXCEPT !.at = "saving"]
  /\ UNCHANGED <<text, file, live, manifest>>

\* e: the document is edited, its id with it.
Edit(p) ==
  /\ Asking /\ ~task.auto
  /\ task' = [task EXCEPT !.props[1] = p]
  /\ UNCHANGED <<storeVars, text, file, live, manifest>>

\* A failed save is reported, and the review goes on.
Saved ==
  /\ task.at = "saving" /\ op.at = "idle"
  /\ task' = Rest
  /\ UNCHANGED <<storeVars, text, file, live, manifest>>

\* q, or the end of the input: nothing is recorded.
Quit ==
  /\ Asking /\ ~task.auto
  /\ task' = Idle
  /\ UNCHANGED <<storeVars, text, file, live, manifest>>

\* Manifest.Save. An error is a warning.
WriteManifest ==
  /\ task.at = "record"
  /\ manifest' \in {task.next} \cup (IF "manifest" \in FileFaults THEN {manifest} ELSE {})
  /\ Over
  /\ UNCHANGED <<text, file, live>>

-----------------------------------------------------------------------------
\* What is left of a manifest whose writing was cut short: its first entries,
\* or nothing that parses.
Cuts(m) ==
  {[m EXCEPT !.readable = FALSE]} \cup
  {[m EXCEPT !.mined = [s \in Sessions |-> IF s \in kept THEN @[s] ELSE NotMined], !.failed = {}] :
     kept \in SUBSET Sessions}

Killed ==
  /\ Crash
  /\ task' = Idle
  /\ live' = NoSession
  /\ manifest' \in {manifest} \cup
       (IF task.at = "record" /\ "torn" \in FileFaults THEN Cuts(task.next) ELSE {})
  /\ UNCHANGED <<text, file>>

StoreStep == (Steps \/ DropDatabase) /\ UNCHANGED minerVars

\* /memory forget and /memory flag.
StoreCommand ==
  /\ AtPrompt
  /\ \E id \in Ids : Archive(id) \/ Flag(id)
  /\ UNCHANGED minerVars

MinerNext ==
  \/ \E s \in Sessions : Start(s)
  \/ Turn \/ EndOfInput
  \/ \E s \in Sessions, m \in Models, forced \in BOOLEAN : Mine(s, m, forced)
  \/ \E m \in Models : Exit(m)
  \/ ReadPart \/ CannotTake \/ Unreachable
  \/ Accept \/ Skip \/ ThenSave \/ Saved \/ Quit
  \/ \E id \in Ids : Replace(id)
  \/ \E id \in Ids, t \in Texts, c \in NewConf : Edit([id |-> id, doc |-> [text |-> t, conf |-> c]])
  \/ WriteManifest
  \/ StoreStep \/ StoreCommand \/ Killed

MinerSpec == MinerInit /\ [][MinerNext]_vars

\* The server answers or refuses, the operations of the store go on, and the author
\* answers what the review asks or ends the input.
MinerFairness ==
  /\ WF_vars(ReadPart \/ CannotTake \/ Unreachable)
  /\ WF_vars(Accept \/ Skip \/ Quit)
  /\ WF_vars(ThenSave \/ Saved \/ WriteManifest)
  /\ WF_vars(Steps /\ UNCHANGED minerVars)

-----------------------------------------------------------------------------
(* Properties.                                                             *)

\* Every variable keeps its type.
MinerTypeOK ==
  /\ text \in [Sessions -> 0..MaxText]
  /\ file \in [Sessions -> FileStates]
  /\ live \in Sessions \cup {NoSession}
  /\ manifest \in Manifest
  /\ task \in Task

\* A session the manifest has as mined is one whose whole dialogue a model has
\* read: in as many parts as it took, never a part of it, never a file that was
\* not the session yet.
MinedWasRead ==
  manifest.readable => \A s \in Sessions : Mined(s) => manifest.mined[s] = text[s]

\* A session is never both mined and remembered as one a model could not process:
\* --force, a failure and a later success in any order leave one or the other.
FailedAreUnmined == \A f \in manifest.failed : ~Mined(f[1])

\* ManifestIsTrue: what the manifest says of a session is so: it was read whole if it is
\* there as mined, and then it is not there as failed (Record, RecordFailure).
ManifestIsTrue == MinedWasRead /\ FailedAreUnmined

\* Mining ends, however often the model refuses a part: each refusal makes the
\* parts smaller, down to the least, and every proposal is asked about once.
MiningEnds == task # Idle ~> task = Idle

=============================================================================
