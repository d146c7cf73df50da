# Harvey in TLA+

Harvey (`github.com/rsdoiel/harvey`) is a terminal agent: it reads lines from an author, sends the conversation to a
language model, runs the tools the model asks for, works through plans, records everything in a session log, mines
finished sessions for memories, and drafts and reviews what goes into a knowledge base. These modules model the parts
of it in which several pieces of state must stay in step, or in which steps of several actors mix: the log and its
index, the conversation and the log, the files of a memory and their database, the files of a session, the model in
use and what is remembered of it, a plan and the step that runs it, the knowledge base and the documents, the rules
and what is written under them, routes and the lines sent to them, a prompt and what is put before it.

Paths below are relative to `src/` of the repository unless they begin with `tla/`. Definitions keep the names of the
code where TLA+ allows it; `PROJECT.json` maps each to the lines it models.

## 1. Inventory

| Component | Its state | Operations | Talks to | Hard behaviour | Module |
|---|---|---|---|---|---|
| **Session log** `sessionlog.go`, `sessionindex.go` | the `.jsonl` file, `seq`, `size`, the live index | open, append, close, read back; build an index | written by every other part through `sessionlog_agent.go` | write and sync are two steps; short writes; kills; ids and offsets counted apart from the file | SessionLog |
| **Chat turn** `terminal.go` `runChatTurn`, `tool_executor.go` | history, the awaited call, tool rounds | ask, tool loop, compaction, retries, cancel | engine clients, tools, log, prompt assembly | Ctrl-C at any time, three kinds of retry, the tool loop's private copy of the history | ChatTurn |
| **Prompt assembly** `assemble*.go`, `prompt_fit.go`, `context_estimator.go` | prompt limit, summary back-off | assemble, trim, learn a limit, summarise | reads the log back to know what each message is | limits compared in three ways; summaries replace what the log still has | Prompt, PromptAlgorithms |
| **Prompt rebuild** `promptrebuild.go`, `sessionlog_agent.go` | (from the log) messages with kinds and turns | replay every event | feeds the assembler and `/session` | every change of the history is described twice: by doing it and by logging it | PromptRebuild |
| **Pins** `sessionpins.go` | pins and their messages | pin, unpin, restore after `/clear` | history, log, index | must survive trimming, summaries and reordering | ChatTurn, SessionLog |
| **Memory store** `memory_store.go`, `memory.go` | one file per memory, table, search table, digest | save, archive, flag, recall, rebuild | miner, `/memory`, recall | three stores, no transaction, kills and failures between | MemoryStore |
| **Memory mining** `memory_miner.go`, `memory_manifest.go`, `commands_memory.go` | manifest of mined and failed sessions | mine with review, mine at exit, force | session files, store, model | parts refused and halved; stale manifest; the open session | MemoryMiner |
| **Session files** `sessionfile.go`, `recorder.go`, `sessionrender.go`, `sessionload.go`, `replay.go` | `NAME.jsonl`, `NAME.blobs`, `NAME.spmd`; the recorder's and the log's idea of their names | record, render, recover at start, rename, list, continue, replay | log, miner | a rename is three moves with two kinds of roll-back; kills between any two; a session inside another; turns and analyses read back off the kinds of events | SessionFiles, SessionReaders |
| **Models and engines** `ollama*.go`, `backend*.go`, `hailo*.go`, `model_*.go`, `window.go`, `dispatch_target.go` | client, backend, configured model, capability cache, windows, aliases | select, probe, fix a window, learn a limit, borrow and give back | HTTP servers, `harvey.yaml` | the cache key is read off two fields that different paths set; servers come and go between two questions | Models |
| **Plan, pipeline, loop** `plan*.go`, `pipeline.go`, `loop.go` | `agents/plan.md`, the model in use, the loop's counts | make a plan, next step, rate an answer, repeat | chat, model switch | the plan is read before a step and written after it; three layers each give back what they took | Work |
| **Knowledge base, drafts** `learn*.go`, `draftobs_*.go`, `commands_kb.go` | observations, summaries, documents and tags, in the external `kb` and on disk | draft, ingest, review, tag | the `kb` program, a model, the author | passes cut by Ctrl-C; an answer of `kb` lost; a file written and not ingested; a transcript cut to a window | Knowledge, SessionReaders |
| **Workspace, permissions, audit** `permissions.go`, `audit.go`, `builtin_tools.go`, `commands.go`, `write_offer*.go` | rules, ring of events, the log's permission events | ask a rule, offer, write, run, read | tools, the author | a question open while a command changes the rule; the ring goes round | Access, AuditBuffer |
| **Configuration** `config.go` | settings in force, `agents/harvey.yaml` | load, change and save a section | every command that sets something | memory first, then the whole file over what an editor left | Settings |
| **Routing** `routing.go`, `route_persist.go`, `commands_route.go` | registry, sticky route, `routes.json` | add, remove, set, use, dispatch | remote endpoints | names shared with aliases and tags; file overwritten in place | Routes, Repl |
| **Remote transfer** `remote*.go` | what has been read, host keys | dial, open, read, redirect | SFTP and HTTP servers | answers of any length; a file that changes while it is read | Remote |
| **Read-eval loop, exit status** `terminal.go`, `exitcode.go`, `handler_errors.go` | the line, interactive or script, first failure | dispatch a line, leave | everything | which of command, alias, route, tag or prompt a line is | Repl |
| **Memory recall** `memory_unified.go`, `kbrecall.go`, `sessionlog_kb.go`, `budget_*.go` | injected once, remaining budget | recall three silos in a share | store, `kb`, log | cut to a share; what is logged is written apart from what enters the prompt | Recall, TurnContext |
| **Files in a prompt, chunked analysis** `chunker.go`, `chunk_analyzer.go`, `read_chunks.go`, `terminal.go` `injectOrChunk` | the budget of a turn, a lent model | inject, note, analyse | workspace, model switch | several small files are too much together; an analysis fails under a lent model | Chunks, TurnContext |
| Skills, code blocks and editor, help, learning documents, start-up checks and scrubbing, `cmd/assay` | files and text | parse, format, measure | | little state | none, see section 5 |

What makes each correct, as the properties state it, is in section 3 with the run that checks it. `PROJECT.json` lists
every component with what is modelled of it, and 40 hazards with their lines; more are in section 6.
## 2. The modules

```
DurableLog   <== SessionLog                          <-- RecordProofs
Prompt <-- PromptRebuild <-- ChatTurn ==> Dialog     <-- ChatProofs
Prompt <-- PromptAlgorithms                          loops of the code against the closed forms of Prompt  <-- ChatProofs
MemoryStore <-- MemoryMiner                          <-- MemoryProofs
SessionNames <== SessionFiles                        <-- SessionFilesProofs
SessionReaders                                       what is read back out of a log  <-- SessionProofs
ModelChoice  <== Models                              <-- ModelsProofs
Checklist    <== Work                                <-- WorkProofs
Knowledge                                            <-- KnowledgeProofs
Settings, AuditBuffer <-- Access                     <-- RecordProofs
Routes, Remote <-- Repl                              <-- SessionProofs
Chunks, Recall <-- TurnContext                       <-- KnowledgeProofs
MC*                                                  instances for TLC
```

`A <-- B`: B extends A. `A <== B`: B is shown to implement the abstract specification A.

**DurableLog, SessionLog.** `SessionLog` models `OpenSessionLog`, `Append`, `Close` and `ReadSessionLog`. The file is a
sequence of pieces, each the whole of a line, the line without its newline, or the beginning of one. A write and its
sync are two steps (`WriteLine`, then `Synced` or `SyncFails`); `Crash` keeps what was synced and any prefix, to the
byte class, of what was not. `seq`, `size` and `idx` are the writer's own counters, which nothing but its own code
keeps equal to the file. `Faults` says what the disk may do. `DurableLog` is the promise: an append-only list that
ends, crashes, or can no longer be read.

**Prompt, PromptRebuild, ChatTurn, Dialog.** `Prompt` has messages, classification, `Assemble`, `TrimMessages`,
compaction of a tool round and the description of a rewrite. `PromptRebuild` is the rebuilder, one `Apply` per event.
`ChatTurn` holds the conversation twice: `agent.history`, as the code changes it, and `agent.rb`, as the log it writes
at the same time rebuilds it. Its actions are what happens between two answers of the model: `Ask`, `AnswerToolCalls`,
`AnswerText`, `CallFails` (with the retries), `Cancel` (the SIGINT watcher) and `GiveCommand` (`/clear`, `/pin`,
`/unpin`, `/read`, a line folded back from a route, a model switch). `Dialog` is what an author sees: questions with
replies, of which the oldest may be forgotten. `PromptAlgorithms` writes the code's loops one turn at a time, done as
often as there are messages.

**MemoryStore, MemoryMiner.** `active`, `archive` are the files, `rows`, `search` the two tables. An operation is a
sequence of steps through `op.at`, each of which may fail as the code lets it fail, and the process may be killed in
front of, within or after each. `held` is what the operations that returned without error promised; `doubt` has the
ids whose last operation did not do all its steps, of which the code promises nothing until an operation on them runs
through. `MemoryMiner` adds sessions, the manifest and one mining at a time: `Begins` chooses what the prompt limit
leaves, `ReadPart` takes a part and perhaps a proposal, `CannotTake` halves the size or records the failure, the review
answers, and `WriteManifest` writes the copy made from the manifest the command began with.

**SessionNames, SessionFiles.** `logs`, `blobs` and `spmd` say what each name has; `data` what a session's log holds;
`me` what the process believes; `outer` the same of the session a replay was given in. A rename is `MoveLog`,
`MoveBlobs`, `MoveFile`; the second undoes the first when it fails, the third starts both over in the other direction.
`Happenings` are recording or renaming over a name that has files, a second failure while a rename is undone, a kill
inside a rename or between the end and the rendering. The history variable `apart` has the sessions these leave in
pieces, and the properties are about all others; `ImplementsSessionNames` has no such exception.

**SessionReaders.** The other side of the log. Its actions write a session's events in every order the program does: lines for
the model and for routes, skills, requests of a turn and side requests, tool calls, shell lines, pipelines, `/kb`, offers, plans, analyses under the
turn's model or a lent one, switches, an end or none. Three readers are operators on that log: `RenderFountain` (the screenplay, scene by scene, over
`TurnEnd` and `AnalysisEnd`), `LoadTurns` (what `/session continue` and a replay take) and `DraftTranscript` with `SplitPasses` (what `/kb draft`
asks about). `answered` is kept beside the log by the actions that know when a turn was answered; no reader looks at it. `MCReadings` runs it in one
behaviour space with `PromptAlgorithms`, each computing from a list.

**ModelChoice, Models.** `Models` has the client, the backend, the configured model, the cache of capabilities and
learnt limits under the keys the code forms (`CacheKey`), the windows fixed for the session, the alias table, and a
stack of borrowed models (`ResolveDispatch`, `Restore`: a chunk analysis inside a plan step). Choosing a model asks the
servers up to five times (is it installed, who has it, which family, the family again, the probe): `Seen` is what answers each
of these, and one server may go or come between any two. A name is compared with `:latest` where the code does (`Tagged`), and
a probe may fail while its server answers. `ModelChoice` promises one model in use
that only a choice changes and that every loan gives back.

**Checklist, Work.** One job (`job`) waits for one answer of the model: making a plan, a step, a rating, a chat turn,
a pipeline file. `loop` is the `/loop` around it, whose timer is a step; `Interrupt` is Ctrl-C at any of them,
`EditPlan` the author's editor, `Killed` the end of the process. Every operation ends by `Await` (it asks the model) or
`Ends`, typed or in a loop. `SavePlan` is `os.WriteFile`, which empties the file first: where the disk is full or the
process is killed while it writes, `CutShort` is what the file may read like then, its steps up to some point and the last of
them with part of its title. `Checklist` promises that a plan is replaced by another or by the beginning of one, or gets its
first open step marked after that step ran, and may lose the steps behind when that write breaks off.

**Knowledge.** `/kb draft` reads what is held, asks passes, compares proposals, and writes rows through `kb`, whose
answer may be lost after the row was written; Ctrl-C while asking keeps what was found, while writing stops. `/kb
learn` ingests documents, drafts their pending parts, shows drafts (accept, edit, redraft, skip, quit) and tags new
concepts in files it then ingests again, putting a file back when that fails. The documents are versions: an edit
count and the tags. A write that fails may leave the file cut short, with some of its tags (`CutShort`). `torn` has the
documents for which file and knowledge base are known to differ: a kill between file and ingestion, a write that broke off,
a file that could not be put back.

**Settings, AuditBuffer, Access.** `Settings` has the settings in force, `harvey.yaml` and what is behind in it.
`AuditBuffer` is the ring. `Access` has every tool and command that asks a rule, the offers of a reply (tagged blocks
with yes, no, all, quit or a command typed at the question; the untagged block), `/format` and `/git`, which ask none, and
the two records. `acts` is what was really done, against which the records are judged. A path is a sequence of names with `.`
and `..` among them (`Spellings`); `Clean` is the file it stands for, and a failed write may cut that file.

**Routes, Remote, Repl.** `Routes` is the registry, its file and the sticky route; `Remote` one transfer, answer by
answer, with a server that sends as little as it likes; `Repl` decides what a line is: command, shell, alias or model an alias names
(`Switchable`), route, tag or prompt, and what a script's status counts. The turn of a prompt is in `ChatTurn`, not repeated here.

**Chunks, Recall, TurnContext.** `Chunks` splits a document as `ChunkDocument` does. `Recall` takes facts, then
memories by words and by likeness, then the knowledge base, as far as the share reaches. `TurnContext` puts both
before a prompt: what is recalled once after each `/clear`, each mentioned file whole, as a note, or as an analysis
chunk by chunk under a model that may be lent, and `/read-chunks` and a model's `read_file` too.
## 3. The runs

All runs pass. Each property is also broken by a mutant, a variant of one definition (marked `Variant:` in the modules)
that changes the code's behaviour the way a plausible mistake would; `PROJECT.json` lists them.

**`log_ok`** (`SessionLog_ok.cfg`) *A reader gets every acknowledged event and at most the one in flight, or refuses the
file; the live index is the one a reader would build; pins in it are those that stand.* `ImplementsDurableLog`,
`LiveIndexAgrees`. A disk that refuses writes, writes part of a line, or fails to sync; a crash at any byte
class. Ids up to 4 and 2 errors: a start, a pin, its unpin and an event between fit, before and after an error.
The proofs remove the bounds.

**`chat_dialog`** (`Chat_dialog.cfg`) *Replaying the log gives every prompt sent and the history between turns; pins stay;
a turn adds its question and reply or nothing, and only the oldest exchanges go.* `RequestsRebuilt`, `LogKeepsHistory`,
`PinsInEveryPrompt`, `ImplementsDialog`. Three set-ups: `Filling`, 3 turns and 2 commands with room for 7 messages, so that a
pin and an unpin, or a clear, fall between turns and the third turn is trimmed; `Narrow`, 4 turns in a window of 5 messages, a share of the
model's context and no limit known, so that a prompt is assembled twice, summarised, and a turn follows; `Whole`, with tool results not compacted. Left out of
these set-ups are the retry on a smaller prompt, tools that edit the history and lines that repeat, with which the rebuilt prompt really differs (section 6): nothing
of them is claimed by these four properties, `ImplementsDialog` included. `chat_faults` has the first two.

**`chat_faults`** (`Chat_faults.cfg`) *Every prompt has each tool call followed by its results; every turn ends.*
`CallsAnswered`, `EveryTurnEnds`. Parallel and prose calls, a loop at its limit of 2 rounds, self-edits of the history, a late
Ctrl-C, smaller retries, and two turns, so that the second starts from what the first left. Tool results are compacted, as they are by default; section 6 says when `CallsAnswered` does not hold.

**`readings`** (`Readings.cfg`) *The closed forms `ChatTurn` uses are what the loops of `trimMessages` and `Assemble` compute, and a logged
rewrite gives back exactly the new history* (`ClosedFormsAreLoops`, `OpsGiveTheNewHistory`), on all conversations of up to 5
messages and limits up to 5: system, pin, two turns of which one is cut. *The screenplay and the turns to continue from say what the session did, and the passes of a
transcript carry it whole* (`ScenesAgree`, `TurnsReadBack`, `PassesCarryTheSession`), on every session of up to 12 events of which 3 begin something (a line, an analysis, an offer, a call of the
author, a switch): two turns with something between them, or one with an analysis and an offer, each with its tool call, failure or retry. A line is longer than a pass of the two smaller windows (unknown and 900) takes and not of
the third, and is cut 0 to 3 bytes early, as a rune may need. `Features` is empty: its members `"lent"`, `"after"` and `"late"` name ways of using a session on which the readers differ (section 6, (al) to (an)). 1.2 million states.

**`memory_mining`** (`Memory_mining.cfg`) *A session recorded as mined was read whole and none is both mined and failed; file, row and
search entry of every memory not in doubt agree; mining ends.* `ManifestIsTrue`, `StoreAgrees`, `MiningEnds`. Two sessions of up to 2 units, so that a session is read in two parts, a part is halved, and one is mined while
another is open; 2 ids, so that one memory replaces another; an index, a search table, a move and an update that fail, kills anywhere and a torn
manifest. Deadlock is checked. `MineLive` is `FALSE`: with it the property is violated (section 6).

**`session_files`** (`SessionFiles.cfg`) *No log is lost or written over; log, blobs and Fountain file stay under one name; a payload is
where its event says; a rendering is complete or made again; each session is listed once.* `SessionsStayWhole`, `RenderedOrTaken`, `ImplementsSessionNames`.
3 names, 2 sessions, 3 events, 1 payload: a session keeps its name, takes one given up and finds one taken while another is dead or put aside.
Every call fails that can; names are interchangeable (symmetry; no liveness is checked here).

**`models`** (`Models_ok.cfg`) *What is remembered is kept under the server it is true of; a model that was accepted is on the server it is asked of; each loan gives back
what it found.* `RememberedOfItsOwn`, `StartsWhereInstalled`, `ImplementsModelChoice`. Three servers, three models of which two servers name one, a name without
its tag, four aliases, every order of 3 selections, 1 setting, 1 refusal, 1 outage (inside a choice or between), loans inside one another to depth 2, in two worlds: the usual one, and
one in which both servers are Hailo servers and the one at `ollama.url` is in use while the other is away. 820 thousand states. `StartsWhereInstalled` says what a choice that asks anew at
every step can still promise: the accepted model is on the server it is asked of, or the server that had it went meanwhile, or a Hailo server came, or the name had no tag, which the
candidate list compares as it is written (`model_name.go:220`) while the check before it adds the tag. Each of the three exceptions happens in the run (without it the property is violated).
`Happenings` is empty: its members name two paths on which the code goes to the wrong server, `"alias"` (section 6, (a)) and `"elsewhere"` (section 6, (d)).

**`work`** (`Work_ok.cfg`) *What is marked done ran, and was the first open step of the plan as read; the model lent to a step comes back however it ends; a loop says what it did;
everything ends.* `ImplementsChecklist`, `ModelGivenBack`, `LoopSaysWhatItDid`, `EveryCommandEnds`. Plans of 2 steps one of which names a model, pipelines of up to 2 files
with mentions that are known, routes or broken, loops of 2, 3 commands, 1 edit, 1 kill, 1 round of tools per step, a disk that may be full at any write of the plan and leave its beginning, as a kill
at that moment may; the title that is cut reads `b..`. What holds then is weak on purpose: no step is marked that did not run, and nothing stands in the file
that was not to be written, but steps and marks are lost (section 6, (l)).

**`knowledge`** (`Knowledge_ok.cfg`) *Nothing is drafted twice and a run says of what it drafted neither more nor less; a tagging reaches file and knowledge base or neither, where its writes are whole;
only what was shown is trusted.* `DraftsOnce`, `TagsInBothOrNeither`, `TrustedWasShown`. 3 bodies of which the second is like both others (likeness is not transitive), 2 passes,
limits 0 and 1, 2 documents, 3 parts (one without text, one a summary of the whole), 2 concepts, 3 commands, and one edit, shell command or kill between any two steps. Every fault but `"refresh"` (section 6, (n)).

**`access`** (`Access_ok.cfg`) *The audit shows the newest events in order; the log's permission events say what was done; what was reported saved is in force at the next start;
a file is changed by `/format`, or where the rule asked about the path as it was given allows it.* `RecordsAreTrue`, `SavedAreInForce`, `DeniedLeftAlone`. A ring of 2, so that it goes round within a command; 2 lines of 18 kinds; a reply with two blocks for one file, the first of them
`./doc/../src/a`, and one untagged; one call of a model; one end and a new start; failed and cut saves, 5 edits of `harvey.yaml`, a kill.

**`repl`** (`Repl_ok.cfg`) *What is addressed to a route is answered by it or by nobody; saved routes are read back; a script's status is that of the first failure that counts; a
remote file is taken whole.* `AddressedStays`, `RoutesReadBack`, `StatusIsFirst`, `FetchedWhole`. 3 lines of 28 in every order, over 2 starts, 2 routes, one with the name of the model the alias names, 1 alias and 1 tag that may not
answer, lines that begin with `@` and name nobody, a route file with a removed kind; saves that fail or are cut; files of 1 and 3 bytes in requests of 2, a limit of 2, one redirect, one change of the file. A name is addressed to a route only when it is neither an alias nor a model an alias names, and a sticky route holds for lines that begin with neither `@` nor `/` (section 6, (x) and (y)); failures that do not count are in section 6, (z). 1.56 million states.

**`turn_context`** (`TurnContext_ok.cfg`) *What is recalled is what there is as far as its share reaches; the files taken whole fit beside the conversation; a lent model is given back; the chunks are the
document; the log names what entered the prompt.* `PromptFits`, `RecallIsLogged`, `LentForAnalysis`, `AnalysedWhole`. 4 turns over 7 files, a window of 20, memories and answers of `kb` that may be more than fit, fail, or
have rows without text; three documents in chunks of 12 with paragraphs that fill, pass and just miss a chunk.

`CHECK_DEADLOCK FALSE` stands where a session really ends: the log is closed, turns and commands are used up.

### Fairness

* `ChatTurn`: a call of a model returns, with an answer or an error. This is an assumption on the server: the client returns on cancel, but it has a
  timeout only where `ollama.timeout` is set, which it is not by default. It is written out
  in place of `WF`, with its ENABLED. `EveryTurnEnds` then needs that the tool loop, the retries and the fallback are each bounded by the code.
* `MemoryMiner`: the server answers or fails; the store's statements run; the author answers the review or ends the input (`reviewInteractive`
  blocks on its reader). Choosing Edit for ever is not ending it: weak fairness of `Accept`, `Skip` and `Quit` together is that assumption.
* `Work`: the model answers or its connection breaks (`Answers`), and a loop's timer fires (`LoopSteps`). Ctrl-C, edits, kills and the next command are not assumed.
* `Knowledge`, `Access`, `Repl`: the same assumption of servers and of `kb` (which is run with a timeout) is stated in their specifications; no run checks liveness of them.
## 4. What is proved

Every theorem is for every value of the constants within the named assumptions beside their declarations, checked by TLAPS with no step left open.
`PROJECT.json` lists them with the properties they state.

**RecordProofs.** What harvey writes down. About `SessionLog`: `TypeCorrect` and `ReaderNeverMisled` (whatever the disk does, a reader refuses the file or has every acknowledged event in its place)
from the inductive invariant `TypeInv` with `LineByLine`: each piece of the file is where the one before ends, and the lines a reader could accept are consecutive
from the first. `ReaderSeesWhatWasLogged` assumes `CleanWrites`, a disk that never leaves part of a write, and rests on `AckedOnDisk`: the file is the acknowledged
events, then at most the pending one. `SessionLogIsDurable` needs no such assumption, because `DurableLog` lets a log become unreadable where a failed write left bytes.
`LiveIndexIsReaders` (`[]LiveIndexAgrees`), on any disk: where a failed append left nothing, the file is whole lines and the index the writer keeps is what adding them one by one gives. The building is a recursion over the file, so it is
shown first to exist and to have one value at each length; the invariant adds that the pins are strictly increasing and not beyond `seq`.

About `Access`: `AccessTypes`; `AuditShowsNewest`: what the ring holds follows from what one event does to it, for any capacity and however often it went round; `RulesAreKept`: a file is changed by `/format` or when a rule was just asked, except in an
offer, where the invariant says that the rule asked before the author still stands (`AskedIsAllowed`; a command typed at the question ends the offer); what it says of a path is what the code asks, the path as it was given; `RecordsTellTheTruth`, which adds the session log: what is done by asking is told of in the same step (`TruthInv`), and of an offer one event is told for each
block dealt with (`OffersInv`); `SavedSettingsReturn`: a save lays some sections over what the file says and leaves the others as they would be read (`SavedInv`).

**MemoryProofs.** About `MemoryStore`: `StoreTypes`, and `StoreIsRight` from `FilesAreTheMemories` and `IndexIsRight`. None of the properties is inductive: they speak of the moments between operations. `StoreInv` adds, for the
operation under way, what has been done at each of its places (`StepInv`), which promise is broken meanwhile and for which id (`FilesInv`, `IndexInv`), that no search entry is without a row, and that
a confidence of zero, which a file cannot hold, is held only by a memory being archived. One idea carries the proof: an operation touches its own id, so of every other id everything agrees before
and after (`OthersSettled`, `StaysSettled`, `OneId`); one lemma per action then looks at that id alone. Assumed: a document is not saved with confidence zero, which `NewMemoryDoc` and `ParseMemoryDoc` ensure.

About `MemoryMiner`: `MiningUsesTheStore` (`MinerSpec => Spec`): whatever mining does to the store is an operation of the store, a step of one, or nothing, so `StoreIsRightWhileMining` follows from `StoreIsRight`.
`FailuresAreOfUnmined`, `MinedIsRead` and their sum `ManifestTold` need what is true of the manifest about to be written (`OneOrTheOther`, `ReadWhole` of `task.next`), since it is made from the one the command read; that
the units read and left always add up to the session's, and all are read before the review (`TaskInv`); and that only sessions with their whole file are mined (`ReadInv`). The last two assume `Orderly`: the open session is not mined and
rendering a session does not fail.

**SessionFilesProofs.** `FilesTypes` and `DirectoryKeepsLogs` (`Spec => ImplementsSessionNames`). `FilesInv` says what is at the names in use at each place of the process: no two names have one session (`OneName`), a session not begun has
no log (`BegunOnly`), a session with a log has a name and room for its last event and is not the one put aside (`RunsInv`), a recording that starts has no log anywhere (`StartInv`), and a rename goes to a name without a log, and back to
one (`MoveInv`). `SessionsAreWhole` and `OverIsRenderedOrTaken` (`[]SessionsStayWhole`, `[]RenderedOrTaken`) stand on it and on `WholeInv`, which follows a session through the renames: where its log, its blobs and its Fountain file are
on the way there and on the way back (`OnTheWay`), what the records of the two runs say truly of the disk (`RunsKnow`), that a session has one Fountain file and that it is beside its log (`OneFile`, `FileBeside`), and that the next start would see
what is not rendered (`RenderedWhenOver`). All of it is about sessions not in `apart`. That the model's one process is the only one in the directory is assumed.

**ModelsProofs.** `ModelsInvariance`, `RememberedOfItsOwnHolds`, `StartsWhereInstalledHolds`, and `ModelsImplementModelChoice` (`Spec => ImplementsModelChoice`). The key under which something is learnt is read off the client and the backend, which
different paths set, so `ModelsInv` says where the client's server is and which backend stands before it (`ClientInv`: `ServedAt`, `BackedBy`), of every window and ability kept that it is one the server of its key really has (`LimitsInv`), and
of every loan on the stack that what it gives back is again such a pair (`LoansInv`). All four assume `"alias"` not in `Happenings`, and `StartsWhereInstalledHolds` also `"elsewhere"`: these paths (section 6, (a) and (d))
break `BackedBy` and the place of what is asked. `StartsWhereInstalledHolds` follows the five questions (`SeenResult`): a listed model that is not listed any more was on a server that went, or on one that turned out to be another (`Vanished`, `FamilyMoves`). `ModelsAssumption` says that names of services, engines, models and aliases do not overlap, that services have an address, and that the tables have their types; `NothingAssumption`, that nothing is no thing.

**WorkProofs.** `WorkInvariant`, `BorrowedIsGivenBack`, `LoopsSayTruly`, and `PlanIsAChecklist` (`Spec => ImplementsChecklist`). `WorkInv` has what the properties need of the middle of things: at each phase of a loop, how its
counts differ (`Counted` in `LoopInv`), that the step being run or saved is the first open one of the plan as read (`StepInv`), and whose model is in use while a step has borrowed one (`LentInv`). Since every operation waits
(`Await`) or is over (`Ends`), typed or in a loop, what becomes of the loop is proved of these two and used for all.
The refinement rests on `CutIsPlan`: whatever is left of a plan whose writing broke off reads as a beginning of what the whole reads as (`Beginnings`), for plans of any length.

**KnowledgeProofs.** What harvey knows, and what it puts before a prompt. About `Knowledge`: `DraftsAddUp` (the second half of `DraftsOnce`): the rows of a run are its queue from the front, in order, and those it wrote are all of them, or all but the one whose answer was lost (`Told`).
`NothingIsDraftedTwice` (all of `DraftsOnce`): what comparing drafts leaves is a fold over the proposals, in which each that is kept is unlike all that are held and all kept before it; `QueueInv` carries this from pass to pass, and past the rows that other
runs and a shell add meanwhile. `TagsTogether`: what was read of a document before the author was asked has the tags the knowledge base has (`TagInv`), so putting it back puts both in step. `OnlyShownIsTrusted`: the texts read when a review began are
those of the summaries still to be shown (`ReviewInv`); it assumes `"refresh" \notin Faults`, without which it is false (section 6, (n)).

About `TurnContext`: `ContextInvariance`, and from it `PromptIsFitted`, `RecallIsToldOf`, `LentIsGivenBack` and `FilesAreAnalysedWhole`, the four properties of the run. Two parts. First, what the operators compute, for all arguments: a recall is the longest beginning of
what there is that fits its budget, facts first (`CandidatesAre`, `RecalledReaches`, `RecallIs`); the log of it has the rows of the knowledge base in it and no other (`LogIsOfRecall`); and `ChunkDocument` loses, doubles and moves no unit, closes a chunk at the first
paragraph that fills it, and begins the next where it says (`DocumentCovered`, from an invariant of the fold that is `Chunky` and `CoversTo` after each unit). Then `ContextInv`: while files are being taken the budget of the turn is still what the
conversation leaves (`RoomKept`; the message is added to the conversation only when it is sent), whose an analysis is by where the message is (`AnalysedFor`), and that what was recalled is a recall of something (`RecalledFrom`). `InjectedFits` needs the first,
since `Reserve` compares with the budget of the beginning of the turn and the property with the conversation as it is. Assumed of the store and of `kb` (`TurnContextAssumption`): facts are facts and listed once, and an answer has no row twice.

**ChatProofs.** What harvey tells the model. About `ChatTurn`: `RequestsAreRebuilt`, `HistoryIsKept` and `PinsStayInPrompts`, that is `RequestsRebuilt`, `LogKeepsHistory` and `PinsInEveryPrompt` for every set of setups, window, limit, number of turns,
commands and tool rounds. They have hypotheses on what the session does, `KeepsStep(setup.features)` and, for the pins, not both `"switch"` and `"pin"`. The setups of `chat_dialog` satisfy them. Each feature they exclude (`OutOfStep`) is one of the divergences
of section 6: put in a setup of TLC it violates `RequestsRebuilt` and `LogKeepsHistory`, and all but `"shrink"` also `PinsInEveryPrompt`; a model switch with `/clear` or with `/pin` violates `PinsInEveryPrompt`. What remains is trimming, assembling, learning a limit, the
rolling summary, tool rounds with compaction and without, failures, Ctrl-C, the retry with a file's contents, memories recalled, `/clear`, pins, `/read`, and lines folded back from a route.
In the same sessions, and with tool results compacted, `CallsKeepResults` says the first part of `CallsAnswered` (`CallsHaveResults`), also where lines are asked again, pins are moved and Ctrl-C comes late: no prompt has a call without its result. Without compaction it is not so
(a late Ctrl-C), and the second part, a result without its call, is violated by repeated lines (section 6).

`agent.history` is edited in place and the log is only added to, so no property is inductive: between the two lies all that the rebuilder still holds back (a reply until the next event, the calls of a round until its first result). `Reads(M, r, t)` says
that the rebuilder, having read so far, would give `t`; each kind of event changes `t` in the way its comment says (`Ready` is the same with nothing held back). `Fine` adds what makes a history one that the operators keep: the system prompt is first and alone
(`Headed`), each message is of a kind the classifier gives back (`Classified`), and what is pinned is in it at least as often as it was pinned (`PinsIn`). On these, three states of a conversation: `Rests`, between turns; `Told`, when a prompt was chosen and the log tells it
to the last message; and `Waits`, while an answer is awaited, where the history is the beginning of the prompt and the rest is the tool rounds of this turn, of which only the newest is not compacted and has its result right after its call (`RoundAt`). One lemma for each operation takes one of these to another (a rewrite
logged as ops gives exactly the new history, by `RewritesAreExact`; `Assemble` and `TrimMessages` keep the head, the pins and the last message), one for each action puts them together, and `Conversing` is the invariant. With compaction on, no message of the history calls
a tool (`Quiet`), which is what makes compacting by the oldest open round in the rebuilder the same as by an index in the tool loop.

About `PromptAlgorithms`, and so about the operators of `Prompt` that `ChatTurn` uses: `RewritesAreExact` and `LoopsAreClosedForms`, its two properties. Their inductive invariant is only of types (`PromptInv`); what is hard is the operators. Of a rewrite: after
each new message the ops recorded so far give back the messages so far, and a range that comes last, which the next message may lengthen, is within the old items (`Gives`, `GivesStep`), whether a message is found, moved, repeated or new. Of the loops:
the folds are functions of the number of turns done; one turn of a loop takes a cut to the next one, with no beginning of a turn between them, and a cut that fits stays (`TrimmedStep`, `AssembledStep`), so where the loop stops is the least cut that
fits, which is what `TrimMessages` and `Assemble` choose (`TrimLoopIs`, `AssembleIs`). It is not assumed that a loop ends: that as many turns as there are messages are enough is part of what is proved.

**SessionProofs.** About `Repl`: `AddressedGoesThere`: until somebody is given it, what is left of a line says whom it was addressed to, and when it has become a prompt, all those were aliases, models aliases name, or tags (`LineInv`). `SavedRoutesReturn`: the registry never holds a route of a removed kind, so writing and
reading it gives the same registry (`RoutesInv`). `FirstFailureStays`: that a first failure that counts exists is part of the invariant (`SessionInv`), which spares an argument by least elements. `FilesAreWhole`: what has been taken is the file up to the
offset, unless it changed meanwhile (`FetchInv`).

About `SessionReaders`: `PassesAreFewest` (`[]PassesCarryTheSession`), for logs of any length, texts of any lengths and every window. What a session's log holds is the small part: lines and replies of the conversation are in it and
nothing takes them out (`ReadersInv`, with `InTurn` for the line an answer will belong to), and the transcript has one entry for each event that is kept, in order (`KeptAreTakenUp`). The large part is that filling a pass as far as it goes cannot be bettered. The tokens of
entries `j + 1` to `n` are a difference of running sums (`Sums`); the fewest passes of the first `n` entries are one more than the fewest for some place where the last pass may begin (`FewestPasses`, whose recursion is shown to have one value for each `n`), and never fewer than for
a shorter beginning. Then the fold of `SplitPasses` keeps `Holding`: the passes so far hold the entries so far, each one as cut, the last begins after some entry `from`, and
`FewestPasses` is one less up to `from` and just their number from there on (`Filled`). An entry that does not fit opens a pass; that no other split could have spared it is the last part of `Filled`: from a place with fewer passes still, not even the entry after `from` could be reached. An entry cut at any of the four places a character allows fits the budget, since a budget is at least 256 (`FitEntryFits`, `BudgetIs`).

`TurnsAreReadBack` (`[]TurnsReadBack`), for logs of any length that stop anywhere, under two hypotheses: no model is lent inside a turn and no turn fails after an answer (`"lent"` and `"late"` not in `Features`; (al) and (an) of section 6 say what the
code reads then, and TLC finds `TurnsReadBack` violated with either). `/read-chunks` or `/plan next` right after a turn, `"after"`, is allowed. The reader looks at a finished log; the argument follows the log as it is written. What a line can own ends at the first closing event after it,
so an event written later changes what the line owns only while the line is open (`GrownOwn`), and a line closes the one before it, so only the last line can be open (`OnlyLastIsOpen`). `TalkInv` is the invariant: every answer comes after its request (`Follows`); a request that waits for its answer stands
after every line, and in no turn but its own (`Awaiting`), so that the answer to a side request is outside, or inside with its request (`AnswerSideTalk`); and every line that owns an answer has its turn with just that reply, in the order of the lines, except the line under way, which is open and whose answers so far
are to requests of the turn (`TurnsOf`). A turn given up without an answer leaves nothing to read, a reply closes the books. Last, a fold over the log that meets the lines in order gives the list of turns (`TurnsAreRead`).

**Recursion.** The induction theorems of the library take an operator as their parameter, which the provers here cannot instantiate. Where a proof has to go through a list it uses an invariant as a set instead: the positions up to which it holds are a set of numbers, and if
one were missing there would be a least such (`LeastNatural`, from `NatLessThanWellFounded` and `WFMin`; `UpTo` in KnowledgeProofs and ChatProofs). A fold of the community modules is a recursive function over sets of positions, whose value is a `CHOOSE`: it is shown that such a function
exists and that every one of them has the values of the steps. The filters of `Recall` and `OfKind` of `Prompt` are folds for this reason (`Only`): nothing can be said of `SelectSeq`, whose definition is recursive in the standard module.

**Only model-checked**: liveness (`EveryTurnEnds`, `MiningEnds`, `EveryCommandEnds`) and ENABLED, which this prover does not do; of `ChatTurn`, the second part of `CallsAnswered` and the first in the sessions of its run, whose features put the log out of step, and `ImplementsDialog`, whose dialog
is read off the history with `SelectSeq`, of which the prover knows nothing; and of `SessionReaders`, `ScenesAgree`: `RenderFountain` goes from scene to scene by leaps, and where it lands depends on everything between, so the proof would need an invariant that describes all of a log
(which events may lie between a line and its reply, a call and its result, the first and the last chunk of an analysis).

## 5. What the models leave out

* `ChatTurn`: a message costs one token; the system prompt fits in one of two versions; wording, rendering and redaction are not modelled. Ctrl-C is one actor with two effects, before and after the answer.
* `MemoryStore`, `MemoryMiner`: one type of memory, so a path is a tree and an id; embeddings, near duplicates (a `Skip` at exit needs some active memory), ranking, tags, the digest, session statistics. Generated ids are taken to be new. `/memory mine`
  may pick any session that is not mined, not the last by name; paths are absolute.
* `SessionFiles`: one Harvey process in a workspace. What an append leaves on a faulty disk is `SessionLog`'s; here an event is written or it is not. An empty `.blobs` directory counts as none. Equal modification times count as already recovered, as in
  the code, and two events of one instant are not modelled.
* `Models`: one list is asked at once, and between two questions at most one server goes or comes; token counts, pulls under way, the requests themselves; the sizes of windows are small numbers that stand for their order. Starting and stopping Ollama as a child has no caller outside tests (section 6, (c)).
* `Work`: what a step answers is whether it ran, failed or asked for tools; `/plan status` and `/plan show` only print; how a line is matched with a skill.
* `SessionReaders`: the events no reader looks at (commands, pins, compactions, prompt messages, decisions of rules, the debug level); one file name, so two analyses are told apart by their first chunk; replies are not empty; the text of
  a scene; an entry's length is one number for its kind. A Fountain file that has no log is read by the external parser.
* `Knowledge`: how a reply is cut into proposals and a document into parts; the diff shown; `/kb inject` and verbs that are passed to `kb` as they are.
* `Access`: symbolic links and the check against the workspace root; date and summary tools; a kill between an act and its records; how a rule's prefix cuts a name in two (`src` also matches `src2`). `/format` of several files is a line for each. `Settings`: keys that are copied once at startup.
* `Repl`, `Routes`, `Remote`: line editing and display; `/route list`, `status`, `models` and `probe`, which only ask and print; what a routed request carries; SFTP `Stat` and `List`, which have no caller in the program.
* `TurnContext`: how the store ranks and what likeness finds; the wording of notes; `/read-dir`, which is in `Access`.

**Not modelled** at all, and why: *skills* (a catalogue scanned from disk and text put in prompts; running one as a plan is in `Work`); *code blocks and editor*, *help and messages* (text and display: all of
`helptext.go`, much of `commands.go`); *learning documents* (extraction of text and identifiers, and one request to a registry); *startup and scrubbing* (checks before the first line, and patterns taken out of text);
*assay* (`cmd/assay`, a separate program that measures models and shares no state with Harvey while both run). They keep no state that another step could find out of date; what they compute would be a
model of strings, which a unit test reaches better.
## 6. Where the code and its documentation differ

Met while modelling, and described here without a run of their own. Where a set of a configuration (`Features`, `Happenings`, `Faults`, `MineLive`) can switch such a path on, the
passing run has it off, and the property named is violated when it is put in.

### Log, conversation and prompts

* After a short write or a failed sync the log goes on behind the damage, and a reader then refuses the whole file: `l.f` holds bytes that `l.seq` and `l.size` do not count (`sessionlog.go:259-261` promises that a crash loses at most the event in flight).
* An append that fails does not leave a gap: the next event takes its id (`sessionlog_agent.go:90-92` says the gap is detectable). The id of a session is its name when its log was opened: after a rename a second session may get the same ids.
* The rebuilt prompt differs from the one sent (`promptrebuild.go:8-12` says they must match) after text written before tool calls (`terminal.go:1271`), parallel tool calls (`tool_executor.go:148`), prose tool calls (`tool_executor.go:346`), a tool loop at its
  limit (`terminal.go:1102`), a successful smaller retry (`prompt_fit.go:358`), a reply with white space at its ends (`promptrebuild.go:237`), a model switch around `/clear` (`sessionlog_agent.go:494`) and `summary_context` (`builtin_tools.go:1072`, whose
  own request is logged as the conversation's, and whose new history `terminal.go:1071` overwrites). `RequestsRebuilt` is violated with each of these features.
* The retry with file contents takes out a tool result (`terminal.go:1129`; 1126-1128 says it removes "only the assistant refusal" and preserves "any tool-call/result pairs"), and so does a late Ctrl-C after a tool loop, which leaves the question and the call
  (`terminal.go:1080`): the reply is not in the history yet. With compaction off the next prompt has a call without its result, which violates `CallsAnswered` (`"cantread after tools"` with `"cantread"`, or `"latecancel"`, compaction off, two turns).
* Equal messages make `rewriteOps` split turns (`sessionlog_agent.go:291`; `assemble.go:142-143` "a turn is never split"): three turns that call the same tool, with a pin between and a model switch before the second and third, and the fifth prompt
  has a tool result whose call was cut off, which violates `CallsAnswered` (`"pin"`, `"switch"`, limit 16). The same line asked twice, with the same call but another result, is enough: when the first of the two turns goes, the question and the call of the second are
  found in the first and only the result in the second (the client numbers calls from `call_0` in every answer, `ollama_chat.go:505`), and when the next turn goes the result stays (`"repeat"`, four turns, a window of 6 messages, with or without compaction). A pin made between turns can
  join two turns (`promptrebuild.go:312`); `trimMessages` drops a pin in the middle of what goes (`prompt_fit.go:215`; 180-182 says pinned context is always kept).
* A prompt of exactly the limit satisfies `Assemble` and is refused by `promptBudgetError` though older turns could go (`prompt_fit.go:231-232`).

### Memories and session files

* `/memory mine` in an open session takes that session's file, still a title page, records it as empty, and it is never mined (`commands_memory.go:84`; `memory_manifest.go:60-65`). `ManifestIsTrue` is violated with `MineLive = TRUE`.
* Three flags bring 0.5 to 0.20000000000000004, which is not at or below 0.2 (`memory_store.go:881`, help text of `/memory flag`). A flag is reported as archived when the archiving failed (`commands_memory.go:226`).
* A half-written memory file stays after a failed save (`memory_store.go:282`; the comment at 239-242 says a failed save never leaves an orphan). `Archive` renames the file before it updates the row (`memory_store.go:379`): a failed update leaves an active row without a file.
* A save that fails during mining loses the proposal (`memory_miner.go:559`, `733`), and `r ID` archives before it saves (`602`). The backend Harvey started is stopped before the session is mined at exit (`terminal.go:894`, `917`). A relative path given to
  `/memory mine` is recorded as typed, and the list of unmined sessions compares absolute paths.
* A kill between the creation of a log and its first event (`sessionlog.go:304`, `347`) leaves a log with no event; `loadSessionLog` takes the first event of it (`sessionload.go:117`), so every later listing of sessions panics (`sessionload.go:205` promises that a log that
  cannot be read is skipped).
* A kill between `session_end` and the rendering leaves the title page for good (`sessionfile.go:92-94`). A kill inside a rename (`sessionlog.go:556`) leaves blobs or Fountain file under the old name: payloads are not found, and the session is listed twice.
* `/rename` looks for a log and blobs of the new name, not for a Fountain file (`sessionlog.go:551`): the `.spmd` of an old session without a log is overwritten (`commands.go:1554`). Recording under a name that has files truncates its `.spmd` and goes on with no log; the guard at
  `terminal.go:425-428` compares paths, so `--continue foo.jsonl` with `foo.spmd` as record path passes it. When the renamed Fountain file cannot be opened again the recorder keeps the old name (`recorder.go:251-253`); an error of undoing a rename is dropped (`commands.go:1563`).

### Models

* (a) An alias with no engine, or `ollama`, used while the backend is Hailo: `attemptModelSwitch` (`terminal.go:99`) only replaces the client, so what is learnt goes to the key `hailo/m` (`model_cache.go:421-422`, `444`). `"alias"` of `Happenings`.
* (b) `useServiceModelAt` fixes the window under the key of the backend it is about to leave (`window.go:239-243`).
* (c) `OllamaBackend.Start` has no caller outside tests, so `StartedByHarvey` is always false; the PID file, `tryAdoptPriorBackend` and `/model stop` have nothing to act on. `probeActiveBackend` always probes `Config.Ollama.URL`.
* (d) `useStartupModel` and `pickFamilyModel` look only at the engine of the chosen entry (`model_name.go:231`; 186 and 238 speak of its service). `"elsewhere"` of `Happenings`; with it a catalog entry picked among installed ones. (e) `useSelectedModel` sets the backend to nil before a pull that may fail.

### Plans, pipelines and loops

* (f) With the default `tool_result_compaction` a failed call whose round was compacted reads as done, so the step is marked done (`plan_cmd.go:228`; `helptext.go:3160`). `Work` calls it `seen`.
* (g) `/plan next` or `/pipeline` inside `/loop` runs on `context.Background()`, so Ctrl-C does not cancel it (`loop.go:121-122`, `harvey-loop.7.md:25`). (i) `cmdLoop` says its error is "always nil" (`loop.go:132-133`), and the first failure is returned.
* (h) `formatPlan` drops `[model: ...]` annotations and lines that are neither heading nor checkbox (`helptext.go:3184-3185`). (l) An edit of `plan.md` during a step is overwritten (`plan_cmd.go:209`). A save that breaks off leaves the beginning of the plan (`plan.go:202`): the steps behind it and their marks are gone, and `/plan next` takes what is left for the whole plan, down to "All steps complete" when nothing but its goal is left. (m) `/plan clear` is documented with a confirmation (`plan_cmd.go:281`) that it does not ask.
* (j) `/pipeline`, and `/loop` over a prompt, with no client dereference nil (`pipeline.go:382`). (k) "If the mention cannot be resolved the pipeline stops": on Ollama any word is accepted; a score below the threshold is said to return nil and returns an error (`pipeline.go:318`, `392`).

### Knowledge base

* (n) After an edit or a redraft that cannot be read again, the old text is shown, and accepting promotes text that was never shown (`learn_cmd.go:341`; 193 says nothing is trusted until accepted). `TrustedWasShown` is violated with `"refresh"` in `Faults`.
* (o) `lookKB` keeps a failed check of the version for the life of the process. (p) An edit saved while `/kb learn concepts` asks is overwritten (`learn_concepts.go:570`); a kill between write and ingestion leaves tags on disk only. A write of the tags that fails may leave the document cut short (`workspace.go:172`), and what was read is not put back then (`learn_concepts.go:386`), though the comment says so of a write failure (`learn_concepts.go:371`). (q) `AddConcept` failing midway leaves concepts added and never tagged. (r) With `--limit`, items at the head that always
  fail are tried for ever and later ones never drafted.

### Rules, records and settings

* (s) An empty allowlist or alias table is not written, so the old one returns (`config.go:981`, `1025`; `helptext.go:564`, `2955`). (t) The saves ignore a `harvey.yaml` that cannot be parsed and write over it with only their sections (`config.go:933`, `941`, `1007` promise an error and that unrelated keys are preserved).
* (u) An untagged block is recorded twice in the session log, also when it failed; writes of tagged blocks never reach the audit buffer. (v) `/run` logs "allowed" and then "denied" for a line that cannot be parsed (`commands.go:2626-2640`).
* `/format` writes files and asks no rule and makes no record (`commands.go:3616`); `/git` (2831) runs a program without a record. A path given by a reply, `/write` or the author is asked about as it is written (`commands.go:2526`, 3430, 3515, `terminal.go:1249`; a raw prefix, `config.go:478`) and cleaned when it is written (`workspace.go:103`): `./src/a` is judged by the root's rule, not that of `src/` (`helptext.go:2962` promises control "per path prefix").
* (w) "all" on an untagged block counts as yes; the permissions exec and delete are asked by nothing; a directory is judged by the rule of its parent; `git_command` runs a program with no audit event; `search_files` stops at a line over 1 MiB without saying so.

### Lines, routes and transfers

* (x) Aliases, and the models they name, are tried before routes for a typed `@name` (`terminal.go:79-87`, `564`, `728-731`; `dispatch_target.go` documents the other order), so a route with the name of such a model is never asked by that name, and `@model` always goes to the local model; after an alias a second `@name` is read, after a tag it is part of the prompt. (y) With a sticky route a `!` line is sent to the endpoint as a prompt (`terminal.go:559`; `helptext.go:748`); a line that begins with `@` and a blank goes to the local model instead (`terminal.go:559`, `routing.go:145`). A name that begins with `route:` is not tried before routes (`terminal.go:564`); the model has no such name.
* (z) A change of models by tag, or at the second look among the aliases, that fails (`terminal.go:783`, `800`), a routed turn that fails, "@x not found", a failed shell line and "No backend connected" do not count in a script's status (`terminal.go:764`; `helptext.go:182-184`). (aa) `/route rm` and `/route off` leave the sticky route set, so every prompt is refused until `/route use`; `/pipeline` uses routes even when routing is off (`pipeline.go:135`; `ROUTING.md:177`).
* (ab) A `routes.json` that is missing or cannot be read means routing off, and the next save overwrites it; routes of a removed kind are gone after any save (`route_persist.go:63`, `85`). (ac) `/attach` of an image looks at the local model's abilities also under a route.
* (ad) A body of exactly the limit is refused (`remote_http.go:103`); a body sent without its length that ends early is taken for the whole (`remote_http.go:99`), which `Body` leaves out; SFTP has no limit, no time-out and ignores its context; a file that changes while it is read over SFTP is mixed and nothing notices. (ae) A late Ctrl-C discards a routed reply that was received, and `wasCancelled` is written and read without a lock. (af) Leaving by Ctrl-D or at the end of
  the input skips mining and statistics (`terminal.go:540-543`).

### Recall and files in a prompt

* (ag) `injectOrChunk` asks on the terminal also in a `/loop` nobody watches (`terminal.go:957`), through a new buffered reader, which swallows a script's next lines.
* (ah) `Recall` drops every error, so the status of `kb_result` is always ok (`sessionlog_kb.go:194` promises "an answer of nothing or a failure"). (ai) A chunk is closed at three quarters of its size (`chunker.go:212`); (aj) "sentence" overlap is treated as "paragraph".
* (ak) A synthesis is not charged to the budget; recall stops at the first item that does not fit; observations found by substring carry no retraction flag, and their injection is logged as not retracted (`sessionlog_kb.go:14-16` says absent "is not the same as false").

### What is read back out of a log

* (al) An analysis inside a turn under a lent model logs its switch (`backend_startup.go:283`), and `turnEnd` cuts the turn at a switch (`sessionrender.go:242`): the turn is shown without its reply and is not continued from (`sessionload.go:51` "a turn counts when
  the model answered it"). `ScenesAgree` and `TurnsReadBack` are violated with `"lent"` in `Features` and room for four openings (a line, the two switches, the analysis).
* (am) `renderChunkAnalysis` ends with the request for the synthesis (`sessionrender.go:604`) and its requests are passed over when side requests are collected, so the answer to the synthesis counts as the turn's (316: "an answer to a side request is not the turn's reply"). It is
  seen when the turn then fails, and after `/read-chunks` right behind a turn, whose requests belong to that turn for the reader; the tool calls of a `/plan next` there become that turn's notes. `"after"` and `"late"`.
* (an) A turn that fails or is stopped after an answer with tool calls is shown, and continued from, with the text of that answer and not its failure (`sessionrender.go:125` "a turn that failed shows the failure"). `"late"`.
* (ao) A transcript leaves out the `/kb draft` call and keeps the replies of its passes (`draftobs_read.go:166` "a drafting run is not something the session learned"). (ap) Offers of `/learn ... concepts` outside a turn's events are in no scene. (aq) A pipeline step whose
  process was killed is rendered as "threshold not met" with confidence 0.00 (`sessionrender.go:658`).

`PROJECT.json` lists 40 hazards, each with its property. Hazards beyond these for which the code makes no promise that could be checked are in the list above: `memory_store.go:379`, `sessionlog.go:556`, `sessionlog.go:304`, `sessionfile.go:92`, `plan_cmd.go:228`, `learn_concepts.go:570`, `pipeline.go:360` (a pipeline runs on `context.Background()`).

## 7. Plan

1. A proof of the second part of `CallsAnswered`, for sessions without repeated lines and pins (the items of a log have to be followed with their turns, not only their messages), and of `ImplementsDialog`, with the filters of `Dialog`'s mapping written as folds.
2. Two processes in one workspace: the log's exclusive creation, `harvey.yaml`, `routes.json` and the manifest are all read, changed and written whole.
3. An invariant of the log of `SessionReaders`, turn by turn and analysis by analysis, from which `ScenesAgree` can be proved.
