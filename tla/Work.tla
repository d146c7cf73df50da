-------------------------------- MODULE Work --------------------------------
(***************************************************************************)
(* The commands that work without the author: /plan, whose steps run in a  *)
(* conversation of their own; /pipeline, whose files must each be answered *)
(* with confidence; and /loop, which repeats any of them until Ctrl-C.     *)
(* An answer of the model is one step; Ctrl-C, an editor open on the plan  *)
(* and a kill may come between any two.                                    *)
(***************************************************************************)
EXTENDS Naturals, Sequences, FiniteSets, SequencesExt

CONSTANTS
  Models, NoModel,      \* the models; the word for none
  Plans,                \* plans a model or the author may write: sequences of Steps
  NoPlan,               \* agents/plan.md does not exist
  Pieces,               \* what the title of a step may read that was cut short
  Pipelines,            \* lists of prompt files: sequences of Files
  Mentions,             \* what a file may mention: models by any name, and
  Routes, Unusable,     \* routes, some with an address no client can be made for
  Scores, Threshold,    \* confidence in percent: what models give, what is asked
  Hedged, Unhedged,     \* what the wording of an answer counts for
  ToolModes, Compaction,
  Loops,                \* what a loop may repeat
  Count,                \* its --count
  Happenings,           \* "full"
  MaxRounds, MaxCommands, MaxEdits, MaxKills

Steps == [title : STRING, done : BOOLEAN, model : Models \cup {NoModel}]
Files == [mention : Mentions \cup {NoModel}, readable : BOOLEAN]
Operations == {"task", "next", "chat", "pipeline", "exit"}

ASSUME WorkAssumption ==
  /\ NoModel \notin Models
  /\ Plans \subseteq Seq(Steps) /\ NoPlan \notin Seq(Steps) /\ Pieces \subseteq STRING
  /\ Pipelines \subseteq Seq(Files) \ {<<>>}
  /\ Unusable \subseteq Routes /\ Routes \subseteq Mentions
  /\ Scores \subseteq 0 .. 100 /\ {Threshold, Hedged, Unhedged} \subseteq 1 .. 100
  /\ ToolModes \subseteq BOOLEAN /\ Compaction \in BOOLEAN
  /\ Loops \subseteq Operations /\ Count \in 1 .. 100
  /\ {MaxRounds, MaxCommands, MaxEdits, MaxKills} \subseteq Nat

VARIABLES
  file,     \* agents/plan.md: NoPlan, or its steps
  agent,    \* the model in use and the one the author chose, and the history
  job,      \* what waits for an answer: see Idle
  loop,     \* the loop under way: see NoLoop
  report,   \* what the last loop said of itself, and what it did
  spent     \* commands given, edits made and kills so far

vars == <<file, agent, job, loop, report, spent>>

\* gives: the model a step gives back; tools, rounds, seen: of a step's tool
\* loop; passed: the answers of a pipeline so far, each with its file and score.
Idle == [kind |-> "none", plan |-> NoPlan, at |-> 0, gives |-> NoModel, tools |-> FALSE,
         rounds |-> 0, seen |-> FALSE, files |-> <<>>, passed |-> <<>>,
         cut |-> FALSE]
\* i: the iteration; ended: iterations that ended before Ctrl-C.
NoLoop == [phase |-> "off", what |-> "none", i |-> 0, begun |-> 0, ended |-> 0,
           completed |-> 0, interrupted |-> FALSE, failed |-> FALSE, failures |-> 0]
NoReport == [how |-> "none", completed |-> 0, begun |-> 0, ended |-> 0, failed |-> FALSE,
             failures |-> 0]

Init ==
  /\ file = NoPlan
  /\ agent \in [model : {NoModel}, chosen : {NoModel}, history : {<<>>}]
  /\ job = Idle /\ loop = NoLoop /\ report = NoReport
  /\ spent = [commands |-> 0, edits |-> 0, kills |-> 0]

----------------------------------------------------------------------------
(* How an operation waits and how it ends, typed or in a loop. *)

Await(j) ==
  /\ job' = j
  /\ loop' = [loop EXCEPT !.phase = IF @ = "off" THEN @ ELSE "running",
                          !.begun = IF loop.phase = "begin" THEN @ + 1 ELSE @]

Ends(err) ==
  /\ job' = Idle
  /\ loop' = IF loop.phase = "off" THEN loop
             ELSE [loop EXCEPT !.phase = "ended",
                    !.begun = IF loop.phase = "begin" THEN @ + 1 ELSE @,
                    !.ended = IF loop.interrupted THEN @ ELSE @ + 1,
                    !.failed = @ \/ err, !.failures = IF err THEN @ + 1 ELSE @]

\* The process dies: a fault, a kill, or a Ctrl-C that nothing watches for.
Dies ==
  /\ job' = Idle /\ loop' = NoLoop
  /\ agent' = [model |-> NoModel, chosen |-> NoModel, history |-> <<>>]

\* formatPlan: the models a step was to run on are not written back.
Formatted(p) == [i \in DOMAIN p |-> [p[i] EXCEPT !.model = NoModel]]

FirstOpen(p, i) == ~p[i].done /\ \A j \in 1 .. i - 1 : p[j].done
NextStep(p) == IF \E i \in DOMAIN p : FirstOpen(p, i)
               THEN CHOOSE i \in DOMAIN p : FirstOpen(p, i)
               ELSE 0

\* MarkDone, in the plan as it was read before the step.
Marked == [job.plan EXCEPT ![job.at].done = TRUE]

\* A plan may be about to be saved: the answer may be one, or the step has run.
Saving ==
  CASE job.kind = "unsaved" -> {Formatted(Marked)}
    [] job.kind = "planning" \/ (job.kind = "chat" /\ job.tools /\ ~job.cut) -> Plans \ {<<>>}
    [] OTHER -> {}

\* What a plan reads like whose writing broke off: its beginning, the last step of it
\* perhaps with a part of its title, with which the model it was to run on may go.
TornStep(step) == [title : Pieces, done : {step.done}, model : {NoModel, step.model}]
CutShort(p) ==
  {SubSeq(p, 1, n) : n \in 0 .. Len(p)} \cup
  UNION {{Append(SubSeq(p, 1, n - 1), step) : step \in TornStep(p[n])} : n \in DOMAIN p}

\* os.WriteFile empties the file first, so a write that fails may leave it cut short; err
\* is what the command makes of that.
SavePlan(err) ==
  \E p \in Saving :
    \/ file' = p /\ Ends(FALSE)
    \/ "full" \in Happenings /\ (UNCHANGED file \/ file' \in CutShort(p)) /\ Ends(err)

----------------------------------------------------------------------------
(* /plan TASK *)

PlanTask ==
  /\ IF agent.model = NoModel THEN Ends(TRUE)
     ELSE Await([Idle EXCEPT !.kind = "planning"])
  /\ UNCHANGED <<file, agent>>

\* PlanFromLLMResponse: an answer without a checklist saves nothing and is no error.
PlanAnswer ==
  /\ job.kind = "planning"
  /\ SavePlan(TRUE) \/ \E err \in BOOLEAN : Ends(err) /\ UNCHANGED file
  /\ UNCHANGED <<agent, report, spent>>

(* /plan next *)

\* A step's model that is not found, or not reached, leaves the model in use. A file with
\* no step left is a plan while the line of its goal is there (parsePlan).
PlanNext ==
  /\ IF agent.model = NoModel \/ file = NoPlan THEN Ends(TRUE) /\ UNCHANGED agent
     ELSE IF NextStep(file) = 0
     THEN \E goal \in {TRUE} \cup {file # <<>>} : Ends(~goal) /\ UNCHANGED agent
     ELSE \E tools \in ToolModes, given \in {NoModel, agent.model} :
            /\ Await([Idle EXCEPT !.kind = "step", !.plan = file, !.at = NextStep(file),
                               !.tools = tools, !.gives = given])
            /\ given # NoModel => file[NextStep(file)].model # NoModel
            /\ agent' = IF given = NoModel THEN agent
                        ELSE [agent EXCEPT !.model = file[NextStep(file)].model]
  /\ UNCHANGED file

\* A round of the step's tool loop: a call may fail, and may write the plan itself.
Round(fails, content) ==
  /\ job.kind = "step" /\ job.tools /\ job.rounds < MaxRounds
  /\ job' = [job EXCEPT !.rounds = @ + 1,
                        !.seen = @ \/ (fails /\ (content \/ ~Compaction))]

StepRound(fails, content) ==
  Round(fails, content) /\ UNCHANGED <<file, agent, loop, report, spent>>

StepEdits(p) ==
  /\ spent.edits < MaxEdits
  /\ \/ file' = p /\ Round(FALSE, FALSE)
     \/ "full" \in Happenings /\ file' \in CutShort(p) /\ Round(TRUE, FALSE)
  /\ spent' = [spent EXCEPT !.edits = @ + 1]
  /\ UNCHANGED <<agent, loop, report>>

\* Variant: a step that fails keeps the model it was lent.
RestoredUnlessFailed ==
  IF job.gives = NoModel \/ job.seen THEN agent ELSE [agent EXCEPT !.model = job.gives]

Restored == IF job.gives = NoModel THEN agent ELSE [agent EXCEPT !.model = job.gives]

StepFails ==
  /\ job.kind = "step"
  /\ agent' = Restored
  /\ Ends(TRUE)
  /\ UNCHANGED <<file, report, spent>>

\* Variant: an error is not looked for.
HadErrorsNever == FALSE

\* planStepHadErrors: a call whose result the tool loop compacted is not seen.
HadErrors == job.seen

StepAnswer ==
  /\ job.kind = "step"
  /\ agent' = Restored
  /\ IF HadErrors THEN Ends(TRUE)
     ELSE /\ job' = [job EXCEPT !.kind = "unsaved", !.gives = NoModel]
          /\ UNCHANGED loop
  /\ UNCHANGED <<file, report, spent>>

SaveStep ==
  /\ job.kind = "unsaved"
  /\ SavePlan(TRUE)
  /\ UNCHANGED <<agent, report, spent>>

(* /plan clear, and an editor. *)

PlanClear ==
  /\ file' = NoPlan
  /\ UNCHANGED <<agent, job, loop>>

\* The author writes another plan in an editor, while a step runs or not.
EditPlan(p) ==
  /\ spent.edits < MaxEdits
  /\ file' = p
  /\ spent' = [spent EXCEPT !.edits = @ + 1]
  /\ UNCHANGED <<agent, job, loop, report>>

----------------------------------------------------------------------------
(* A line of chat.  A skill its words loaded may have asked for a plan. *)

Chat(skill) ==
  /\ IF agent.model # NoModel THEN Await([Idle EXCEPT !.kind = "chat", !.tools = skill])
                                 /\ UNCHANGED <<file, agent>>
     ELSE IF loop.phase = "off" THEN Ends(TRUE) /\ UNCHANGED <<file, agent>>
     ELSE Dies /\ UNCHANGED file   \* the turn is begun without a client

ChatAnswer ==
  /\ job.kind = "chat"
  /\ SavePlan(FALSE) \/ \E err \in BOOLEAN : Ends(err) /\ UNCHANGED file
  /\ UNCHANGED <<agent, report, spent>>

(* /pipeline *)

\* resolvePipelineClient: on the server in use, any word names a model.
Resolves(f) ==
  \/ f.mention = NoModel
  \/ f.mention \in Routes \ Unusable
  \/ f.mention \notin Routes /\ agent.model # NoModel

\* The call of a file that mentions nothing, with no model in use.
Faults(f) == f.mention = NoModel /\ agent.model = NoModel

Calls(files, passed) ==
  IF Faults(files[Len(passed) + 1]) THEN Dies /\ UNCHANGED file
  ELSE /\ Await([Idle EXCEPT !.kind = "pipeline", !.files = files, !.passed = passed])
       /\ UNCHANGED <<file, agent>>

Pipeline(files) ==
  IF \E i \in DOMAIN files : ~files[i].readable \/ ~Resolves(files[i])
  THEN Ends(TRUE) /\ UNCHANGED <<file, agent>>
  ELSE Calls(files, <<>>)

\* The end of a step: below the threshold nothing joins the history.
Passes(score) == score >= Threshold

Judged(score) ==
  LET n == Len(job.passed) + 1
      passed == Append(job.passed, [file |-> job.files[n], score |-> score])
  IN IF ~Passes(score) THEN Ends(TRUE) /\ UNCHANGED <<file, agent>>
     ELSE IF n < Len(job.files) THEN Calls(job.files, passed)
     ELSE /\ agent' = [agent EXCEPT !.history = Append(@, passed)]
          /\ Ends(FALSE)
          /\ UNCHANGED file

PipelineAnswer ==
  /\ job.kind = "pipeline"
  /\ \/ Ends(TRUE) /\ UNCHANGED <<file, agent>>
     \/ \E score \in Scores : Judged(score)
     \/ job' = [job EXCEPT !.kind = "rating"] /\ UNCHANGED <<file, agent, loop>>
  /\ UNCHANGED <<report, spent>>

\* extractConfidence: what the model says when asked, else how the answer was worded.
RatingAnswer ==
  /\ job.kind = "rating"
  /\ \E score \in Scores \cup {Hedged, Unhedged} : Judged(score)
  /\ UNCHANGED <<report, spent>>

----------------------------------------------------------------------------
(* /loop *)

Begin(op) ==
  \/ op = "task" /\ PlanTask
  \/ op = "next" /\ PlanNext
  \/ op = "chat" /\ \E skill \in {s \in BOOLEAN : s => loop.phase = "off"} : Chat(skill)
  \/ op = "pipeline" /\ \E files \in Pipelines : Pipeline(files)

LoopStart(what) ==
  /\ loop' = [NoLoop EXCEPT !.phase = "begin", !.what = what, !.i = 1]
  /\ UNCHANGED <<file, agent, job>>

LoopBegins ==
  /\ loop.phase = "begin" /\ loop.what # "exit" /\ ~loop.interrupted
  /\ Begin(loop.what)
  /\ UNCHANGED <<report, spent>>

LoopSays(how, completed) ==
  /\ loop' = NoLoop
  /\ report' = [how |-> how, completed |-> completed, begun |-> loop.begun, ended |-> loop.ended,
                 failed |-> loop.failed, failures |-> loop.failures]
  /\ UNCHANGED <<file, agent, job, spent>>

LoopStops ==
  loop.phase = "begin" /\ loop.what = "exit" /\ ~loop.interrupted /\ LoopSays("stopped", loop.completed)

LoopCancelled ==
  loop.phase \in {"begin", "ended", "pause"} /\ loop.interrupted /\ LoopSays("cancelled", loop.completed)

\* Variant: Ctrl-C is not looked for after the last iteration.
LoopFinishesAnyway == loop.phase = "ended" /\ loop.i = Count /\ LoopSays("finished", loop.i)
\* Variant: one iteration too many is awaited.
LoopFinishesPast ==
  loop.phase = "ended" /\ ~loop.interrupted /\ loop.i > Count /\ LoopSays("finished", loop.i)

LoopFinishes ==
  loop.phase = "ended" /\ ~loop.interrupted /\ loop.i = Count /\ LoopSays("finished", loop.i)

LoopPauses ==
  /\ loop.phase = "ended" /\ ~loop.interrupted /\ loop.i < Count
  /\ loop' = [loop EXCEPT !.phase = "pause", !.completed = loop.i]
  /\ UNCHANGED <<file, agent, job, report, spent>>

\* The timer and Ctrl-C may both be ready: either is taken.
TimerFires ==
  /\ loop.phase = "pause"
  /\ loop' = [loop EXCEPT !.phase = "begin", !.i = @ + 1]
  /\ UNCHANGED <<file, agent, job, report, spent>>

----------------------------------------------------------------------------
(* Ctrl-C: a loop and a typed line of chat watch for one; a second, or one that
   nothing watches for, ends the process. *)

Watched == IF loop.phase = "off" THEN job.kind = "chat" /\ ~job.cut ELSE ~loop.interrupted

Interrupt ==
  /\ Watched
  /\ IF loop.phase = "off" THEN job' = [job EXCEPT !.cut = TRUE] /\ UNCHANGED loop
     ELSE loop' = [loop EXCEPT !.interrupted = TRUE] /\ UNCHANGED job
  /\ UNCHANGED <<file, agent, report, spent>>

\* A kill may also come while a plan is written.
Killed ==
  /\ \/ ~Watched /\ (job # Idle \/ loop.phase # "off") /\ UNCHANGED file
     \/ \E p \in Saving : file' \in CutShort(p)
  /\ spent.kills < MaxKills
  /\ Dies
  /\ UNCHANGED report
  /\ spent' = [spent EXCEPT !.kills = @ + 1]

ModelUse(m) ==
  /\ agent' = [agent EXCEPT !.model = m, !.chosen = m]
  /\ UNCHANGED <<file, job, loop>>

Typed ==
  /\ job = Idle /\ loop.phase = "off"
  /\ spent.commands < MaxCommands
  /\ \/ \E op \in Operations : Begin(op)
     \/ \E what \in Loops : LoopStart(what)
     \/ \E m \in Models : ModelUse(m)
     \/ PlanClear
  /\ report' = NoReport
  /\ spent' = [spent EXCEPT !.commands = @ + 1]

Answers ==
  PlanAnswer \/ StepFails \/ StepAnswer \/ SaveStep \/ ChatAnswer \/ PipelineAnswer \/ RatingAnswer

LoopSteps ==
  LoopBegins \/ LoopStops \/ LoopCancelled \/ LoopFinishes \/ LoopPauses \/ TimerFires

Next ==
  \/ Typed
  \/ Answers
  \/ \E fails, content \in BOOLEAN : StepRound(fails, content)
  \/ \E p \in Plans : StepEdits(p) \/ EditPlan(p)
  \/ LoopSteps
  \/ Interrupt
  \/ Killed

\* A server answers or its connection breaks, and timers fire.
Spec == Init /\ [][Next]_vars /\ WF_vars(Answers) /\ WF_vars(LoopSteps)
----------------------------------------------------------------------------
(* Properties *)

\* /plan keeps its promise (Checklist): only the first open step of the plan the step
\* was begun from is marked done, one at a time, and only after it ran with no failed
\* call in sight, whatever loops, edits and failures come between. Where a full disk or
\* a kill breaks off the writing of a plan (plan.go:202), what is left is its beginning:
\* steps and their marks may be lost, and none is marked beyond what was to be written
\* (cmdPlanNext, plan_cmd.go).
Titles(p) == IF p = NoPlan THEN <<>>
             ELSE [i \in DOMAIN p |-> [title |-> p[i].title, done |-> p[i].done]]
Tasks == INSTANCE Checklist WITH
  Plans <- {Titles(p) : p \in Plans},
  steps <- Titles(file),
  read <- IF job.kind \in {"step", "unsaved"} THEN Titles(job.plan) ELSE <<>>,
  clean <- job.kind = "unsaved" /\ ~job.seen
ImplementsChecklist == Tasks!Spec

\* The model a step borrowed is given back however the step ends: at the prompt, in a
\* loop's pause and in every other command the author's model is in use (cmdPlanNext).
ModelGivenBack == job.kind # "step" => agent.model = agent.chosen

\* What a loop says agrees with what it did: it finished only after Count iterations,
\* says at most one fewer than it began when it was cut, never counts one that ended
\* after Ctrl-C, and returns a failure exactly when an iteration failed (cmdLoop).
LoopSaysWhatItDid ==
  report.how # "none" =>
    /\ report.completed <= report.ended
    /\ report.begun - report.completed \in (IF report.how = "cancelled" THEN {0, 1} ELSE {0})
    /\ report.how = "finished" => report.begun = Count
    /\ report.failed <=> report.failures > 0

\* Every command and every loop comes back to the prompt.
EveryCommandEnds ==
  (job # Idle \/ loop.phase # "off") ~> (job = Idle /\ loop.phase = "off")

=============================================================================
