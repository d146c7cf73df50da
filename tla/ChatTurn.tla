------------------------------ MODULE ChatTurn ------------------------------
(***************************************************************************)
(* The chat pipeline (runChatTurn in terminal.go, RunToolLoop in           *)
(* tool_executor.go) and the view of the history that the session log      *)
(* gives at the same time (PromptRebuild).                                 *)
(*                                                                         *)
(* The program runs in one goroutine; what happens between two answers of  *)
(* the model is one step.  The SIGINT watcher is the other actor: Cancel   *)
(* may come at any time while an answer is awaited.                        *)
(***************************************************************************)
EXTENDS PromptRebuild

CONSTANTS
  Setups,         \* what a session may be started with: see setup
  ToolModes,      \* whether structured tool calls are on: TRUE, FALSE, or both, turn by turn
  WarnAt,         \* percent of the limit at which older turns are summarised
  KeepTurns,      \* turns a summary leaves verbatim
  MaxIterations   \* rounds of one tool loop

\* What the author may do between turns.
Commands == {"clear", "pin", "unpin", "read", "fold", "switch"}
\* What may happen in a turn.
Happenings == {"repeat", "memory", "cantread", "summary", "shrink", "parallel", "prose",
               "selfedit", "padded", "preamble", "exceeded", "latecancel", "cantread after tools"}

ASSUME SetupsOK ==
  /\ ToolModes \in SUBSET BOOLEAN \ {{}}
  /\ {WarnAt, KeepTurns} \subseteq Nat /\ MaxIterations \in Nat \ {0}
  /\ Setups \subseteq [features : SUBSET (Commands \cup Happenings), compaction : BOOLEAN,
                       limit : Nat, window : Nat, maxTurns : Nat, maxCommands : Nat]

\* features: what the model, the author and the program may do.
\* compaction: config tool_result_compaction.
\* limit: the model's prompt limit at the start, 0 unknown.
\* window: the share of its context window, used when the limit is unknown.
\* maxTurns, maxCommands: bounds on the turns and commands of the session.
VARIABLES
  setup,      \* what the session was started with
  agent,      \* the conversation: see NewAgent
  call,       \* the model call awaited: see NoCall
  sent,       \* the prompt sent with it
  ctx,        \* the turn's context: "live", "late" (cancelled while waiting) or
              \* "dead" (cancelled before the call)
  commands    \* commands given so far

chatVars == <<setup, agent, call, sent, ctx, commands>>

SystemPrompt(v) == Msg("system", "prompt", v)

\* system: the version of the system prompt that fits the model in use.
\* pending: recalled memories are still to be injected.
\* faithful: every turn request so far was rebuilt exactly from the log.
NewAgent ==
  [history |-> <<SystemPrompt(1)>>, rb |-> SetSystem(NewRebuilder, SystemPrompt(1)),
   system |-> 1, logSystem |-> 1, limit |-> setup.limit, pins |-> <<>>,
   turn |-> 0, retryAfter |-> 0, pending |-> TRUE, faithful |-> TRUE]

\* form: what the program waits for; "loop" is a call of the tool loop, "shrunk" a
\* retry on a smaller prompt, "fallback" the call without tools.
\* retried: the turn is being retried with the file's content.
\* said: answers with tool calls had text too, which the reply will begin with.
\* base: the length of the history when the turn began.
\* round: the first message of the newest round.
NoCall ==
  [form |-> "none", tools |-> FALSE, question |-> 0, retried |-> FALSE, hadTools |-> FALSE,
   said |-> FALSE, base |-> 0, iter |-> 0, round |-> 0, try |-> 0]

ChatInit ==
  /\ setup \in Setups
  /\ agent = NewAgent
  /\ call = NoCall
  /\ sent = <<>>
  /\ ctx = "live"
  /\ commands = 0

-----------------------------------------------------------------------------
(* The history and the log (harvey.go, sessionlog_agent.go).               *)

Log(a, e) == [a EXCEPT !.rb = Apply(@, e)]
LogAll(a, es) == [a EXCEPT !.rb = ApplyAll(@, es)]

\* logRewrite: nothing is written if the history did not change.
SetHistory(a, h) ==
  IF h = a.history THEN a
  ELSE [Log(a, RewriteEvent(RewriteOps(a.history, h))) EXCEPT !.history = h]

AddPrompt(a, via, m) ==
  [Log(a, InjectionEvent(m, via)) EXCEPT !.history = Append(@, m)]

\* Variant: the rewrite is not logged.
DropLastUnlogged(a) ==
  IF a.history = <<>> THEN a ELSE [a EXCEPT !.history = Front(@)]

\* Variant: the message of a failed turn stays.
DropNothing(a) == a

DropLastMessage(a) ==
  IF a.history = <<>> THEN a ELSE SetHistory(a, Front(a.history))

\* The model_request event.  The text of the system prompt goes with it when its
\* version is not the last one logged.
LogModelRequest(a, prompt) ==
  LET new == prompt # <<>> /\ prompt[1].role = "system" /\ prompt[1].n # a.logSystem
      logged == Log(a, RequestEvent(TRUE, IF new THEN <<prompt[1]>> ELSE <<>>))
  IN [logged EXCEPT !.logSystem = IF new THEN prompt[1].n ELSE @,
                    !.faithful = @ /\ Messages(logged.rb.items) = prompt]

AdhocCall == <<RequestEvent(FALSE, <<>>), ResponseEvent(FALSE, Msg("assistant", "reply", 0))>>

-----------------------------------------------------------------------------
(* Choosing the prompt (prompt_fit.go, assemble.go, context_estimator.go). *)

RefreshSystemPrompt(a) ==
  IF a.history # <<>> /\ a.history[1].role = "system"
    THEN [a EXCEPT !.history[1] = SystemPrompt(a.system)] ELSE a

AssembleLimit(a) == IF a.limit > 0 THEN a.limit ELSE setup.window

LogReproduces(a) == Messages(RebuildItems(a.rb)) = a.history

AssembleForTurn(a) ==
  IF AssembleLimit(a) > 0 /\ LogReproduces(a)
    THEN SetHistory(a, Messages(Assemble(RebuildItems(a.rb), AssembleLimit(a))))
    ELSE SetHistory(a, TrimMessages(a.history, a.limit))

OverBudget(a) == a.limit > 0 /\ Len(a.history) >= a.limit

\* The sizes a failed prompt is retried at, in percent (promptRetryPercents).
RetryPercents == <<70, 45, 25>>
RetryPrompt(a, k) == TrimMessages(a.history, (Len(a.history) * RetryPercents[k]) \div 100)
SmallerRetries(a, prompt, from) ==
  {k \in from .. Len(RetryPercents) : Len(RetryPrompt(a, k)) < Len(prompt)}

LearnPromptLimit(a, n) == IF a.limit = 0 \/ a.limit > n THEN [a EXCEPT !.limit = n] ELSE a

-----------------------------------------------------------------------------
(* The rolling summary (assemble_summary.go).                              *)

SummaryBackoffTurns == 3

OldTurns(items) ==
  LET last == Max({0} \cup {items[i].group : i \in {j \in DOMAIN items : items[j].kind = "turn"}})
  IN last - Max({KeepTurns, 1}) + 1

Summarised(it, cut) == it.kind = "summary" \/ (it.kind = "turn" /\ it.group < cut)

DueForSummary(a) ==
  LET items == RebuildItems(a.rb)
      cut == OldTurns(items)
  IN /\ "summary" \in setup.features
     /\ AssembleLimit(a) > 0
     /\ a.turn >= a.retryAfter
     /\ LogReproduces(a)
     /\ 100 * Len(items) >= WarnAt * AssembleLimit(a)
     /\ \E i \in DOMAIN items : items[i].kind = "turn" /\ items[i].group < cut

\* The summary is asked for in an ad-hoc call, and takes the place of the older
\* turns and summaries.
SummarizeForNextTurn(a) ==
  LET items == RebuildItems(a.rb)
      cut == OldTurns(items)
      rest == FoldLeft(LAMBDA kept, it : IF Summarised(it, cut) THEN kept ELSE Append(kept, it), <<>>, items)
      summary == Item(Msg("user", "summary", a.turn), "summary", 0)
  IN SetHistory(LogAll(a, AdhocCall), Messages(Assemble(<<summary>> \o rest, 0)))

SummaryFailed(a) ==
  [LogAll(a, AdhocCall \o <<OtherEvent>>) EXCEPT !.retryAfter = a.turn + SummaryBackoffTurns]

-----------------------------------------------------------------------------
(* Tool calls (tool_executor.go, builtin_tools.go).                        *)

CanCompact(h, i) == setup.compaction /\ i > 0 /\ i <= Len(h)
LogCompacted(a, h, i) == IF CanCompact(h, i) THEN Log(a, RoundCompacted) ELSE a
Compacted(h, i) == IF CanCompact(h, i) THEN CompactToolRound(h, i) ELSE h

\* Each call is logged, run and its result logged before the next one.
ExecuteToolCalls(a, results) ==
  FoldLeft(LAMBDA b, m : LogAll(b, <<ToolCallEvent, ToolResultEvent(m)>>), a, results)

\* The summary_context tool with span "all".  Its own model call is made in the
\* turn's context, and so is logged as a call of the turn.
SummaryRequest == <<Msg("system", "summarise", 3), Msg("user", "summarise", 0)>>

SummaryContext(a) ==
  LET asked == LogModelRequest(Log(a, ToolCallEvent), SummaryRequest)
      answered == Log(asked, ResponseEvent(TRUE, Msg("assistant", "summary", a.turn)))
  IN SetHistory(answered, <<a.history[1], Msg("system", "summary", a.turn)>>)

-----------------------------------------------------------------------------
(* What the program does next: it asks the model again, or the turn ends.  *)

Await(a, prompt, c) ==
  [agent |-> LogModelRequest(a, prompt), sent |-> prompt, call |-> c,
   ctx |-> IF ctx = "live" THEN "live" ELSE "dead"]

EndTurn(a) == [agent |-> a, sent |-> <<>>, call |-> NoCall, ctx |-> "live"]

Continue(outcomes) ==
  /\ \E o \in outcomes :
       agent' = o.agent /\ sent' = o.sent /\ call' = o.call /\ ctx' = o.ctx
  /\ UNCHANGED <<setup, commands>>

FirstForm(structured) == IF structured THEN "loop" ELSE "plain"

-----------------------------------------------------------------------------
(* A turn begins.                                                          *)

Question(q) == Msg("user", "question", q)

\* The line typed, and what goes before it.
BeginTurn(a, q, recalled) ==
  LET typed == RefreshSystemPrompt(Log([a EXCEPT !.turn = @ + 1, !.pending = FALSE], OtherEvent))
      informed == IF recalled THEN AddPrompt(typed, "memory", Msg("user", "knowledge", 0)) ELSE typed
  IN AssembleForTurn(AddPrompt(informed, "turn", Question(q)))

Questions == IF "repeat" \in setup.features THEN 1 .. 2 ELSE {agent.turn + 1}

MayRecall == IF agent.pending /\ "memory" \in setup.features THEN BOOLEAN ELSE {FALSE}

SendTurn(a, q, structured) ==
  IF OverBudget(a) THEN EndTurn(DropLastMessage(a))
  ELSE Await(a, a.history,
             [NoCall EXCEPT !.form = FirstForm(structured), !.tools = structured, !.question = q,
                            !.base = Len(a.history)])

FirstRequests ==
  {SendTurn(BeginTurn(agent, q, recalled), q, structured) :
     q \in Questions, recalled \in MayRecall, structured \in ToolModes}

Ask ==
  /\ call.form = "none"
  /\ agent.turn < setup.maxTurns
  /\ Continue(FirstRequests)

-----------------------------------------------------------------------------
(* The model answers with tool calls.                                      *)

Outputs == {"output", "file"}

\* The loop asks again without tools after its last round, unless it was
\* cancelled or this was already the retry.
LoopExceeded(a) ==
  IF ctx = "live" /\ ~call.retried
    THEN Await(a, a.history, [call EXCEPT !.form = "fallback", !.said = FALSE])
    ELSE EndTurn(DropLastMessage(a))

\* Variant: the last result is not given back to the model.
AfterRoundLosingResult(ran, results, said) ==
  LET work == sent \o <<ToolCalls(Len(results))>> \o Front(results)
  IN IF call.iter + 1 = MaxIterations THEN LoopExceeded(ran)
     ELSE Await(LogCompacted(ran, work, call.round), Compacted(work, call.round),
                [call EXCEPT !.iter = @ + 1, !.round = Len(sent) + 1, !.said = @ \/ said])

\* One round: the calls, their results, and the next call of the loop.  The round
\* before it has been read by the model and is compacted.
AfterRound(ran, results, said) ==
  LET work == sent \o <<ToolCalls(Len(results))>> \o results
  IN IF call.iter + 1 = MaxIterations THEN LoopExceeded(ran)
     ELSE Await(LogCompacted(ran, work, call.round), Compacted(work, call.round),
                [call EXCEPT !.iter = @ + 1, !.round = Len(sent) + 1, !.said = @ \/ said])

Results(n, text) == [i \in 1 .. n |-> ToolResult(i - 1, text)]
MayCall == 1 .. (IF "parallel" \in setup.features THEN 2 ELSE 1)
MaySay == IF "preamble" \in setup.features THEN BOOLEAN ELSE {FALSE}

AfterRounds(answered) ==
  {AfterRound(ExecuteToolCalls(answered, Results(n, text)), Results(n, text), said) :
     n \in MayCall, text \in Outputs, said \in MaySay}

AnswerToolCalls ==
  /\ call.form = "loop"
  /\ ctx # "dead"
  /\ call.iter + 1 < MaxIterations \/ "exceeded" \in setup.features
  /\ LET answered == Log(agent, ResponseEvent(TRUE, Msg("assistant", "", 0)))
     IN \/ Continue(AfterRounds(answered))
        \/ /\ "selfedit" \in setup.features /\ Len(agent.history) >= 3
           /\ Continue({AfterRound(Log(SummaryContext(answered), ToolResultEvent(m)), <<m>>, FALSE) :
                          m \in {ToolResult(0, "output")}})

-----------------------------------------------------------------------------
(* The model answers with text.                                            *)

\* The history as the call leaves it: the tool loop's list, the smaller prompt
\* that worked, or what it was.
AfterText(a) ==
  CASE call.form = "loop"   -> [LogCompacted(a, sent, call.round) EXCEPT
                                  !.history = Compacted(sent, call.round)]
    [] call.form = "shrunk" -> LearnPromptLimit(SetHistory(a, sent), Len(sent))
    [] OTHER                -> a

\* The reply joins the history; a correction follows if it named unknown tools.
Conclude(a, reply, correction) ==
  LET said == [a EXCEPT !.history = Append(@, reply)]
      told == IF correction THEN AddPrompt(said, "correction", Msg("user", "correction", 0)) ELSE said
  IN IF ~DueForSummary(told) THEN {EndTurn(told)}
     ELSE {EndTurn(SummarizeForNextTurn(told)), EndTurn(SummaryFailed(told))}

\* The loop's context was cancelled after the answer was complete.
CancelledLate == ctx # "live" /\ ~call.retried /\ call.form \in {"loop", "plain"}

RetryWithFile(a) ==
  LET b == AddPrompt(DropLastMessage(a), "retry", Msg("user", "question with file", call.question))
  IN Await(b, b.history,
           [NoCall EXCEPT !.form = FirstForm(call.tools), !.tools = call.tools,
                          !.question = call.question, !.retried = TRUE,
                          !.base = call.base, !.hadTools = Len(a.history) > call.base])

ReplyTexts ==
  {"reply"} \cup (IF "padded" \in setup.features THEN {" reply"} ELSE {})
            \cup (IF "cantread" \in setup.features THEN {"cannot read"} ELSE {})
Replies == IF "repeat" \in setup.features THEN 1 .. 2 ELSE {call.question}

\* One buffer takes the text of every answer of a tool loop.
WholeReply(m) == IF call.said /\ m.text = "reply" THEN [m EXCEPT !.text = "more reply"] ELSE m

RanTools(a) == call.hadTools \/ (call.form # "shrunk" /\ Len(a.history) > call.base)

\* What happens after the reply, where the reply and its call allow it.
MayRetry(a, text) ==
  /\ text = "cannot read" /\ ~call.retried
  /\ RanTools(a) => "cantread after tools" \in setup.features

\* A call written in the reply, as JSON or between Apertus's marks: it is run, and if
\* there is no such tool the model is told so.
TryExecuteProseToolCalls(a, reply) ==
  IF "prose" \notin setup.features \/ RanTools(a) THEN {}
  ELSE UNION {Conclude(ExecuteToolCalls(a, <<ToolResult(0, "output")>>), reply, unknown) :
                unknown \in BOOLEAN}

AfterReply(a, reply) ==
  IF CancelledLate
    THEN IF RanTools(a) /\ "latecancel" \notin setup.features THEN {} ELSE {EndTurn(DropLastMessage(a))}
  ELSE Conclude(a, reply, FALSE)
       \cup (IF MayRetry(a, reply.text) THEN {RetryWithFile(a)} ELSE {})
       \cup TryExecuteProseToolCalls(a, reply)

AnswerText ==
  /\ call.form # "none"
  /\ ctx # "dead" \/ call.form = "fallback"
  /\ Continue(UNION {AfterReply(AfterText(Log(agent, ResponseEvent(TRUE, m))), WholeReply(m)) :
                       m \in {Msg("assistant", text, n) : text \in ReplyTexts, n \in Replies}})

-----------------------------------------------------------------------------
(* The call fails, or is cancelled.                                        *)

\* A failure that looks like an oversize prompt is retried on smaller ones.
MayRetrySmaller ==
  /\ "shrink" \in setup.features
  /\ ctx = "live" /\ ~call.retried /\ call.form \in {"plain", "shrunk"}

\* Variant: only the size tried last is not tried again.
RetryOtherSize(a) ==
  LET smaller == SmallerRetries(a, a.history, 1) \ {call.try}
      k == Min(smaller)
  IN IF ~MayRetrySmaller \/ smaller = {} THEN {}
     ELSE {Await(a, RetryPrompt(a, k), [call EXCEPT !.form = "shrunk", !.try = k])}

RetrySmaller(a) ==
  LET smaller == SmallerRetries(a, sent, call.try + 1)
      k == Min(smaller)
  IN IF ~MayRetrySmaller \/ smaller = {} THEN {}
     ELSE {Await(a, RetryPrompt(a, k), [call EXCEPT !.form = "shrunk", !.try = k])}

CallFails ==
  /\ call.form # "none"
  /\ Continue(UNION {{EndTurn(DropLastMessage(a))} \cup RetrySmaller(a) :
                       a \in {Log(agent, ResponseEvent(FALSE, Msg("assistant", "", 0)))}})

\* Ctrl-C.  It does not end the fallback call, which has a context of its own.
Cancel ==
  /\ call.form # "none"
  /\ ctx = "live"
  /\ ctx' = "late"
  /\ UNCHANGED <<setup, agent, call, sent, commands>>

-----------------------------------------------------------------------------
(* Commands between turns.                                                 *)

PinMessage(p) == Msg("user", "pinned", p)

\* Variant: the pins are not put back.
ClearWithoutPins(a) ==
  [SetHistory(a, <<SystemPrompt(a.system)>>) EXCEPT !.pending = TRUE]

ClearHistory(a) ==
  FoldLeft(LAMBDA b, p : AddPrompt(b, "pinned", PinMessage(p)),
           [SetHistory(a, <<SystemPrompt(a.system)>>) EXCEPT !.pending = TRUE],
           a.pins)

\* pinShare: a quarter of the limit; none while the limit is unknown, or under four.
PinLimit(a) == AssembleLimit(a) \div 4

\* What /pin may be given: a text, an event or a kb row. One that is not found, or has
\* no text, changes nothing.
PinTargets == 1 .. 2

\* cmdPin: a pin past the limit is refused.
MayPin(a) == PinLimit(a) > 0 => Len(a.pins) + 1 <= PinLimit(a)

AddPin(a, p) ==
  AddPrompt([Log(a, OtherEvent) EXCEPT !.pins = Append(@, p)], "pinned", PinMessage(p))

\* Variant: taking the message out is not logged.
RemovePinUnlogged(a, i) ==
  LET unpinned == RemoveFirst(a.history, PinMessage(a.pins[i]))
  IN Log([a EXCEPT !.pins = RemoveAt(@, i), !.history = unpinned], OtherEvent)

RemovePin(a, i) ==
  LET unpinned == RemoveFirst(a.history, PinMessage(a.pins[i]))
  IN Log(SetHistory([a EXCEPT !.pins = RemoveAt(@, i)], unpinned), OtherEvent)

\* A line is sent to a named route.
AskRoute(a, answer) ==
  LogAll([a EXCEPT !.turn = @ + 1], <<OtherEvent, RequestEvent(FALSE, <<>>), answer>>)

RouteFails(a) == AskRoute(a, ResponseEvent(FALSE, Msg("assistant", "", 0)))

\* The line and its reply join the history without a turn.
FoldBackTurn(a) ==
  LET reply == Msg("assistant", "reply", a.turn + 1)
      asked == AskRoute(a, ResponseEvent(FALSE, reply))
  IN AddPrompt(AddPrompt(asked, "fold", Msg("user", "routed", a.turn + 1)), "fold", reply)

Command(c, a) ==
  /\ c \in setup.features
  /\ call.form = "none"
  /\ commands < setup.maxCommands
  /\ \E b \in {a} : agent' = b
  /\ commands' = commands + 1
  /\ UNCHANGED <<setup, call, sent, ctx>>

GiveCommand ==
  \/ Command("clear", ClearHistory(agent))
  \/ Command("read", AddPrompt(agent, "read", Msg("user", "read", 0)))
  \/ Command("fold", FoldBackTurn(agent))
  \/ Command("fold", RouteFails(agent))
  \/ Command("switch", [agent EXCEPT !.system = 3 - @])
  \/ MayPin(agent) /\ \E p \in PinTargets : Command("pin", AddPin(agent, p))
  \/ \E i \in DOMAIN agent.pins : Command("unpin", RemovePin(agent, i))

-----------------------------------------------------------------------------

ModelAnswers == AnswerToolCalls \/ AnswerText \/ CallFails

ChatNext == Ask \/ ModelAnswers \/ Cancel \/ GiveCommand

\* The HTTP client returns, with an answer or an error: WF_chatVars(ModelAnswers), with
\* its ENABLED written out, since an awaited call may always fail.
Fairness == []<>(call.form = "none") \/ []<><<ModelAnswers>>_chatVars

ChatSpec == ChatInit /\ [][ChatNext]_chatVars /\ Fairness

-----------------------------------------------------------------------------
(* Properties.                                                             *)

Items == [msg : Message, kind : ItemKinds, group : Nat]

\* Every turn request's prompt is the list that replaying the log up to it gives
\* (promptrebuild.go: "the rebuilt list must match it").
RequestsRebuilt == agent.faithful

\* Between turns the log reproduces the whole history, but for a system prompt
\* that was refreshed and not sent yet.  The assembler and the rolling summary
\* work only if it does.
LogKeepsHistory ==
  call.form = "none" => Tail(Messages(RebuildItems(agent.rb))) = Tail(agent.history)

\* No prompt has a tool call without its results right after it, in the order of the calls.
CallsHaveResults ==
  \A i \in DOMAIN sent : \A k \in 1 .. sent[i].calls :
    i + k \in DOMAIN sent /\ sent[i + k].role = "tool" /\ sent[i + k].n = k - 1

\* No prompt has a tool result that follows neither a call nor another result.
ResultsHaveCalls ==
  \A i \in DOMAIN sent :
    sent[i].role = "tool" => i > 1 /\ sent[i - 1].role \in {"assistant", "tool"}

\* Both: a server refuses a prompt in which calls and results do not match.
CallsAnswered == CallsHaveResults /\ ResultsHaveCalls

\* What the author pinned is in every prompt until it is unpinned.
PinsInEveryPrompt ==
  call.form # "none" => \A i \in DOMAIN agent.pins : Contains(sent, PinMessage(agent.pins[i]))

\* Every turn ends, whatever the model answers.
EveryTurnEnds == call.form # "none" ~> call.form = "none"

-----------------------------------------------------------------------------
(* The pipeline implements Dialog: the dialog is the questions and replies *)
(* of the history without the turn under way.                              *)

Lines == [role : {"user"}, text : {"question", "routed", "question with file"}, n : Nat, calls : {0}]
Answers == [role : {"assistant"}, text : {"reply", " reply", "more reply", "cannot read"}, n : Nat, calls : {0}]

Exchanges ==
  LET all == SelectSeq(agent.history, LAMBDA m : m \in Lines \/ m \in Answers)
      said == IF call.form = "none" \/ all = <<>> THEN all ELSE Front(all)
  IN [i \in 1 .. (Len(said) + 1) \div 2 |->
        <<said[2 * i - 1], IF 2 * i <= Len(said) THEN said[2 * i] ELSE said[2 * i - 1]>>]

TheDialog == INSTANCE Dialog WITH Line <- Lines, Answer <- Answers, dialog <- Exchanges

ImplementsDialog == TheDialog!Spec

=============================================================================
