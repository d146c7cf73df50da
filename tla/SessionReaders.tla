--------------------------- MODULE SessionReaders ---------------------------
(***************************************************************************)
(* What is read back out of a session's log: the screenplay rendered from  *)
(* it (sessionrender.go), the turns a later session continues from         *)
(* (sessionload.go), and the transcript a drafting pass is given           *)
(* (draftobs_read.go, draftobs_pass.go).  The actions write a log as the   *)
(* program does, event by event; the three readers are operators on it.    *)
(* An event is known by its place in the log.  Events that no reader looks *)
(* at (commands, pins, compactions, messages put into the prompt) are left *)
(* out.                                                                    *)
(***************************************************************************)
EXTENDS Naturals, Sequences, FiniteSets, SequencesExt

CONSTANTS
  MaxEvents,   \* bound: events of a log
  MaxOpenings, \* bound: events of a log that begin something
  Chunks,      \* into how many chunks a file is cut
  Bytes,       \* how long the text of an entry is, by what it is
  Windows,     \* context windows a drafter may have, 0 when it is not known
  Features     \* ways of using a session the readers do not agree about:
               \*   "lent"   a file is analysed inside a turn by a model lent for it
               \*   "after"  /read-chunks or /plan next comes right after a turn
               \*   "late"   a turn fails after a request of it was answered

ASSUME ReadersBoundsOK == {MaxEvents, MaxOpenings, Chunks} \subseteq Nat \ {0}

\* What an entry of a transcript is made of.
Texts == {"user_input", "model_response", "tool_call", "kb_call", "result"}

ASSUME LengthsOK == Bytes \in [Texts -> Nat] /\ Windows \subseteq Nat

VARIABLES
  log,         \* the events of the session, in order
  doing,       \* what the session is doing: "prompt", or which line it is carrying out
  asked,       \* the request that waits for its answer, or 0
  call,        \* the call that waits for its result, or 0
  chunk,       \* the chunk to ask about next, past the last for the synthesis; 0 outside an analysis
  lent,        \* the analysis has a model of its own
  answered     \* the turns of the conversation: line, reply, and whether a route answered

readersVars == <<log, doing, asked, call, chunk, lent, answered>>

\* what: the tool, source, purpose or verb; of: the event it answers, or the chunk
\* a request is about.
Event(kind, what, origin, of, status) ==
  [kind |-> kind, what |-> what, origin |-> origin, of |-> of, status |-> status]

\* The requests of the conversation; every other request is a side request.
Assembled == {"turn", "route"}
IsAdhoc(e) == e.kind = "model_request" /\ e.what \notin Assembled

Lines(events) == {i \in DOMAIN events : events[i].kind = "user_input"}

-----------------------------------------------------------------------------
(* Where a turn and an analysis end.                                       *)

\* The first of the places from..to that is in S, or the place after them.
FirstIn(S, from, to) ==
  LET found == {j \in from .. to : j \in S} IN IF found = {} THEN to + 1 ELSE Min(found)

\* Variant: what the author does at the prompt does not close the turn before it.
ClosesTurnButNotAtCalls(e) == e.kind \in {"user_input", "model_switch", "session_end"}

ClosesTurn(e) ==
  \/ e.kind \in {"user_input", "model_switch", "session_end"}
  \/ e.kind \in {"injection", "tool_call"} /\ e.origin = "user"

TurnEnd(events, i) ==
  FirstIn({j \in DOMAIN events : ClosesTurn(events[j])}, i + 1, Len(events))

IsChunkStart(e) == e.kind = "model_request" /\ e.what = "chunk" /\ e.of = 1

\* renderChunkAnalysis passes over answers and permissions and goes on while the
\* requests are for chunks; the request for the synthesis is its last event.
AnalysisEnd(events, k, end) ==
  LET stops(e) == e.kind \notin {"model_response", "permission"} /\ ~(e.kind = "model_request" /\ e.what = "chunk")
      j == FirstIn({m \in DOMAIN events : stops(events[m])}, k + 1, end - 1)
  IN IF j < end /\ events[j].what = "synthesis" THEN j + 1 ELSE j

\* The analyses among from..end-1: an analysis is not looked for inside another.
Analyses(events, from, end) ==
  LET starts == {k \in from .. end - 1 : IsChunkStart(events[k])}
  IN {k \in starts : \A j \in starts : j < k => AnalysisEnd(events, j, end) <= k}

-----------------------------------------------------------------------------
(* The screenplay.                                                         *)

Scene(what, of, reply, failure, notes) ==
  [what |-> what, of |-> of, reply |-> reply, failure |-> failure, notes |-> notes]

\* A scene for each place of S, in order.
InOrder(S, what) == [n \in 1 .. Cardinality(S) |-> Scene(what, SetToSortSeq(S, <)[n], 0, 0, {})]

Latest(S) == IF S = {} THEN 0 ELSE Max(S)

\* The requests the scene of a turn takes for side requests: those of an analysis
\* are not looked at, save the first.
SideRequests(events, i, end, consumed) ==
  {k \in i + 1 .. end - 1 : IsAdhoc(events[k]) /\ (k \notin consumed \/ k \in Analyses(events, i + 1, end))}

RenderTurn(events, i, end) ==
  LET analyses == Analyses(events, i + 1, end)
      consumed == UNION {k .. AnalysisEnd(events, k, end) - 1 : k \in analyses}
      rest == (i + 1 .. end - 1) \ consumed
      answers == {k \in rest : /\ events[k].kind = "model_response"
                               /\ events[k].of \notin SideRequests(events, i, end, consumed)}
      ok == {k \in answers : events[k].status = "ok"}
      calls == {k \in rest : events[k].kind = "tool_call"}
      routed == events[i].what = "route"
  IN InOrder(analyses, "analysis")
       \o InOrder({k \in rest : events[k].kind = "injection" /\ events[k].what = "skill"}, "skill")
       \o <<Scene(IF routed THEN "route" ELSE "chat", i, Latest(ok),
                  IF ok = {} THEN Latest(answers) ELSE 0, IF routed THEN {} ELSE calls)>>
       \o InOrder({k \in rest : events[k].kind = "permission"}, "offer")

\* The first result after a call that names it, or 0.
FoundResult(events, i) ==
  SelectInSubSeq(events, i + 1, Len(events), LAMBDA e : e.kind = "tool_result" /\ e.of = i)

\* The scene of a call the author made shows its result, if there is one.
RenderCall(events, i) == Scene(events[i].what, i, FoundResult(events, i), 0, {})

RenderFrom(events, first) ==
  LET scenes(i, end) ==
        LET e == events[i]
        IN CASE e.kind = "user_input" -> RenderTurn(events, i, end)
             [] IsChunkStart(e) -> InOrder({i}, "analysis")
             [] e.kind = "injection" /\ e.what = "skill" -> InOrder({i}, "skill")
             [] e.kind = "tool_call" /\ e.origin = "user" -> <<RenderCall(events, i)>>
             [] OTHER -> <<>>
      after(i) == IF events[i].kind = "user_input" THEN TurnEnd(events, i)
                  ELSE IF IsChunkStart(events[i]) THEN AnalysisEnd(events, i, Len(events) + 1)
                  ELSE i + 1
      from[i \in first .. Len(events) + 1] ==
        IF i > Len(events) THEN <<>> ELSE scenes(i, after(i)) \o from[after(i)]
  IN from[first]

\* THE END stands at the end of every screenplay, with a note when the session has no end.
RenderFountain(events) == RenderFrom(events, 2)

-----------------------------------------------------------------------------
(* The turns a session is continued from.                                  *)

\* Variant: the answers to side requests count too.
OwnAnswersOrAnyOthers(events, i) ==
  {k \in i + 1 .. TurnEnd(events, i) - 1 : events[k].kind = "model_response" /\ events[k].status = "ok"}

\* The answers to the turn itself that ended well.
OwnAnswers(events, i) ==
  LET inside == i + 1 .. TurnEnd(events, i) - 1
      side == {k \in inside : IsAdhoc(events[k])}
  IN {k \in inside : events[k].kind = "model_response" /\ events[k].status = "ok" /\ events[k].of \notin side}

\* A turn counts when the model answered it; its reply is the last answer.
IsAnswered(events, i) == events[i].kind = "user_input" /\ OwnAnswers(events, i) # {}

TurnAt(events, i) ==
  [line |-> i, reply |-> Max(OwnAnswers(events, i)), routed |-> events[i].what = "route"]

LoadTurns(events) ==
  FoldLeftDomain(LAMBDA turns, i : IF IsAnswered(events, i) THEN Append(turns, TurnAt(events, i)) ELSE turns,
                 <<>>, events)

-----------------------------------------------------------------------------
(* The transcript and its passes.                                          *)

\* The result that names a call, the last of them.
ResultOf(events, i) ==
  Latest({k \in DOMAIN events : events[k].kind \in {"tool_result", "kb_result"} /\ events[k].of = i})

IsKept(e) ==
  \/ e.kind \in {"user_input", "tool_call"}
  \/ e.kind = "model_response" /\ e.status = "ok"
  \/ e.kind = "kb_call" /\ e.origin = "user" /\ e.what # "draft"

\* An entry spans its event and the result of it.
Entry(events, i) ==
  LET result == IF events[i].kind \in {"tool_call", "kb_call"} THEN ResultOf(events, i) ELSE 0
  IN [first |-> i, last |-> IF result = 0 THEN i ELSE result,
      bytes |-> Bytes[events[i].kind] + IF result = 0 THEN 0 ELSE Bytes["result"]]

DraftTranscript(events) ==
  FoldLeftDomain(LAMBDA entries, i : IF IsKept(events[i]) THEN Append(entries, Entry(events, i)) ELSE entries,
                 <<>>, events)

EstimateTokens(bytes) == Max({1, bytes \div 4})

\* Cut at the start of a character, at most three bytes back, and marked with three.
CutMarked(bytes, most, back) == IF bytes <= most THEN bytes ELSE most - back + 3

DraftBudget(window) == Max({256, (IF window = 0 THEN 2048 ELSE window) - 700})

\* SplitPasses: an entry is cut to the budget; a pass is closed when the next entry
\* does not fit in it.
FitEntry(e, budget, back) ==
  IF EstimateTokens(e.bytes) <= budget THEN e
  ELSE [e EXCEPT !.bytes = CutMarked(e.bytes, Max({4 * budget, 4}) - 4, Min({back, Max({4 * budget, 4}) - 4}))]

PassTokens(pass) == FoldLeft(LAMBDA n, e : n + EstimateTokens(e.bytes), 0, pass)

\* Variant: what is used of the budget is not counted from nothing in a new pass.
SplitPassesNeverReset(entries, budget, back) ==
  LET Put(passes, e) ==
        LET fit == FitEntry(e, budget, back)
        IN IF passes = <<>> \/ PassTokens(FlattenSeq(passes)) + EstimateTokens(fit.bytes) > budget
           THEN Append(passes, <<fit>>)
           ELSE [passes EXCEPT ![Len(passes)] = Append(@, fit)]
  IN FoldLeft(Put, <<>>, entries)

SplitPasses(entries, budget, back) ==
  LET Put(passes, e) ==
        LET fit == FitEntry(e, budget, back)
        IN IF passes = <<>> \/ PassTokens(Last(passes)) + EstimateTokens(fit.bytes) > budget
           THEN Append(passes, <<fit>>)
           ELSE [passes EXCEPT ![Len(passes)] = Append(@, fit)]
  IN FoldLeft(Put, <<>>, entries)

-----------------------------------------------------------------------------
(* The program writes the log.                                             *)

ReadersInit ==
  /\ log = <<Event("session_start", "", "", 0, "")>>
  /\ doing = "prompt"
  /\ asked = 0 /\ call = 0 /\ chunk = 0
  /\ lent = FALSE
  /\ answered = <<>>

\* What begins a line, a switch, an analysis, an offer or a call of the author.
Opens(e) ==
  \/ e.kind \in {"user_input", "injection", "permission", "model_switch", "kb_call", "session_end"}
  \/ e.kind = "tool_call" /\ e.origin = "user"
  \/ e.kind = "model_request" /\ e.what \in {"plan", "summary"}
  \/ IsChunkStart(e)

Write(e) ==
  /\ Len(log) < MaxEvents
  /\ Opens(e) => Cardinality({i \in DOMAIN log : Opens(log[i])}) < MaxOpenings
  /\ log' = Append(log, e)
Here == Len(log) + 1

Free == asked = 0 /\ chunk = 0 /\ ~lent
AtPrompt == doing \in {"prompt", "over"} /\ ~lent

\* Whether what is written next is still in the range of the last turn.
InLastTurn == Lines(log) # {} /\ TurnEnd(log, Max(Lines(log))) = Len(log) + 1
MayAsk == "after" \in Features \/ ~InLastTurn

\* The author types a line for the model, or for a route.
ChatLine(to) ==
  /\ AtPrompt
  /\ Write(Event("user_input", to, "", 0, ""))
  /\ doing' = to
  /\ UNCHANGED <<asked, call, chunk, lent, answered>>

\* A skill enters the conversation: the author loads it, or the line matches its trigger.
LoadSkill(origin) ==
  /\ IF origin = "user" THEN AtPrompt ELSE doing = "turn" /\ Last(log).kind = "user_input"
  /\ Write(Event("injection", "skill", origin, 0, ""))
  /\ UNCHANGED <<doing, asked, call, chunk, lent, answered>>

\* The model answered with calls, and its first is still to be made.
CallsPending ==
  Last(log).kind = "model_response" /\ Last(log).status = "ok"
    /\ log[Last(log).of].what = doing

\* A request: of the turn or the routed line, the next one when the calls are made or
\* when the answer refused to read a file; or a side request of what is going on.
AskModel(what) ==
  /\ Free
  /\ CASE what \in Assembled -> doing = what /\ call = 0
       [] what = "summary" -> doing = "turn" /\ call = 0 /\ Last(log).kind \in {"user_input", "injection"}
       [] what = "plan" -> doing = "plan" /\ call = 0 /\ ~CallsPending
       [] what \in {"draft", "pipeline"} -> doing = what /\ Last(log).kind \in {"kb_call", "tool_call"}
  /\ Write(Event("model_request", what, "", 0, ""))
  /\ asked' = Here
  /\ UNCHANGED <<doing, call, chunk, lent, answered>>

\* A request or a synthesis of the running turn was answered: failing now would be late.
AnsweredInTurn ==
  \E k \in Max(Lines(log)) .. Len(log) :
    /\ log[k].kind = "model_response" /\ log[k].status = "ok"
    /\ log[log[k].of].what \in {"turn", "synthesis"}

\* A request of the conversation is answered: with calls or a refusal, with the reply,
\* or not at all; a failed one may be made again on a smaller prompt, or ends the turn.
AnswerTurn(status, ends) ==
  /\ asked # 0 /\ log[asked].what \in Assembled
  /\ status = "failed" /\ ends => "late" \in Features \/ ~AnsweredInTurn
  /\ doing = "route" => ends
  /\ Write(Event("model_response", "", "", asked, status))
  /\ asked' = 0
  /\ doing' = IF ends THEN "over" ELSE doing
  /\ answered' = IF status = "ok" /\ ends
                 THEN Append(answered, [line |-> Max(Lines(log)), reply |-> Here, routed |-> doing = "route"])
                 ELSE answered
  /\ UNCHANGED <<call, chunk, lent>>

\* A side request is answered; in an analysis the next chunk is due, and a chunk
\* that failed is told as failed in the synthesis.
AnswerSide(status) ==
  /\ asked # 0 /\ log[asked].what \notin Assembled
  /\ Write(Event("model_response", "", "", asked, status))
  /\ asked' = 0
  /\ chunk' = IF chunk \in 1 .. Chunks THEN chunk + 1 ELSE 0
  /\ doing' = IF doing = "read" /\ chunk > Chunks THEN "prompt" ELSE doing
  /\ UNCHANGED <<call, lent, answered>>

\* The model, in a turn or in a step of a plan, makes a call.
CallTool ==
  /\ Free /\ call = 0 /\ doing \in {"turn", "plan"}
  /\ CallsPending \/ Last(log).kind = "tool_result"
  /\ Write(Event("tool_call", "tool", "model", 0, doing))
  /\ call' = Here
  /\ UNCHANGED <<doing, asked, chunk, lent, answered>>

\* The author runs a shell line, a step of a pipeline or a kb command.
AuthorsCall(kind, what) ==
  /\ AtPrompt
  /\ Write(Event(kind, what, "user", 0, ""))
  /\ call' = Here
  /\ doing' = what
  /\ UNCHANGED <<asked, chunk, lent, answered>>

Returns(status) ==
  /\ Free /\ call # 0
  /\ doing = "pipeline" => Last(log).kind = "model_response"
  /\ Write(Event(IF log[call].kind = "kb_call" THEN "kb_result" ELSE "tool_result", "", "", call, status))
  /\ call' = 0
  /\ doing' = IF doing \in {"turn", "plan"} THEN doing ELSE "prompt"
  /\ UNCHANGED <<asked, chunk, lent, answered>>

\* What /kb inject, or a shell line, puts in the prompt is logged after its result.
InjectOutput ==
  /\ AtPrompt /\ Last(log).kind \in {"kb_result", "tool_result"} /\ log[Last(log).of].what \in {"inject", "shell"}
  /\ Write(Event("injection", log[Last(log).of].what, "user", 0, ""))
  /\ UNCHANGED <<doing, asked, call, chunk, lent, answered>>

\* A file is analysed in chunks: one the line names, one the model reads, or the
\* one of /read-chunks; a model may be lent for it, and is in use until it is given back.
StartAnalysis(lend) ==
  /\ Free
  /\ \/ doing = "turn" /\ call = 0 /\ Last(log).kind \in {"user_input", "injection"}
     \/ doing = "turn" /\ call = 0 /\ Last(log).kind = "model_response" /\ log[Last(log).of].what = "synthesis"
     \/ doing = "turn" /\ call = Len(log)
     \/ AtPrompt /\ (lend \/ MayAsk)
  /\ doing = "turn" /\ lend => "lent" \in Features
  /\ doing' = IF doing = "turn" THEN doing ELSE "read"
  /\ chunk' = 1
  /\ lent' = lend
  /\ IF lend THEN Write(Event("model_switch", "", "", 0, "")) ELSE log' = log
  /\ UNCHANGED <<asked, call, answered>>

AskChunk ==
  /\ chunk > 0 /\ asked = 0
  /\ Write(Event("model_request", IF chunk <= Chunks THEN "chunk" ELSE "synthesis", "", chunk, ""))
  /\ asked' = Here
  /\ UNCHANGED <<doing, call, chunk, lent, answered>>

GiveModelBack ==
  /\ lent /\ chunk = 0
  /\ Write(Event("model_switch", "", "", 0, ""))
  /\ lent' = FALSE
  /\ UNCHANGED <<doing, asked, call, chunk, answered>>

\* The author answers the offer to write or run something.
AnswerOffer ==
  /\ doing = "over" /\ Last(log).kind \in {"model_response", "permission"}
  /\ Write(Event("permission", "write", "", 0, ""))
  /\ UNCHANGED <<doing, asked, call, chunk, lent, answered>>

\* A step of the plan begins with a request, and ends after an answer.
StartPlan ==
  /\ AtPrompt /\ MayAsk
  /\ Write(Event("model_request", "plan", "", 0, ""))
  /\ asked' = Here
  /\ doing' = "plan"
  /\ UNCHANGED <<call, chunk, lent, answered>>

EndPlan ==
  /\ doing = "plan" /\ Free /\ call = 0 /\ Last(log).kind = "model_response"
  /\ doing' = "prompt"
  /\ UNCHANGED <<log, asked, call, chunk, lent, answered>>

SwitchModel ==
  /\ AtPrompt
  /\ Write(Event("model_switch", "", "", 0, ""))
  /\ UNCHANGED <<doing, asked, call, chunk, lent, answered>>

EndSession ==
  /\ AtPrompt
  /\ Write(Event("session_end", "", "", 0, ""))
  /\ doing' = "ended"
  /\ UNCHANGED <<asked, call, chunk, lent, answered>>

ReadersNext ==
  \/ \E to \in Assembled : ChatLine(to)
  \/ \E origin \in {"user", "auto"} : LoadSkill(origin)
  \/ \E what \in Assembled \cup {"summary", "plan", "draft", "pipeline"} : AskModel(what)
  \/ \E status \in {"ok", "failed"}, ends \in BOOLEAN : AnswerTurn(status, ends)
  \/ \E status \in {"ok", "failed"} : AnswerSide(status)
  \/ CallTool
  \/ \E what \in {"shell", "pipeline"} : AuthorsCall("tool_call", what)
  \/ \E what \in {"draft", "inject"} : AuthorsCall("kb_call", what)
  \/ \E status \in {"ok", "failed"} : Returns(status)
  \/ InjectOutput
  \/ \E lend \in BOOLEAN : StartAnalysis(lend)
  \/ AskChunk
  \/ GiveModelBack
  \/ AnswerOffer
  \/ StartPlan
  \/ EndPlan
  \/ SwitchModel
  \/ EndSession

ReadersSpec == ReadersInit /\ [][ReadersNext]_readersVars

-----------------------------------------------------------------------------
(* Properties.                                                             *)

\* What has a scene, or a place in one, of its own.
IsShown(e) ==
  \/ e.kind \in {"user_input", "permission"}
  \/ e.kind = "injection" /\ e.what = "skill"
  \/ e.kind = "tool_call" /\ e.origin = "user"
  \/ IsChunkStart(e)

LineOf(k) == Max({i \in Lines(log) : i < k})

\* What the scene of a turn must show: its reply, or else how it failed, and its calls.
ToldRight(s) ==
  LET of(k) == Lines(log) # {} /\ k > Min(Lines(log)) /\ LineOf(k) = s.of
      failed == {k \in DOMAIN log : /\ log[k].kind = "model_response" /\ log[k].status = "failed"
                                    /\ log[log[k].of].what \in Assembled /\ of(k)}
      calls == {k \in DOMAIN log : log[k].kind = "tool_call" /\ log[k].status = "turn" /\ of(k)}
      turns == {n \in DOMAIN answered : answered[n].line = s.of}
  IN CASE s.what \in {"chat", "route"} ->
            /\ s.reply = Latest({answered[n].reply : n \in turns})
            /\ turns = {} => s.failure = Latest(failed)
            /\ s.what = "chat" => s.notes = calls
       [] s.what \in {"shell", "pipeline"} -> s.reply # 0 => log[s.reply].of = s.of
       [] OTHER -> TRUE

\* ScenesAgree: whatever a session did and wherever it stopped, its screenplay has
\* one scene, or place in one, for every line, skill, call of the author, analysis
\* and answered offer, and none besides; and while no turn is under way the scene of
\* each line shows its reply, or its failure, and its own calls (sessionrender.go,
\* which cuts the log into turns by the kinds of event that may follow, with
\* everything else the program logs in between).
ScenesAgree ==
  LET shown == RenderFountain(log)
  IN /\ \A i \in 2 .. Len(log) :
          Cardinality({n \in DOMAIN shown : shown[n].of = i}) = IF IsShown(log[i]) THEN 1 ELSE 0
     /\ doing \notin Assembled => \A n \in DOMAIN shown : ToldRight(shown[n])

\* TurnsReadBack: while no turn is under way, the turns a later session continues
\* from, or a replay goes through, are exactly the turns of the conversation, each
\* with its reply and whether a route gave it; wherever the session stopped, and
\* whatever was asked on the side (sessionload.go loadSessionLog, answeredReply).
TurnsReadBack == doing \notin Assembled => LoadTurns(log) = answered

\* The fewest passes the first n entries can be cut into.
FewestPasses(entries, budget) ==
  LET fewest[n \in 0 .. Len(entries)] ==
        IF n = 0 THEN 0
        ELSE 1 + Min({fewest[j] : j \in {j \in 0 .. n - 1 : PassTokens(SubSeq(entries, j + 1, n)) <= budget}})
  IN fewest[Len(entries)]

\* PassesCarryTheSession: whatever the drafter's window, the passes carry every line
\* and every reply of the conversation, in the order of the log and each entry once,
\* every pass is within the budget, and no split of the entries has fewer passes
\* (draftobs_pass.go: "the fewest passes that each fit budget tokens, keeping log
\* order and never splitting an entry").
PassesCarryTheSession ==
  AtPrompt =>
    LET entries == DraftTranscript(log)
    IN /\ Lines(log) \cup {answered[n].reply : n \in DOMAIN answered} \subseteq {entries[n].first : n \in DOMAIN entries}
       /\ \A w \in Windows, back \in 0 .. 3 :
            LET budget == DraftBudget(w)
                passes == SplitPasses(entries, budget, back)
            IN /\ [n \in DOMAIN FlattenSeq(passes) |-> FlattenSeq(passes)[n].first] = [n \in DOMAIN entries |-> entries[n].first]
               /\ \A p \in DOMAIN passes : passes[p] # <<>> /\ PassTokens(passes[p]) <= budget
               /\ Len(passes) = FewestPasses(FlattenSeq(passes), budget)
=============================================================================
