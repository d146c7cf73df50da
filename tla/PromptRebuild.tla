--------------------------- MODULE PromptRebuild ----------------------------
(***************************************************************************)
(* The replay of a session log into the history it stands for              *)
(* (promptrebuild.go): a rebuilder takes one event at a time.              *)
(*                                                                         *)
(* An event is abstracted to what apply reads of it.  A tool_result always *)
(* answers the last tool_call, so modelCalls is one flag: that call was    *)
(* the model's.                                                            *)
(***************************************************************************)
EXTENDS Prompt

InjectionEvent(m, via) == [kind |-> "injection", msg |-> m, via |-> via]
\* turn: assembled for the conversation, and not for a named route.
\* system: the system prompt the request carries, <<>> when it is known.
RequestEvent(turn, system) == [kind |-> "model_request", turn |-> turn, system |-> system]
\* turn: it ended well and answers a turn request.
ResponseEvent(turn, m) == [kind |-> "model_response", turn |-> turn, msg |-> m]
ToolCallEvent == [kind |-> "tool_call"]
ToolResultEvent(m) == [kind |-> "tool_result", msg |-> m]
RewriteEvent(ops) == [kind |-> "compaction", reason |-> "rewrite", ops |-> ops]
RoundCompacted == [kind |-> "compaction", reason |-> "tool_result"]
\* user_input, pin, unpin, fault: they change nothing, but they are read.
OtherEvent == [kind |-> "other"]

NewRebuilder ==
  [items |-> <<>>, inTurn |-> FALSE, modelCall |-> FALSE, calls |-> 0,
   held |-> <<>>, group |-> 0, closed |-> FALSE]

\* A message that follows a final reply starts the next turn.
Add(r, m, via, final) ==
  LET opens == m.role # "system" /\ r.closed /\ ~final
      g == IF opens THEN r.group + 1 ELSE r.group
  IN [r EXCEPT !.group = g,
               !.closed = final \/ (r.closed /\ ~opens),
               !.items = Append(@, Item(m, ClassifyItem(m, via), g))]

FlushCalls(r) ==
  IF r.calls = 0 THEN r
  ELSE [Add(r, ToolCalls(r.calls), "", FALSE) EXCEPT !.calls = 0]

FlushHeld(r) ==
  IF r.held = <<>> THEN r
  ELSE [Add(r, r.held[1], "", TRUE) EXCEPT !.held = <<>>]

Finish(r) == FlushHeld(FlushCalls(r))

SetSystem(r, m) ==
  LET it == Item(m, "system", 0)
  IN IF r.items # <<>> /\ r.items[1].msg.role = "system"
       THEN [r EXCEPT !.items[1] = it]
       ELSE [r EXCEPT !.items = <<it>> \o @]

\* Replies are compared without the white space around them.
TrimSpace(m) == IF m.text = " reply" THEN [m EXCEPT !.text = "reply"] ELSE m

\* The oldest round not yet compacted: every round's first call is call_0.
CompactOldestRound(r) ==
  LET msgs == Messages(r.items)
      rounds == {i \in DOMAIN msgs : msgs[i].role = "assistant" /\ msgs[i].calls > 0}
      compacted == CompactToolRound(msgs, Min(rounds))
  IN IF rounds = {} THEN r
     ELSE [r EXCEPT !.items = [i \in DOMAIN @ |-> [@[i] EXCEPT !.msg = compacted[i]]]]

\* What an event closes before it is read itself: the calls of a response, and a
\* reply held until it was known to make none.
BeforeApply(r, e) ==
  CASE e.kind = "tool_call" ->
         IF r.inTurn THEN [r EXCEPT !.modelCall = TRUE, !.held = <<>>]
         ELSE [r EXCEPT !.modelCall = FALSE]
    [] e.kind = "tool_result" /\ r.modelCall -> r
    [] OTHER -> Finish(r)

Apply(r0, e) ==
  LET r == BeforeApply(r0, e)
      asked == IF e.system = <<>> THEN r ELSE SetSystem(r, e.system[1])
  IN CASE e.kind = "injection"       -> Add(r, e.msg, e.via, FALSE)
       [] e.kind = "model_request"   -> [asked EXCEPT !.inTurn = e.turn]
       [] e.kind = "model_response"  -> IF e.turn THEN [r EXCEPT !.held = <<TrimSpace(e.msg)>>] ELSE r
       [] e.kind = "compaction"      -> IF e.reason = "tool_result" THEN CompactOldestRound(r)
                                        ELSE [r EXCEPT !.items = ApplyRewriteOps(@, e.ops)]
       [] e.kind = "tool_call"       -> IF r.inTurn THEN [r EXCEPT !.calls = @ + 1] ELSE r
       [] e.kind = "tool_result"     -> IF r.modelCall THEN Add(FlushCalls(r), e.msg, "", FALSE) ELSE r
       [] OTHER                      -> r

ApplyAll(r, events) == FoldLeft(Apply, r, events)

\* The history at the end of the log.
RebuildItems(r) == Finish(r).items

=============================================================================
