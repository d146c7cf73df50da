------------------------------- MODULE Prompt -------------------------------
(***************************************************************************)
(* The conversation as a list of messages, and the pure functions that     *)
(* shorten it and describe its rewrites: classifyItem and Assemble         *)
(* (assemble.go), trimMessages (prompt_fit.go), rewriteOps                 *)
(* (sessionlog_agent.go) and applyRewriteOps (promptrebuild.go).           *)
(*                                                                         *)
(* A message's content is a kind of text and a number that tells two texts *)
(* of that kind apart.  Every message costs one token, so the size of a    *)
(* conversation is its length.                                             *)
(***************************************************************************)
EXTENDS Integers, Sequences, SequencesExt, FiniteSetsExt

Roles == {"system", "user", "assistant", "tool"}
Contents == {"prompt", "question", "question with file", "routed", "reply", "cannot read", " reply", "more reply",
             "", "called", "output", "file", "done", "pinned", "read", "knowledge", "summary", "correction", "summarise"}

\* calls: how many tool calls an assistant message makes.  The client numbers
\* them from 0 in every response (call_0, call_1, ...); a tool message has the
\* number of the call it answers in n.
Message == [role : Roles, text : Contents, n : Nat, calls : Nat]
Msg(role, text, n) == [role |-> role, text |-> text, n |-> n, calls |-> 0]

ToolCalls(k) == [role |-> "assistant", text |-> "", n |-> 0, calls |-> k]
ToolResult(id, text) == Msg("tool", text, id)

IsPinnedContext(m) == m.role = "user" /\ m.text = "pinned"
-----------------------------------------------------------------------------
(* Prompt items: a message, its part in the prompt and its turn.           *)

ItemKinds == {"system", "pin", "summary", "kb", "turn"}
Item(m, kind, group) == [msg |-> m, kind |-> kind, group |-> group]

ClassifyItem(m, via) ==
  IF m.role = "system" /\ m.text # "summary" THEN "system"
  ELSE IF m.text = "pinned" THEN "pin"
  ELSE IF m.text = "summary" THEN "summary"
  ELSE IF via = "memory" THEN "kb" ELSE "turn"

Messages(items) == [i \in DOMAIN items |-> items[i].msg]
OfKind(items, kind) ==
  FoldLeft(LAMBDA kept, it : IF it.kind = kind THEN Append(kept, it) ELSE kept, <<>>, items)

-----------------------------------------------------------------------------
(* Compaction of a tool round.  What a content tool (read_file) returned    *)
(* stays; any other result becomes [done].                                 *)

\* The results that directly follow message i.
ResultsAfter(h, i) ==
  {j \in i+1 .. Len(h) : \A k \in i+1 .. j : h[k].role = "tool"}

CompactToolRound(h, i) ==
  [j \in DOMAIN h |->
     IF j = i /\ h[i].role = "assistant"
       THEN Msg("assistant", "called", h[i].calls)
     ELSE IF j \in ResultsAfter(h, i) /\ h[j].text # "file"
       THEN [h[j] EXCEPT !.text = "done"]
     ELSE h[j]]

-----------------------------------------------------------------------------
(* Rewrites of the history.  An op keeps the range from..to of the old     *)
(* list, or adds the message in new.                                       *)

KeepRange(from, to) == [from |-> from, to |-> to, new |-> <<>>]
AddNew(m) == [from |-> 0, to |-> 0, new |-> <<m>>]

\* Variant: the next message is looked for in the whole old list.
RewriteOpsFromTheStart(prev, next) ==
  LET Step(acc, m) ==
        LET found == {i \in DOMAIN prev : prev[i] = m}
            i == Min(found)
        IN IF found = {} THEN [acc EXCEPT !.ops = Append(@, AddNew(m))]
           ELSE [cur |-> i,
                 ops |-> IF acc.ops # <<>> /\ acc.cur < i
                           THEN [acc.ops EXCEPT ![Len(acc.ops)].to = i]
                           ELSE Append(acc.ops, KeepRange(i, i))]
  IN FoldLeft(Step, [cur |-> 0, ops |-> <<>>], next).ops

\* The next message is looked for after the last one found; a run of
\* neighbours becomes one range.
RewriteOps(prev, next) ==
  LET Extends(ops, i) == ops # <<>> /\ Last(ops).new = <<>> /\ Last(ops).to = i - 1
      Step(acc, m) ==
        LET found == {i \in acc.cur+1 .. Len(prev) : prev[i] = m}
            i == Min(found)
        IN IF found = {} THEN [acc EXCEPT !.ops = Append(@, AddNew(m))]
           ELSE [cur |-> i,
                 ops |-> IF Extends(acc.ops, i)
                           THEN [acc.ops EXCEPT ![Len(acc.ops)].to = i]
                           ELSE Append(acc.ops, KeepRange(i, i))]
  IN FoldLeft(Step, [cur |-> 0, ops |-> <<>>], next).ops

\* A range outside the old list is skipped; a new message joins the turn of the
\* message before it.
ApplyRewriteOps(prev, ops) ==
  LET Step(next, op) ==
        IF op.new # <<>>
          THEN LET m == op.new[1]
               IN Append(next, Item(m, ClassifyItem(m, ""),
                                    IF next = <<>> THEN 0 ELSE Last(next).group))
        ELSE IF op.to <= Len(prev) THEN next \o SubSeq(prev, op.from, op.to)
        ELSE next
  IN FoldLeft(Step, <<>>, ops)

-----------------------------------------------------------------------------
(* Fitting a prompt to a limit; 0 is no limit.                             *)

\* The oldest turns go until the rest is under the limit or only the latest is
\* left.  What goes begins at the first message that is neither a system
\* message nor a pin, and ends before a user message that is not a pin.
TrimMessages(h, limit) ==
  LET heads == {i \in DOMAIN h : h[i].role # "system" /\ ~IsPinnedContext(h[i])}
      start == Min(heads)
      ends == {start} \cup {i \in heads : i > start /\ h[i].role = "user"}
      Cut(e) == SubSeq(h, 1, start - 1) \o SubSeq(h, e, Len(h))
      fits == {e \in ends : Len(Cut(e)) < limit}
  IN IF limit = 0 \/ heads = {} THEN h
     ELSE IF fits = {} THEN Cut(Max(ends)) ELSE Cut(Min(fits))

\* The tail without its oldest turns, the fewest that make it fit room; the
\* latest turn always stays.
KeepTurnsFrom(tail, room) ==
  LET starts == {i \in DOMAIN tail : i = 1 \/ tail[i].group # tail[i-1].group}
      last == Min({i \in starts : tail[i].group = Last(tail).group})
      fits == {i \in starts : i < last /\ Len(tail) - i + 1 <= room}
  IN IF tail = <<>> THEN tail
     ELSE SubSeq(tail, Min(fits \cup {last}), Len(tail))

\* The newest n items of a list.
Newest(items, n) == SubSeq(items, Len(items) - n + 1, Len(items))

\* Variant: the share of knowledge is a quarter of the conversation.
AssembleShareOfAll(items, limit) ==
  LET fixed == OfKind(items, "system") \o OfKind(items, "pin") \o OfKind(items, "summary")
      kb == OfKind(items, "kb")
      tail == OfKind(items, "turn")
      room == limit - Len(fixed)
      keptKB == Max({0, Min({Len(kb), Len(items) \div 4, room - Len(tail)})})
  IN IF limit = 0 THEN fixed \o kb \o tail
     ELSE fixed \o Newest(kb, keptKB) \o KeepTurnsFrom(tail, room - keptKB)

\* System prompt, pins, summaries, recalled knowledge and a tail of whole turns.
\* Over the limit the oldest knowledge goes first: what exceeds a quarter of the
\* limit always, the rest if that is not enough.  Then go the oldest turns.
Assemble(items, limit) ==
  LET fixed == OfKind(items, "system") \o OfKind(items, "pin") \o OfKind(items, "summary")
      kb == OfKind(items, "kb")
      tail == OfKind(items, "turn")
      room == limit - Len(fixed)
      keptKB == Max({0, Min({Len(kb), limit \div 4, room - Len(tail)})})
  IN IF limit = 0 THEN fixed \o kb \o tail
     ELSE fixed \o Newest(kb, keptKB) \o KeepTurnsFrom(tail, room - keptKB)

=============================================================================
