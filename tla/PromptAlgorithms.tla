-------------------------- MODULE PromptAlgorithms --------------------------
(***************************************************************************)
(* The loops of Assemble (assemble.go) and trimMessages (prompt_fit.go),   *)
(* one turn of the loop at a time, compared with the definitions of Prompt *)
(* that ChatTurn uses; and what a rewrite recorded as ops gives back.      *)
(***************************************************************************)
EXTENDS Prompt

CONSTANTS
  MaxLength,   \* bound: messages of a conversation
  MaxLimit     \* bound: limits tried

ASSUME BoundsOK == {MaxLength, MaxLimit} \subseteq Nat

VARIABLES
  conversation,  \* a conversation, as the log's items
  allowed,       \* the limit it must fit
  rewritten      \* a conversation it may be rewritten to

promptVars == <<conversation, allowed, rewritten>>

\* What a message of a conversation may be, and what added it.
Additions ==
  {<<Msg("user", "question", 1), "turn">>, <<Msg("assistant", "reply", 1), "">>,
   <<Msg("tool", "output", 0), "">>, <<Msg("user", "pinned", 1), "pinned">>,
   <<Msg("user", "knowledge", 0), "memory">>, <<Msg("user", "summary", 1), "">>}

PromptInit ==
  /\ conversation = <<Item(Msg("system", "prompt", 1), "system", 0)>>
  /\ rewritten = <<>>
  /\ allowed \in 0 .. MaxLimit

\* The conversation grows; a turn may begin at any message.
Grow ==
  /\ Len(conversation) < MaxLength
  /\ rewritten = <<>>
  /\ \E a \in Additions, opens \in {0, 1} :
       conversation' = Append(conversation,
                              Item(a[1], ClassifyItem(a[1], a[2]), Last(conversation).group + opens))
  /\ UNCHANGED <<allowed, rewritten>>

\* A rewrite keeps, drops, moves or repeats messages, or brings new ones.
RewriteTo ==
  /\ Len(rewritten) < Len(conversation) /\ Len(conversation) < MaxLength
  /\ allowed = 0
  /\ \E m \in ToSet(Messages(conversation)) \cup {Msg("user", "correction", 0)} : rewritten' = Append(rewritten, m)
  /\ UNCHANGED <<conversation, allowed>>

PromptNext == Grow \/ RewriteTo

PromptSpec == PromptInit /\ [][PromptNext]_promptVars

-----------------------------------------------------------------------------
(* The loops. A loop is one turn of it, done once for every message; a    *)
(* turn that drops no message is the end of the loop.                      *)

\* The oldest turn goes, unless the rest is under the limit or no user message
\* follows the first message that may go.
TrimOnce(h, most) ==
  LET start == SelectInSeq(h, LAMBDA m : m.role # "system" /\ ~IsPinnedContext(m))
      end == SelectInSubSeq(h, start + 1, Len(h), LAMBDA m : m.role = "user" /\ ~IsPinnedContext(m))
  IN IF Len(h) < most \/ start = 0 \/ end = 0 THEN h
     ELSE SubSeq(h, 1, start - 1) \o SubSeq(h, end, Len(h))

TrimLoop(h, most) == FoldLeft(LAMBDA left, m : TrimOnce(left, most), h, h)

\* The tail after the first items of it that belong to one turn.
DropGroup(tail) ==
  LET other == SelectInSeq(tail, LAMBDA it : it.group # tail[1].group)
  IN SubSeq(tail, other, Len(tail))

\* Knowledge beyond its share goes first, then the rest of it, then whole turns.
AssembleOnce(fixed, left, most) ==
  IF left.kb # <<>> /\ (4 * Len(left.kb) > most \/ Len(fixed) + Len(left.kb) + Len(left.tail) > most)
    THEN [left EXCEPT !.kb = Tail(@)]
  ELSE IF \/ Len(fixed) + Len(left.kb) + Len(left.tail) <= most
          \/ left.tail = <<>> \/ Last(left.tail).group = left.tail[1].group
    THEN left
  ELSE [left EXCEPT !.tail = DropGroup(@)]

AssembleLoop(fixed, kb, tail, most) ==
  LET left == FoldLeft(LAMBDA l, it : AssembleOnce(fixed, l, most), [kb |-> kb, tail |-> tail], kb \o tail)
  IN fixed \o left.kb \o left.tail

-----------------------------------------------------------------------------
(* Properties.                                                             *)

\* The trimmed conversation ChatTurn uses is the one the loop of trimMessages
\* ends with.
TrimIsLoop ==
  TrimMessages(Messages(conversation), allowed)
    = IF allowed = 0 THEN Messages(conversation) ELSE TrimLoop(Messages(conversation), allowed)

\* The prompt ChatTurn uses is the one the loops of Assemble end with.
AssembleIsLoop ==
  LET Of(kind) == OfKind(conversation, kind)
      fixed == Of("system") \o Of("pin") \o Of("summary")
  IN allowed > 0 =>
       Assemble(conversation, allowed) = AssembleLoop(fixed, Of("kb"), Of("turn"), allowed)

\* ClosedFormsAreLoops: the operators ChatTurn uses in the place of the code's loops are
\* what those loops compute (trimMessages, Assemble).
ClosedFormsAreLoops == TrimIsLoop /\ AssembleIsLoop

\* Applying the recorded ops to the old items gives exactly the new messages
\* (sessionlog_agent.go: a prompt rebuilt from the log "gets the history exactly").
OpsGiveTheNewHistory ==
  Messages(ApplyRewriteOps(conversation, RewriteOps(Messages(conversation), rewritten))) = rewritten

=============================================================================
