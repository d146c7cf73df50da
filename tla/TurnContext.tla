---------------------------- MODULE TurnContext ----------------------------
(***************************************************************************)
(* What goes before a prompt: what is recalled for it, once after each     *)
(* /clear, and the files it names, whole, or as the analysis of a file     *)
(* that is too large, chunk by chunk, by the model in use or one that is   *)
(* lent; also for /read-chunks and a model's read_file. What the turn does *)
(* then is in ChatTurn.                                                    *)
(***************************************************************************)
EXTENDS Chunks, Recall

CONSTANTS
  Files,            \* by name what a prompt may mention; see File
  Prompts,          \* prompts, as the sequence of the names in them
  Stores,           \* what the memories may hold for a prompt
  KBs,              \* what the knowledge base may answer
  Window,           \* effectiveContextLimit in tokens, or 0: not known
  MemoryShare,      \* recall may take Window \div MemoryShare
  DefaultBudget, DefaultRemaining,   \* when the window is not known
  MaxInjectFile,    \* the most tokens of a file that is always taken whole
  NamedModels,      \* models an instruction may name, and whether they can be had
  MaxTurns

\* mode: "text", "missing", or "other", which is never taken; its document when it is large.
File(tokens, mode, document) == [tokens |-> tokens, mode |-> mode, document |-> document]

ASSUME TurnContextAssumption ==
  /\ \A f \in DOMAIN Files :
       /\ Files[f].tokens \in Nat /\ Files[f].mode \in {"text", "missing", "other"}
       /\ IsDocument(Files[f].document)
  /\ Prompts \subseteq Seq(DOMAIN Files)
  /\ \A store \in Stores : IsStore(store)
  /\ \A kb \in KBs : IsAnswer(kb.concepts) /\ IsAnswer(kb.observations) /\ kb.project \in BOOLEAN
  /\ {Window, MaxInjectFile, MaxTurns} \subseteq Nat
  /\ {MemoryShare, DefaultBudget, DefaultRemaining} \subseteq Nat \ {0}
  /\ NamedModels \subseteq [name : STRING, found : {"lent", "route", "no"}]

VARIABLES
  used,       \* tokens of the conversation
  pending,    \* the next turn recalls
  recalled,   \* what was recalled last, of what, and what the log says of it
  model,      \* the model in use, "own" or one that is lent
  turn,       \* the message being put together
  analysis,   \* the file being analysed
  turns       \* how many there were, files a model read included

contextVars == <<used, pending, recalled, model, turn, analysis, turns>>

NoTurn == [stage |-> "idle", unattended |-> FALSE, todo |-> <<>>, seen |-> {}, total |-> 0,
           taken |-> 0, parts |-> <<>>, skipped |-> <<>>]
NoAnalysis == [by |-> "none", file |-> "none", todo |-> <<>>, results |-> 0, lent |-> FALSE]
NoRecall == [results |-> <<>>, store |-> <<>>, kb |-> <<>>, budget |-> 0, told |-> <<>>]

ContextInit ==
  /\ used = 1 /\ pending = TRUE /\ recalled = NoRecall /\ model = "own"
  /\ turn = NoTurn /\ analysis = NoAnalysis /\ turns = 0

----------------------------------------------------------------------------
\* memoryBudget; remainingContext of a conversation of n tokens, with a tenth of the
\* window kept back.
MemoryBudget == IF Window = 0 THEN DefaultBudget ELSE Window \div MemoryShare

Margin == Window \div 10
RemainingOf(n) == IF n + Margin >= Window THEN 0 ELSE Window - n - Margin

TurnBudget(n) == IF Window = 0 THEN DefaultRemaining ELSE RemainingOf(n)

(* A turn begins: what is recalled joins the conversation. The log says the knowledge  *)
(* base was asked, and answered, whatever it did.                                      *)
Begin ==
  /\ turn.stage = "idle" /\ turns < MaxTurns
  /\ IF pending
     THEN \E store \in Stores, kb \in KBs, embedder \in BOOLEAN :
            LET results == UnifiedRecall(store, kb, embedder, MemoryBudget)
            IN  /\ used' = used + Tokens(results)
                /\ recalled' = [results |-> results, store |-> store, kb |-> kb,
                                budget |-> MemoryBudget, told |-> LogRecall(results, kb)]
     ELSE UNCHANGED <<used, recalled>>
  /\ turn' = [NoTurn EXCEPT !.stage = "begun"]
  /\ pending' = FALSE /\ turns' = turns + 1
  /\ UNCHANGED <<model, analysis>>

\* What is left now is for the files. A model that reads files itself is given none.
Mention ==
  /\ turn.stage = "begun"
  /\ \E p \in Prompts, unattended, reliable \in BOOLEAN :
       turn' = [NoTurn EXCEPT !.stage = "files", !.unattended = unattended,
                  !.todo = IF reliable THEN <<>> ELSE p, !.total = TurnBudget(used)]
  /\ recalled' = NoRecall
  /\ UNCHANGED <<used, pending, model, analysis, turns>>

----------------------------------------------------------------------------
(* The files it names, one after another (injectOrChunk). *)

\* Variant: each file may take all there is.
ReserveEach(n) == n <= turn.total

Reserve(n) == turn.taken + n <= turn.total

Part(f, as) == [file |-> f, as |-> as]

AsksFor(f) ==
  /\ turn.stage = "files" /\ turn.todo # <<>> /\ f = Head(turn.todo)
  /\ UNCHANGED <<used, pending, recalled, turns>>

Unread(f) == f \in turn.seen \/ Files[f].mode # "text"
Small(f) == Files[f].tokens <= MaxInjectFile

\* What the chunks of a file would have to fit in: the room of the conversation as it is,
\* whatever this message holds already.
Fits(f) == Files[f].tokens <= (4 * TurnBudget(used)) \div 5

Nexts(t) == [t EXCEPT !.todo = Tail(@), !.seen = @ \cup {Head(turn.todo)}]

PassOver ==
  \E f \in DOMAIN Files : AsksFor(f) /\ Unread(f) /\ turn' = Nexts(turn) /\ UNCHANGED <<model, analysis>>

\* It is taken whole when it is small, or fits, and what the others left is enough.
TakeWhole ==
  \E f \in DOMAIN Files :
    /\ AsksFor(f) /\ ~Unread(f) /\ (Small(f) \/ (TurnBudget(used) > 0 /\ Fits(f)))
    /\ turn' = IF Reserve(Files[f].tokens)
               THEN Nexts([turn EXCEPT !.taken = @ + Files[f].tokens, !.parts = Append(@, Part(f, "whole"))])
               ELSE Nexts([turn EXCEPT !.skipped = Append(@, f)])
    /\ UNCHANGED <<model, analysis>>

\* The author is told it is left out.
ContextFull ==
  \E f \in DOMAIN Files :
    /\ AsksFor(f) /\ ~Unread(f) /\ ~Small(f) /\ TurnBudget(used) = 0
    /\ turn' = Nexts(turn) /\ UNCHANGED <<model, analysis>>

\* What to ask of each chunk is asked on the terminal, whoever started the turn.
AskHow ==
  \E f \in DOMAIN Files :
    /\ AsksFor(f) /\ ~Unread(f) /\ ~Small(f) /\ TurnBudget(used) > 0 /\ ~Fits(f)
    /\ turn' = [Nexts(turn) EXCEPT !.stage = "asking"]
    /\ analysis' = [NoAnalysis EXCEPT !.by = "turn", !.file = f] /\ UNCHANGED model

\* The prompt, the files taken whole, and a token for each analysis and note.
MessageTokens(t) ==
  1 + t.taken + Cardinality({i \in DOMAIN t.parts : t.parts[i].as # "whole"})

\* All files done, the message is sent; the note names what had no room.
FilesDone ==
  /\ turn.stage = "files" /\ turn.todo = <<>>
  /\ turn' = [turn EXCEPT !.stage = "sent",
                !.parts = IF turn.skipped = <<>> THEN @ ELSE Append(@, Part(turn.skipped, "note"))]
  /\ used' = used + MessageTokens(turn')
  /\ UNCHANGED <<pending, recalled, model, analysis, turns>>

----------------------------------------------------------------------------
(* The analysis of a file. *)

\* /read-chunks, and read_file of a model, when what is read does not fit; it is not
\* asked for then that nobody is there either.
ReadChunks ==
  /\ turn.stage = "idle" /\ turns < MaxTurns
  /\ \E f \in DOMAIN Files : Files[f].mode = "text" /\ analysis' = [NoAnalysis EXCEPT !.by = "command", !.file = f]
  /\ turn' = [NoTurn EXCEPT !.stage = "told"] /\ turns' = turns + 1
  /\ UNCHANGED <<used, pending, recalled, model>>

ReadFile ==
  /\ turn.stage = "sent" /\ turns < MaxTurns
  /\ \E f \in DOMAIN Files :
       /\ Files[f].mode = "text"
       /\ LET rem == IF RemainingOf(used) = 0 THEN DefaultRemaining ELSE RemainingOf(used)
          IN  Files[f].tokens > (4 * rem) \div 5
       /\ analysis' = [NoAnalysis EXCEPT !.by = "tool", !.file = f]
  /\ turn' = [turn EXCEPT !.stage = "asking"] /\ turns' = turns + 1
  /\ UNCHANGED <<used, pending, recalled, model>>

\* Variant: the model that was lent is kept when there is nothing to show for it.
RestoredWhenShown(result) == IF result = "none" THEN model ELSE "own"

Restored(result) == "own"

(* What becomes of the result: part of the message, an answer to the model, or a turn  *)
(* of its own in the conversation. Without one there is none of these.                 *)
Concluded(result) ==
  LET n == IF result = "none" THEN 0 ELSE 1
  IN  /\ analysis' = NoAnalysis /\ model' = Restored(result)
      /\ used' = IF analysis.by = "turn" THEN used ELSE used + n
      /\ turn' = CASE analysis.by = "turn" ->
                        [turn EXCEPT !.stage = "files",
                           !.parts = IF n = 0 THEN @ ELSE Append(@, Part(analysis.file, "analysis"))]
                   [] analysis.by = "tool" -> [turn EXCEPT !.stage = "sent"]
                   [] OTHER -> NoTurn
      /\ UNCHANGED <<pending, recalled, turns>>

\* "no", or nothing when no message can be taken for the instruction.
Cancel == turn.stage = "asking" /\ Concluded("none")

\* An instruction may name a model; one that cannot be had is done without. Then the file
\* is read, which may fail, and the server of the model is looked for.
Instruct ==
  /\ turn.stage \in {"asking", "told"}
  /\ \E mention \in NamedModels \cup {[name |-> "own", found |-> "no"]}, there \in BOOLEAN :
       IF there
       THEN /\ model' = IF mention.found = "lent" THEN mention.name ELSE model
            /\ analysis' = [analysis EXCEPT !.todo = ChunkDocument(Files[analysis.file].document),
                              !.lent = mention.found = "lent"]
            /\ turn' = [turn EXCEPT !.stage = "chunks"]
            /\ UNCHANGED <<used, pending, recalled, turns>>
       ELSE Concluded("none")

\* A chunk that fails is noted in the place of its answer, and the next one is asked for.
Chunk ==
  /\ turn.stage = "chunks" /\ analysis.todo # <<>>
  /\ analysis' = [analysis EXCEPT !.todo = Tail(@), !.results = @ + 1]
  /\ UNCHANGED <<used, pending, recalled, model, turn, turns>>

Synthesis ==
  /\ turn.stage = "chunks" /\ analysis.todo = <<>>
  /\ \E result \in {"synthesis", "none"} : Concluded(result)

\* Its server does not answer, before the first chunk.
Unreachable == turn.stage = "chunks" /\ analysis.results = 0 /\ Concluded("none")

----------------------------------------------------------------------------
\* The turn is over: answered, or taken back.
Over ==
  /\ turn.stage = "sent" /\ turn' = NoTurn
  /\ \E kept \in BOOLEAN : used' = IF kept THEN used + 1 ELSE used - MessageTokens(turn)
  /\ UNCHANGED <<pending, recalled, model, analysis, turns>>

Clear ==
  /\ turn.stage = "idle" /\ turns < MaxTurns
  /\ used' = 1 /\ pending' = TRUE /\ turns' = turns + 1
  /\ UNCHANGED <<recalled, model, turn, analysis>>

Injects == PassOver \/ TakeWhole \/ ContextFull \/ AskHow \/ FilesDone
Analyses == Chunk \/ Synthesis \/ Unreachable

ContextNext == Begin \/ Mention \/ Injects \/ ReadChunks \/ ReadFile \/ Cancel \/ Instruct \/ Analyses \/ Over \/ Clear

ContextSpec == ContextInit /\ [][ContextNext]_contextVars

----------------------------------------------------------------------------
\* What is recalled is what there is, each thing once, in the order of its kinds, as far
\* as the share of the window reaches (memory_unified.go:99).
RecallFits ==
  recalled # NoRecall =>
    IsRecallOf(recalled.results, recalled.store, recalled.kb, recalled.budget)

\* The log names each row of the knowledge base that entered the prompt, in its order and
\* no other, as an item of the answer and as an injection; a work that kb said was
\* retracted is marked in both (sessionlog_kb.go:197, 214).
RecallIsLogged ==
  recalled # NoRecall =>
    LET told == recalled.told
        entered == Only(recalled.results, Range(RecallKB(recalled.kb).rows))
    IN  /\ Len(told.items) = Len(entered) /\ Len(told.injections) = Len(entered)
        /\ \A i \in DOMAIN entered :
             /\ told.items[i].id = entered[i].id /\ told.injections[i].ref = entered[i].id
             /\ entered[i].retracted = "yes" <=> told.items[i].retracted = "yes" /\ told.injections[i].retracted

\* The files taken whole leave the tenth of the window that is kept back, beside what the
\* conversation holds, what was recalled included, however many there are
\* (budget_tracker.go:62).
InjectedFits ==
  turn.stage \in {"files", "asking", "chunks"} /\ analysis.by # "tool" /\ Window > 0 /\ turn.taken > 0
    => used + turn.taken + Margin <= Window

\* PromptFits: what is put in a prompt unasked, memories and whole files together, is kept
\* to the room there is for it (Recall, Reserve).
PromptFits == RecallFits /\ InjectedFits

\* A model lent for an analysis is given back, however the analysis ends: nobody asks for
\* it, it asks nothing more, and the next turn is not its own (chunk_analyzer.go:77).
LentForAnalysis == model # "own" => analysis.lent /\ turn.stage = "chunks"

\* What is analysed is all of the file, in order: the chunks still to be asked about and
\* those that were are the chunks of the document (chunker.go:239).
AnalysedWhole ==
  LET document == Files[analysis.file].document
  IN  turn.stage = "chunks" =>
        /\ Covers(document)
        /\ analysis.results + Len(analysis.todo) = Len(ChunkDocument(document))
=============================================================================
