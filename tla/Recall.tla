------------------------------- MODULE Recall -------------------------------
(***************************************************************************)
(* What is recalled for a prompt: the facts of the project, then memories  *)
(* found by words and by likeness, then the knowledge base, as far as the  *)
(* share of the window memories may take reaches (memory_unified.go).      *)
(***************************************************************************)
EXTENDS Naturals, Sequences, FiniteSets, SequencesExt

CONSTANTS
  TopK,      \* how many memories are recalled
  KBLimit    \* how many rows of the knowledge base are

ASSUME RecallAssumption == {TopK, KBLimit} \subseteq Nat \ {0}

\* A memory or a row of the knowledge base: its id, what it is and its tokens. A store
\* holds facts, newest first, and what words and likeness find for a prompt, best first;
\* facts may be among these. A row has a kind of its own, may have no text, as long as
\* nobody has reviewed it, and says whether a work it cites was retracted.
Memory == [id : STRING, type : STRING, tokens : Nat]
KBRow == [id : STRING, type : {"kb"}, kind : STRING, tokens : Nat, text : BOOLEAN,
        retracted : {"yes", "no", "unknown"}]

IsStore(store) ==
  /\ {store.facts, store.words, store.alike} \subseteq Seq({m \in Memory : m.type # "kb"})
  /\ IsInjective(store.facts) /\ \A i \in DOMAIN store.facts : store.facts[i].type = "fact"

\* What kb answers is a query, which gives no row twice.
IsAnswer(answer) ==
  /\ answer.rows \in Seq(KBRow)
  /\ \A i, j \in DOMAIN answer.rows : answer.rows[i].id = answer.rows[j].id => i = j

Tokens(results) == FoldLeft(LAMBDA sum, m : sum + m.tokens, 0, results)

----------------------------------------------------------------------------
\* SearchFTS and Query give at most twice what is wanted, facts counted.
Best(found) == SubSeq(found, 1, IF Len(found) < 2 * TopK THEN Len(found) ELSE 2 * TopK)

Wants(out, m) == m.type # "fact" /\ m \notin Range(out) /\ Len(out) < TopK

\* recallExperiential: what words find, then what is alike, when there is an embedder.
Experiential(store, embedder) ==
  FoldLeft(LAMBDA out, m : IF Wants(out, m) THEN Append(out, m) ELSE out,
           <<>>, Best(store.words) \o IF embedder THEN Best(store.alike) ELSE <<>>)

----------------------------------------------------------------------------
(* The knowledge base is a program, kb: it may not be there, not finish, fail, or print  *)
(* what cannot be read; "negative" is its answer when no concept is in the prompt.       *)

KBKinds == {"observation", "record", "document_gist", "document_section"}

Nothing == [failed |-> FALSE, rows |-> <<>>]

KBRecallAt(answer) ==
  CASE answer.status = "answered" -> [failed |-> FALSE, rows |-> answer.rows]
    [] answer.status = "negative" -> Nothing
    [] OTHER                      -> [failed |-> TRUE, rows |-> <<>>]

\* FormatKBRecallHit gives a row its text, in which a retracted work is named as one.
Says(row) == row.text /\ row.kind \in KBKinds

\* Those of a sequence that are in kept, in their order.
Only(results, kept) ==
  FoldLeft(LAMBDA out, m : IF m \in kept THEN Append(out, m) ELSE out, <<>>, results)

\* Without concepts, the observations of the project that hold the words of the prompt;
\* kb says nothing of a retraction then.
RecallKBSubstring(kb) ==
  IF ~kb.project THEN Nothing
  ELSE IF kb.observations.status # "answered" THEN [failed |-> TRUE, rows |-> <<>>]
  ELSE LET rows == Only(kb.observations.rows, {row \in Range(kb.observations.rows) : row.text})
           n == IF Len(rows) < KBLimit THEN Len(rows) ELSE KBLimit
       IN  [failed |-> FALSE, rows |-> [i \in 1 .. n |-> [rows[i] EXCEPT !.retracted = "unknown"]]]

RecallKB(kb) ==
  LET recall == KBRecallAt(kb.concepts)
      rows == Only(recall.rows, {row \in Range(recall.rows) : Says(row)})
  IN  IF recall.failed THEN recall
      ELSE IF rows # <<>> THEN [failed |-> FALSE, rows |-> rows]
      ELSE RecallKBSubstring(kb)

----------------------------------------------------------------------------
\* The first that does not fit ends it, also when smaller ones follow. A budget of 0 is none.
Recalled(candidates, budget) ==
  FoldLeft(LAMBDA r, m : IF r.full \/ (budget > 0 /\ Tokens(r.results) + m.tokens > budget)
                         THEN [r EXCEPT !.full = TRUE]
                         ELSE [r EXCEPT !.results = Append(@, m)],
           [results |-> <<>>, full |-> FALSE], candidates).results

UnifiedRecall(store, kb, embedder, budget) ==
  Recalled(store.facts \o Experiential(store, embedder) \o RecallKB(kb).rows, budget)

KBRowsOf(results) == Only(results, {m \in Range(results) : m.type = "kb"})

\* Variant: what kb answered is listed, not what there was room for.
LogRecallAnswered(results, kb) ==
  [status |-> "ok",
   items |-> RecallKB(kb).rows,
   injections |-> [i \in DOMAIN KBRowsOf(results) |->
                     [ref |-> KBRowsOf(results)[i].id, retracted |-> KBRowsOf(results)[i].retracted = "yes"]]]

\* kb_result and the injections that follow it. The error of kb was forgotten by then.
LogRecall(results, kb) ==
  LET rows == KBRowsOf(results)
  IN  [status |-> "ok", items |-> rows,
       injections |-> [i \in DOMAIN rows |-> [ref |-> rows[i].id, retracted |-> rows[i].retracted = "yes"]]]

----------------------------------------------------------------------------
\* The definition it is compared with: the longest part that fits of what there is to
\* recall, each thing once, in the order of its kinds.
IsRecallOf(results, store, kb, budget) ==
  LET pos(m) == CHOOSE i \in DOMAIN results : results[i] = m
      rank(m) == IF m \in Range(store.facts) THEN 1
                 ELSE IF m \in Range(store.words) \cup Range(store.alike) THEN 2 ELSE 3
      lacking == {i \in DOMAIN store.facts : store.facts[i] \notin Range(results)}
  IN  /\ IsInjective(results)
      /\ budget > 0 => Tokens(results) <= budget
      /\ \A m, n \in Range(results) : rank(m) < rank(n) => pos(m) < pos(n)
      /\ Cardinality({m \in Range(results) : rank(m) = 2}) <= TopK
      /\ lacking # {} => /\ Range(results) \subseteq Range(store.facts)
                          /\ budget > 0 /\ Tokens(results) + store.facts[Min(lacking)].tokens > budget
=============================================================================
