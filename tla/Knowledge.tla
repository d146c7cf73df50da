------------------------------ MODULE Knowledge ------------------------------
(***************************************************************************)
(* What Harvey writes to the knowledge base: /kb draft, which drafts       *)
(* observations from a session in passes; and /kb learn, which ingests     *)
(* documents, drafts summaries of their parts, shows them to the author    *)
(* for acceptance, and tags new concepts in their files.  One command runs *)
(* at a time; each call of a model, answer of the author, write and        *)
(* ingestion is a step, and Ctrl-C, a kill, the author's editor and kb in  *)
(* another shell may come between any two.                                 *)
(***************************************************************************)
EXTENDS Naturals, Sequences, FiniteSets, SequencesExt

CONSTANTS
  Bodies,      \* what an observation may say
  Similar,     \* pairs of bodies that are near enough: not a transitive relation
  Proposals,   \* what one pass may propose: sequences of Bodies
  Passes,      \* numbers of passes a session may split into
  Limits,      \* what --limit may be; 0 is none
  Docs,        \* documents
  Items, DocOf,         \* their sections and wholes, and [Items -> Docs]
  Gists, Blank,         \* the items that are a whole document, or a bare heading
  Fountain,    \* documents that are records, never tagged
  Texts, NoText,        \* what a summary may say
  Concepts, Mentions,   \* candidate concepts, and [Docs -> SUBSET Concepts]
  Faults,      \* the calls that may fail
  MaxCommands, MaxOthers   \* others: edits, commands of kb in a shell and kills

Statuses == {"draft", "trusted", "rejected"}

ASSUME KnowledgeAssumption ==
  /\ Similar \subseteq Bodies \X Bodies
  /\ Proposals \subseteq Seq(Bodies)
  /\ Passes \subseteq Nat \ {0} /\ Limits \subseteq Nat
  /\ DocOf \in [Items -> Docs] /\ Gists \subseteq Items /\ Blank \subseteq Items \ Gists
  /\ Fountain \subseteq Docs /\ Mentions \in [Docs -> SUBSET Concepts]
  /\ NoText \notin Texts
  /\ {MaxCommands, MaxOthers} \subseteq Nat

VARIABLES
  obs,       \* the project's observations, each with the run that drafted it (0: the
             \* author), and how many there were when that run read them
  summary,   \* of each item: none, a draft or trusted; its text; whether the source changed
  file,      \* each document on disk: the author's edit of it, and the concepts tagged in it
  stored,    \* the same, as last ingested; NotStored before
  concepts,  \* the concepts of the knowledge base
  torn,      \* documents left otherwise on disk, by a kill or a write that failed
  job,       \* the command under way
  spent      \* commands given and other things done so far

vars == <<obs, summary, file, stored, concepts, torn, job, spent>>

Documents == <<summary, file, stored, concepts, torn>>

Idle == [kind |-> "none"]
NotStored == [edit |-> 0, tags |-> {}]
NoSummary == [by |-> "none", text |-> NoText, stale |-> FALSE]

Init ==
  /\ obs = <<>> /\ concepts = {} /\ torn = {}
  /\ summary = [i \in Items |-> NoSummary]
  /\ file = [d \in Docs |-> [edit |-> 1, tags |-> {}]]
  /\ stored = [d \in Docs |-> NotStored]
  /\ job = Idle
  /\ spent = [commands |-> 0, others |-> 0]

Given ==
  /\ job = Idle /\ spent.commands < MaxCommands
  /\ spent' = [spent EXCEPT !.commands = @ + 1]

Happens == spent.others < MaxOthers /\ spent' = [spent EXCEPT !.others = @ + 1]

Fails(call) == call \in Faults

----------------------------------------------------------------------------
(* /kb draft *)

SimilarTo(body, held) == \E h \in held : <<body, h>> \in Similar

\* The proposals that are like none held and like none kept before them.
DedupAgainst(proposals, held) ==
  FoldLeft(LAMBDA kept, b : IF SimilarTo(b, held \cup ToSet(kept)) THEN kept ELSE Append(kept, b),
           <<>>, proposals)

\* Variant: only what the author has not rejected is read.
ExistingUnlessRejected == {obs[i].body : i \in {j \in DOMAIN obs : obs[j].status # "rejected"}}

\* Read once, before the first pass; of every status.
ExistingObservationBodies == {obs[i].body : i \in DOMAIN obs}

Draft(passes, limit) ==
  /\ Given
  /\ job' = [kind |-> "drafting", run |-> spent'.commands, passes |-> passes, asked |-> 0,
             limit |-> limit, base |-> Len(obs), held |-> ExistingObservationBodies,
             queue |-> <<>>, stops |-> 0, wrote |-> {}, broken |-> FALSE]
  /\ UNCHANGED <<obs, Documents>>

AskPass ==
  /\ job.kind = "drafting" /\ job.asked < job.passes /\ job.stops = 0
  /\ job' = [job EXCEPT !.kind = "waiting", !.asked = @ + 1]
  /\ UNCHANGED <<obs, Documents, spent>>

PassAnswers(proposals) ==
  /\ job.kind = "waiting"
  /\ LET kept == DedupAgainst(proposals, job.held)
     IN job' = [job EXCEPT !.kind = "drafting", !.held = @ \cup ToSet(kept), !.queue = @ \o kept]
  /\ UNCHANGED <<obs, Documents, spent>>

\* A pass that fails is passed over; one that was cancelled is the last.
PassFails ==
  /\ job.kind = "waiting" /\ (Fails("answer") \/ job.stops = 2)
  /\ job' = [job EXCEPT !.kind = "drafting"]
  /\ UNCHANGED <<obs, Documents, spent>>

StopsAsking ==
  /\ job.kind = "drafting" /\ (job.asked = job.passes \/ job.stops > 0)
  /\ job' = [job EXCEPT !.kind = "writing"]
  /\ UNCHANGED <<obs, Documents, spent>>

Written == Cardinality(job.wrote)
QueueDone ==
  job.broken \/ Written = Len(job.queue) \/ (job.limit > 0 /\ Written >= job.limit)

\* kb may add the row and its answer be lost: the queue stops there all the same.
WriteDraft(row, answer) ==
  /\ job.kind = "writing" /\ ~QueueDone
  /\ row \/ Fails("write")
  /\ answer => row
  /\ answer \/ ~row \/ Fails("reply")
  /\ obs' = IF ~row THEN obs
            ELSE Append(obs, [body |-> job.queue[Written + 1], status |-> "draft",
                              run |-> job.run, base |-> job.base])
  /\ job' = IF answer THEN [job EXCEPT !.wrote = @ \cup {Len(obs')}]
            ELSE [job EXCEPT !.broken = TRUE]
  /\ UNCHANGED <<Documents, spent>>

DraftReports ==
  /\ job.kind = "writing" /\ QueueDone
  /\ job' = Idle
  /\ UNCHANGED <<obs, Documents, spent>>

\* The first Ctrl-C stops after this pass, the second cancels the request.
Interrupt ==
  /\ job.kind \in {"drafting", "waiting", "writing"} /\ job.stops < 2
  /\ job' = [job EXCEPT !.stops = @ + 1]
  /\ UNCHANGED <<obs, Documents, spent>>

(* kb in another shell: the author adds an observation, or promotes or rejects one. *)

ShellAdds(body) ==
  /\ Happens
  /\ obs' = Append(obs, [body |-> body, status |-> "trusted", run |-> 0, base |-> Len(obs)])
  /\ UNCHANGED <<Documents, job>>

ShellReviews(i, status) ==
  /\ Happens
  /\ obs[i].status = "draft"
  /\ obs' = [obs EXCEPT ![i].status = status]
  /\ UNCHANGED <<Documents, job>>

----------------------------------------------------------------------------
(* /kb learn ingest *)

\* Sections of a document that changed keep their summaries, marked stale.
Ingested(d) ==
  /\ stored' = [stored EXCEPT ![d] = file[d]]
  /\ summary' = [i \in Items |->
       IF DocOf[i] = d /\ i \notin Gists /\ summary[i].by # "none" /\ stored[d] # file[d]
       THEN [summary[i] EXCEPT !.stale = TRUE] ELSE summary[i]]
  /\ torn' = torn \ {d}

\* What was ingested before is no candidate, however much it changed since.
Candidates == {d \in Docs : stored[d] = NotStored}

LearnIngest(chosen) ==
  /\ Given
  /\ chosen # {} /\ chosen \subseteq Candidates
  /\ job' = [kind |-> "ingesting", todo |-> chosen]
  /\ UNCHANGED <<obs, Documents>>

IngestNext(d) ==
  /\ job.kind = "ingesting" /\ d \in job.todo
  /\ \/ Ingested(d)
     \/ Fails("ingest") /\ UNCHANGED <<summary, stored, torn>>
  /\ job' = IF job.todo = {d} THEN Idle ELSE [job EXCEPT !.todo = @ \ {d}]
  /\ UNCHANGED <<obs, file, concepts, spent>>

(* /kb learn draft *)

Ready(i) ==
  IF i \notin Gists THEN i \notin Blank
  ELSE LET sections == {s \in Items : DocOf[s] = DocOf[i] /\ s \notin Gists \cup Blank}
       IN sections # {} /\ \A s \in sections : summary[s].by # "none"

\* Sections come before wholes, so that a whole has the summaries drafted just before.
First(items) == IF items \ Gists # {} THEN items \ Gists ELSE items

ItemsThatAre(by) == {i \in Items : stored[DocOf[i]] # NotStored /\ summary[i].by = by}

LearnDraft(limit, thenReview) ==
  /\ Given
  /\ ItemsThatAre("none") \ Blank # {}
  /\ job' = [kind |-> "summarizing", todo |-> ItemsThatAre("none"), limit |-> limit,
             attempted |-> 0, then |-> thenReview]
  /\ UNCHANGED <<obs, Documents>>

Drafted(i, text) ==
  summary' = [summary EXCEPT ![i] = [by |-> "draft", text |-> text, stale |-> FALSE]]

PendingDone == job.todo = {} \/ (job.limit > 0 /\ job.attempted >= job.limit)

DraftPending(i) ==
  /\ job.kind = "summarizing" /\ ~PendingDone /\ i \in First(job.todo)
  /\ \/ ~Ready(i) /\ job' = [job EXCEPT !.todo = @ \ {i}] /\ UNCHANGED summary
     \/ /\ Ready(i)
        /\ job' = [job EXCEPT !.todo = @ \ {i}, !.attempted = @ + 1]
        /\ \/ \E text \in Texts : Drafted(i, text)
           \/ Fails("answer") /\ UNCHANGED summary
  /\ UNCHANGED <<obs, file, stored, concepts, torn, spent>>

----------------------------------------------------------------------------
(* /kb learn review.  The texts are read once, when the review starts. *)

Shows(items, texts) ==
  IF items = {} THEN job' = Idle
  ELSE \E i \in First(items) :
         job' = [kind |-> "reviewing", todo |-> items, at |-> i, texts |-> texts]

ReviewOf(items) == Shows(items, [i \in items |-> summary[i].text])

LearnReview ==
  /\ Given
  /\ ReviewOf(ItemsThatAre("draft"))
  /\ UNCHANGED <<obs, Documents>>

\* Bare /kb learn drafts, then reviews.
DraftReported ==
  /\ job.kind = "summarizing" /\ PendingDone
  /\ IF job.then THEN ReviewOf(ItemsThatAre("draft")) ELSE job' = Idle
  /\ UNCHANGED <<obs, Documents, spent>>

NextItem == Shows(job.todo \ {job.at}, job.texts)

Accept ==
  /\ job.kind = "reviewing"
  /\ \/ summary' = [summary EXCEPT ![job.at].by = "trusted"] /\ NextItem
     \/ Fails("accept") /\ UNCHANGED <<summary, job>>
  /\ UNCHANGED <<obs, file, stored, concepts, torn, spent>>

SkipOrQuit ==
  /\ job.kind = "reviewing"
  /\ NextItem \/ job' = Idle
  /\ UNCHANGED <<obs, Documents, spent>>

\* Variant: what was edited is not read again.
RefreshedNot(text, refreshed) == job' = job

\* What is shown next is the fresh text, if it can be read.
Refreshed(text, refreshed) ==
  job' = IF refreshed THEN [job EXCEPT !.texts[job.at] = text] ELSE job

\* The author's own text, or another of the model: a draft until it is accepted.
EditOrRedraft(text, refreshed) ==
  /\ job.kind = "reviewing"
  /\ refreshed \/ Fails("refresh")
  /\ Drafted(job.at, text)
  /\ Refreshed(text, refreshed)
  /\ UNCHANGED <<obs, file, stored, concepts, torn, spent>>

----------------------------------------------------------------------------
(* /kb learn concepts *)

\* A concept that cannot be added ends the command; those before it are added.
LearnConcepts(picked, added) ==
  /\ Given
  /\ picked # {} /\ picked \cap concepts = {} /\ added \subseteq picked
  /\ added = picked \/ Fails("concept")
  /\ concepts' = concepts \cup added
  /\ job' = IF added # picked THEN Idle
            ELSE [kind |-> "tagging", accepted |-> picked, all |-> FALSE,
                  todo |-> {d \in Docs : stored[d] # NotStored}]
  /\ UNCHANGED <<obs, summary, file, stored, torn>>

Tagged(d, text) == [text EXCEPT !.tags = @ \cup (job.accepted \cap Mentions[d])]

Tagging(all, todo) ==
  job' = [kind |-> "tagging", accepted |-> job.accepted, all |-> all, todo |-> todo]

TaggingAt(kind, all, d, raw) ==
  job' = [kind |-> kind, accepted |-> job.accepted, all |-> all, todo |-> job.todo,
          at |-> d, raw |-> raw]

\* os.WriteFile empties the file first: a text that is not written whole is another text,
\* with some of the tags.
CutShort(d, text) ==
  /\ \E tags \in SUBSET text.tags :
       file' = [file EXCEPT ![d] = [edit |-> file[d].edit + 1, tags |-> tags]]
  /\ torn' = torn \cup {d}

Write(all, d, raw) ==
  \/ /\ file' = [file EXCEPT ![d] = Tagged(d, raw)] /\ UNCHANGED torn
     /\ TaggingAt("tagged", all, d, raw)
  \/ /\ Fails("file") /\ Tagging(all, job.todo \ {d})
     /\ UNCHANGED <<file, torn>> \/ CutShort(d, Tagged(d, raw))

\* The file is read, and what would be written shown to the author.
TagNext(d) ==
  /\ job.kind = "tagging" /\ d \in job.todo
  /\ \/ /\ d \in Fountain \/ Tagged(d, file[d]) = file[d] \/ Fails("refused")
        /\ Tagging(job.all, job.todo \ {d}) /\ UNCHANGED <<file, torn>>
     \/ /\ d \notin Fountain /\ Tagged(d, file[d]) # file[d]
        /\ IF job.all THEN Write(TRUE, d, file[d])
           ELSE TaggingAt("asking", FALSE, d, file[d]) /\ UNCHANGED <<file, torn>>
  /\ UNCHANGED <<obs, summary, stored, concepts, spent>>

\* What was read before the question is what is written after it.
TagAnswer(choice) ==
  /\ job.kind = "asking"
  /\ \/ choice = "no" /\ Tagging(FALSE, job.todo \ {job.at}) /\ UNCHANGED <<file, torn>>
     \/ choice = "quit" /\ job' = Idle /\ UNCHANGED <<file, torn>>
     \/ choice \in {"yes", "all"} /\ Write(choice = "all", job.at, job.raw)
  /\ UNCHANGED <<obs, summary, stored, concepts, spent>>

\* Variant: the file is left as written.
PutBackNot(d, raw) == UNCHANGED <<file, torn>>

PutBack(d, raw) ==
  \/ file' = [file EXCEPT ![d] = raw] /\ UNCHANGED torn
  \/ Fails("restore") /\ torn' = torn \cup {d} /\ UNCHANGED file
  \/ Fails("restore") /\ CutShort(d, raw)

Reingest ==
  /\ job.kind = "tagged"
  /\ \/ Ingested(job.at) /\ UNCHANGED file
     \/ Fails("ingest") /\ PutBack(job.at, job.raw) /\ UNCHANGED <<summary, stored>>
  /\ Tagging(job.all, job.todo \ {job.at})
  /\ UNCHANGED <<obs, concepts, spent>>

TagsReported ==
  /\ job.kind = "tagging" /\ job.todo = {}
  /\ job' = Idle
  /\ UNCHANGED <<obs, Documents, spent>>

----------------------------------------------------------------------------
(* The author's editor, and the end of the process. *)

AuthorEdits(d) ==
  /\ Happens
  /\ file' = [file EXCEPT ![d].edit = @ + 1]
  /\ UNCHANGED <<obs, summary, stored, concepts, torn, job>>

Killed ==
  /\ job # Idle
  /\ Happens
  /\ job' = Idle
  /\ torn' = IF job.kind = "tagged" THEN torn \cup {job.at} ELSE torn
  /\ UNCHANGED <<obs, summary, file, stored, concepts>>

Commands ==
  \/ \E n \in Passes, limit \in Limits : Draft(n, limit)
  \/ \E chosen \in SUBSET Docs : LearnIngest(chosen)
  \/ \E limit \in Limits, thenReview \in BOOLEAN : LearnDraft(limit, thenReview)
  \/ LearnReview
  \/ \E picked, added \in SUBSET Concepts : LearnConcepts(picked, added)

\* What goes on without the author.
Works ==
  \/ AskPass \/ PassFails \/ StopsAsking \/ DraftReports
  \/ \E proposals \in Proposals : PassAnswers(proposals)
  \/ \E row, answer \in BOOLEAN : WriteDraft(row, answer)
  \/ \E d \in Docs : IngestNext(d) \/ TagNext(d)
  \/ \E i \in Items : DraftPending(i)
  \/ DraftReported \/ Reingest \/ TagsReported

AuthorAnswers ==
  \/ Accept \/ SkipOrQuit
  \/ \E text \in Texts, refreshed \in BOOLEAN : EditOrRedraft(text, refreshed)
  \/ \E choice \in {"yes", "no", "all", "quit"} : TagAnswer(choice)

Next ==
  \/ Commands \/ Works \/ AuthorAnswers
  \/ Interrupt \/ Killed
  \/ \E body \in Bodies : ShellAdds(body)
  \/ \E i \in DOMAIN obs, status \in Statuses \ {"draft"} : ShellReviews(i, status)
  \/ \E d \in Docs : AuthorEdits(d)

\* A model answers or its connection breaks, and kb returns or is timed out.
Spec == Init /\ [][Next]_vars /\ WF_vars(Works)

----------------------------------------------------------------------------
(* Properties *)

\* No draft says again what the knowledge base held when its run began (of any status: a
\* rejected one is not proposed anew), nor what Harvey itself drafted before it, in this
\* run, in one that was killed or in one whose answer was lost (DedupAgainst, runKBDraft).
NoDraftTwice ==
  \A j \in DOMAIN obs : obs[j].run > 0 =>
    \A i \in 1 .. j - 1 :
      i <= obs[j].base \/ obs[i].run > 0 => <<obs[j].body, obs[i].body>> \notin Similar

\* What a run says it wrote is in the knowledge base, with at most one more whose answer
\* was lost, in the order proposed and never above the limit (runKBDraft).
DraftsAccounted ==
  job.kind = "writing" =>
    LET mine == {i \in DOMAIN obs : obs[i].run = job.run}
    IN /\ job.wrote \subseteq mine
       /\ Cardinality(mine \ job.wrote) <= (IF job.broken THEN 1 ELSE 0)
       /\ job.limit > 0 => Cardinality(mine) <= job.limit
       /\ \A i \in mine :
            obs[i].body = job.queue[Cardinality({k \in mine : k <= i})]

\* DraftsOnce: a run drafts nothing twice and says of what it drafted neither more nor less
\* (runKBDraft).
DraftsOnce == NoDraftTwice /\ DraftsAccounted

\* No summary is trusted but in the words the author was last shown, while that item was
\* before him (kbLearnReview: "Nothing is trusted until you accept it").
TrustedWasShown ==
  [][\A i \in Items : summary'[i].by = "trusted" /\ summary[i].by # "trusted" =>
       job.kind = "reviewing" /\ job.at = i /\ job.texts[i] = summary'[i].text]_vars

\* A document's file and the knowledge base hold the same tags: a tagging reaches both or
\* neither, but while it is being done, or was killed then, or the file could not be
\* written whole or put back (applyConceptTagWrite).
TagsInBothOrNeither ==
  \A d \in Docs :
    stored[d] # NotStored /\ d \notin torn /\ ~(job.kind = "tagged" /\ job.at = d) =>
      file[d].tags = stored[d].tags

=============================================================================
