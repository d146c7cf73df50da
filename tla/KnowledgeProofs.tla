--------------------------- MODULE KnowledgeProofs ---------------------------
(***************************************************************************)
(* Proofs about what harvey knows, and what it puts before a prompt.       *)
(*                                                                         *)
(* About Knowledge, for every number of passes, documents, items, concepts *)
(* and commands: the tags of a document reach its file and the knowledge   *)
(* base or neither, no summary is trusted that was not shown, what a run   *)
(* says it drafted is what it drafted, and nothing is drafted twice.       *)
(*                                                                         *)
(* About TurnContext, for every store of memories, every answer of the     *)
(* knowledge base, every document and every prompt: what is recalled and   *)
(* the files taken whole fit, the log tells of what was recalled, a model  *)
(* that is lent is given back, and a file is analysed whole.               *)
(***************************************************************************)
EXTENDS Knowledge, TurnContext, FiniteSetTheorems, SequenceTheorems, WellFoundedInduction, TLAPS

-----------------------------------------------------------------------------
(* What each command carries. Only the fields are told; what is in them is *)
(* told where it matters.                                                  *)

DraftKinds == {"drafting", "waiting", "writing"}
TagKinds == {"asking", "tagged"}

Drafting(j) ==
  /\ j.kind \in DraftKinds
  /\ j = [kind |-> j.kind, run |-> j.run, passes |-> j.passes, asked |-> j.asked, limit |-> j.limit,
          base |-> j.base, held |-> j.held, queue |-> j.queue, stops |-> j.stops, wrote |-> j.wrote,
          broken |-> j.broken]
Ingesting(j) == j.kind = "ingesting" /\ j = [kind |-> j.kind, todo |-> j.todo]
Summarizing(j) ==
  /\ j.kind = "summarizing"
  /\ j = [kind |-> j.kind, todo |-> j.todo, limit |-> j.limit, attempted |-> j.attempted, then |-> j.then]
Reviewing(j) ==
  j.kind = "reviewing" /\ j = [kind |-> j.kind, todo |-> j.todo, at |-> j.at, texts |-> j.texts]
TaggingJob(j) ==
  j.kind = "tagging" /\ j = [kind |-> j.kind, accepted |-> j.accepted, all |-> j.all, todo |-> j.todo]
TagJob(j) ==
  /\ j.kind \in TagKinds
  /\ j = [kind |-> j.kind, accepted |-> j.accepted, all |-> j.all, todo |-> j.todo, at |-> j.at, raw |-> j.raw]

JobInv ==
  job = Idle \/ Drafting(job) \/ Ingesting(job) \/ Summarizing(job) \/ Reviewing(job)
    \/ TaggingJob(job) \/ TagJob(job)

LEMMA IdleKind == Idle.kind = "none"
BY DEF Idle

\* A step of /kb draft leaves what it does not name.
Same(i, j) ==
  /\ Drafting(j) /\ j.run = i.run /\ j.limit = i.limit /\ j.base = i.base

LEMMA KindStep ==
  ASSUME NEW i, Drafting(i), NEW k \in DraftKinds
  PROVE  LET j == [i EXCEPT !.kind = k] IN
         Same(i, j) /\ j.kind = k /\ j.held = i.held /\ j.queue = i.queue /\ j.wrote = i.wrote /\ j.broken = i.broken
BY DEF Drafting, Same, DraftKinds

LEMMA AskedStep ==
  ASSUME NEW i, Drafting(i), NEW a
  PROVE  LET j == [i EXCEPT !.asked = a] IN
         Same(i, j) /\ j.kind = i.kind /\ j.held = i.held /\ j.queue = i.queue /\ j.wrote = i.wrote /\ j.broken = i.broken
BY DEF Drafting, Same, DraftKinds

LEMMA QueueStep ==
  ASSUME NEW i, Drafting(i), NEW q
  PROVE  LET j == [i EXCEPT !.queue = q] IN
         Same(i, j) /\ j.kind = i.kind /\ j.held = i.held /\ j.queue = q /\ j.wrote = i.wrote /\ j.broken = i.broken
BY DEF Drafting, Same, DraftKinds

LEMMA HeldStep ==
  ASSUME NEW i, Drafting(i), NEW h
  PROVE  LET j == [i EXCEPT !.held = h] IN
         Same(i, j) /\ j.kind = i.kind /\ j.held = h /\ j.queue = i.queue /\ j.wrote = i.wrote /\ j.broken = i.broken
BY DEF Drafting, Same, DraftKinds

LEMMA StopsStep ==
  ASSUME NEW i, Drafting(i), NEW s
  PROVE  LET j == [i EXCEPT !.stops = s] IN
         Same(i, j) /\ j.kind = i.kind /\ j.held = i.held /\ j.queue = i.queue /\ j.wrote = i.wrote /\ j.broken = i.broken
BY DEF Drafting, Same, DraftKinds

LEMMA WroteStep ==
  ASSUME NEW i, Drafting(i), NEW w
  PROVE  LET j == [i EXCEPT !.wrote = w] IN
         Same(i, j) /\ j.kind = i.kind /\ j.held = i.held /\ j.queue = i.queue /\ j.wrote = w /\ j.broken = i.broken
BY DEF Drafting, Same, DraftKinds

LEMMA BrokenStep ==
  ASSUME NEW i, Drafting(i), NEW b
  PROVE  LET j == [i EXCEPT !.broken = b] IN
         Same(i, j) /\ j.kind = i.kind /\ j.held = i.held /\ j.queue = i.queue /\ j.wrote = i.wrote /\ j.broken = b
BY DEF Drafting, Same, DraftKinds

LEMMA DraftKindIsDrafting ==
  ASSUME JobInv, job.kind \in DraftKinds
  PROVE  Drafting(job)
BY IdleKind DEF JobInv, Ingesting, Summarizing, Reviewing, TaggingJob, TagJob, DraftKinds, TagKinds

-----------------------------------------------------------------------------
(* Observations.                                                           *)

Row(r) == r = [body |-> r.body, status |-> r.status, run |-> r.run, base |-> r.base] /\ r.run \in Nat

Mine(os, r) == {i \in DOMAIN os : os[i].run = r}

\* The rows of a run are its queue from the front.
InOrder(os, j) ==
  \A i \in Mine(os, j.run) :
    os[i].body = j.queue[Cardinality({k \in Mine(os, j.run) : k <= i})]

\* No row is of a run to come.
ObsInv ==
  /\ spent = [commands |-> spent.commands, others |-> spent.others] /\ spent.commands \in Nat
  /\ obs \in Seq(Range(obs))
  /\ \A i \in DOMAIN obs : Row(obs[i]) /\ obs[i].run <= spent.commands

\* What a run wrote and what it knows of it differ by one row at most, once it is broken.
Told(os, j) ==
  /\ j.limit \in Nat /\ j.broken \in BOOLEAN
  /\ j.kind # "writing" => j.wrote = {} /\ ~j.broken
  /\ ~j.broken => Mine(os, j.run) = j.wrote
  /\ j.broken => j.wrote \subseteq Mine(os, j.run) /\ \E x : Mine(os, j.run) \ j.wrote \subseteq {x}
  /\ j.limit > 0 => Cardinality(Mine(os, j.run)) <= j.limit
  /\ InOrder(os, j)

DraftInv == job.kind \in DraftKinds => job.run \in 1 .. spent.commands /\ Told(obs, job)

LEMMA AppendRow ==
  ASSUME NEW s, s \in Seq(Range(s)), NEW r
  PROVE  LET t == Append(s, r) IN
         /\ t \in Seq(Range(t)) /\ Len(s) \in Nat /\ Len(t) = Len(s) + 1
         /\ DOMAIN s = 1 .. Len(s) /\ DOMAIN t = 1 .. Len(s) + 1
         /\ t[Len(s) + 1] = r /\ \A i \in 1 .. Len(s) : t[i] = s[i]
<1> DEFINE S == Range(s) \cup {r}
           t == Append(s, r)
<1>1. s \in Seq(S) /\ Len(s) \in Nat /\ DOMAIN s = 1 .. Len(s)
  BY SeqMonotonic, LenProperties
<1>2. t \in Seq(S) /\ Len(t) = Len(s) + 1 /\ t[Len(s) + 1] = r /\ \A i \in 1 .. Len(s) : t[i] = s[i]
  BY <1>1, AppendProperties
<1> HIDE DEF t, S
<1>3. t \in Seq(Range(t)) /\ DOMAIN t = 1 .. Len(s) + 1
  BY <1>1, <1>2, SeqOfRange, LenProperties
<1> QED
  BY <1>1, <1>2, <1>3 DEF t


LEMMA MineIsFinite ==
  ASSUME ObsInv, NEW r
  PROVE  /\ DOMAIN obs = 1 .. Len(obs) /\ Len(obs) \in Nat
         /\ Mine(obs, r) \in SUBSET (1 .. Len(obs))
         /\ IsFiniteSet(Mine(obs, r)) /\ Cardinality(Mine(obs, r)) \in Nat
<1>1. DOMAIN obs = 1 .. Len(obs) /\ Len(obs) \in Nat
  BY LenProperties DEF ObsInv
<1>2. Mine(obs, r) \in SUBSET (1 .. Len(obs))
  BY <1>1 DEF Mine
<1>3. IsFiniteSet(1 .. Len(obs))
  BY <1>1, FS_Interval
<1> QED
  BY <1>1, <1>2, <1>3, FS_Subset, FS_CardinalityType

\* A row of a run is its next, or a row is of another run.
LEMMA RowAdded ==
  ASSUME ObsInv, NEW row, Row(row), row.run <= spent.commands, obs' = Append(obs, row),
         spent'.commands = spent.commands,
         spent' = [commands |-> spent'.commands, others |-> spent'.others]
  PROVE  /\ ObsInv' /\ Len(obs) + 1 \notin Mine(obs, row.run)
         /\ Mine(obs', row.run) = Mine(obs, row.run) \cup {Len(obs) + 1}
         /\ \A r : r # row.run => Mine(obs', r) = Mine(obs, r)
         /\ Len(obs') = Len(obs) + 1 /\ obs'[Len(obs) + 1] = row
         /\ \A i \in 1 .. Len(obs) : obs'[i] = obs[i]
<1>1. /\ obs' \in Seq(Range(obs')) /\ Len(obs) \in Nat /\ Len(obs') = Len(obs) + 1
      /\ DOMAIN obs = 1 .. Len(obs) /\ DOMAIN obs' = 1 .. Len(obs) + 1
      /\ obs'[Len(obs) + 1] = row /\ \A i \in 1 .. Len(obs) : obs'[i] = obs[i]
  BY AppendRow DEF ObsInv
<1>2. \A i \in 1 .. Len(obs) + 1 : i \in 1 .. Len(obs) \/ i = Len(obs) + 1
  BY <1>1
<1>3. ObsInv'
  BY <1>1, <1>2 DEF ObsInv
<1>4. \A r : Mine(obs', r) = {i \in 1 .. Len(obs) : obs[i].run = r} \cup {i \in {Len(obs) + 1} : row.run = r}
  <2>1. ASSUME NEW r PROVE Mine(obs', r) = {i \in 1 .. Len(obs) : obs[i].run = r} \cup {i \in {Len(obs) + 1} : row.run = r}
    BY <1>1, <1>2 DEF Mine
  <2> QED
    BY <2>1
<1>5. \A r : Mine(obs, r) = {i \in 1 .. Len(obs) : obs[i].run = r}
  BY <1>1 DEF Mine
<1>6. Len(obs) + 1 \notin 1 .. Len(obs)
  BY <1>1
<1>7. Len(obs) + 1 \notin Mine(obs, row.run)
  BY <1>5, <1>6
<1>8. Mine(obs', row.run) = Mine(obs, row.run) \cup {Len(obs) + 1}
  BY <1>4, <1>5
<1>9. \A r : r # row.run => Mine(obs', r) = Mine(obs, r)
  <2>1. ASSUME NEW r, r # row.run PROVE Mine(obs', r) = Mine(obs, r)
    BY <1>4, <1>5, <2>1
  <2> QED
    BY <2>1
<1> QED
  BY <1>1, <1>3, <1>7, <1>8, <1>9

\* Steps that write no row of the run at hand leave what was told of it.
LEMMA ToldStays ==
  ASSUME NEW os, NEW i, Told(os, i), NEW j, Same(i, j), j.queue = i.queue, j.wrote = i.wrote,
         j.broken = i.broken, i.kind = j.kind \/ j.kind = "writing" \/ i.kind # "writing"
  PROVE  Told(os, j)
BY DEF Told, Same, InOrder

\* A run that begins has no rows.
LEMMA NewRun ==
  ASSUME ObsInv, spent' = [spent EXCEPT !.commands = @ + 1]
  PROVE  /\ spent'.commands = spent.commands + 1 /\ spent'.commands \in Nat
         /\ spent' = [commands |-> spent'.commands, others |-> spent'.others]
         /\ Mine(obs, spent'.commands) = {}
<1>1. spent'.commands = spent.commands + 1 /\ spent.commands \in Nat
        /\ spent' = [commands |-> spent'.commands, others |-> spent'.others]
  BY DEF ObsInv
<1>2. \A i \in DOMAIN obs : obs[i].run <= spent.commands /\ obs[i].run \in Nat
  BY DEF ObsInv, Row
<1>3. \A i \in DOMAIN obs : obs[i].run # spent'.commands
  BY <1>1, <1>2
<1> QED
  BY <1>1, <1>3 DEF Mine

LEMMA NothingWritten ==
  ASSUME NEW j, Mine(obs, j.run) = {}, j.wrote = {}, j.broken = FALSE, j.limit \in Nat
  PROVE  Told(obs, j)
<1>1. Cardinality(Mine(obs, j.run)) = 0
  BY FS_EmptySet
<1>2. InOrder(obs, j)
  BY DEF InOrder
<1>3. j.limit > 0 => Cardinality(Mine(obs, j.run)) <= j.limit
  BY <1>1
<1>4. Mine(obs, j.run) = j.wrote /\ j.broken \in BOOLEAN /\ ~j.broken
  OBVIOUS
<1> QED
  BY <1>2, <1>3, <1>4 DEF Told

-----------------------------------------------------------------------------
(* The steps of /kb draft.                                                 *)

\* Of the command under way nothing changes but its place and what it has asked.
Onward == Same(job, job') /\ job'.held = job.held /\ job'.queue = job.queue /\ job'.wrote = job.wrote /\ job'.broken = job.broken

LEMMA AskPassJob ==
  ASSUME JobInv, AskPass
  PROVE  Onward /\ job.kind = "drafting" /\ job'.kind = "waiting"
<1>1. Drafting(job)
  BY DraftKindIsDrafting DEF AskPass, DraftKinds
<1> DEFINE one == [job EXCEPT !.kind = "waiting"]
<1>2. Same(job, one) /\ one.kind = "waiting" /\ one.held = job.held /\ one.queue = job.queue /\ one.wrote = job.wrote /\ one.broken = job.broken
  BY <1>1, KindStep DEF DraftKinds
<1>3. job' = [one EXCEPT !.asked = job.asked + 1] /\ job.kind = "drafting"
  BY <1>1 DEF AskPass, Drafting
<1> HIDE DEF one
<1>4. /\ Same(one, job') /\ job'.kind = one.kind /\ job'.held = one.held /\ job'.queue = one.queue /\ job'.wrote = one.wrote
      /\ job'.broken = one.broken
  BY <1>2, <1>3, AskedStep DEF Same
<1> QED
  BY <1>2, <1>3, <1>4 DEF Same, Onward

LEMMA PassAnswersJob ==
  ASSUME JobInv, NEW proposals, PassAnswers(proposals)
  PROVE  /\ Same(job, job') /\ job.kind = "waiting" /\ job'.kind = "drafting"
         /\ job'.wrote = job.wrote /\ job'.broken = job.broken
         /\ job'.held = job.held \cup ToSet(DedupAgainst(proposals, job.held))
         /\ job'.queue = job.queue \o DedupAgainst(proposals, job.held)
<1>1. Drafting(job)
  BY DraftKindIsDrafting DEF PassAnswers, DraftKinds
<1> DEFINE kept == DedupAgainst(proposals, job.held)
           h == job.held \cup ToSet(kept)
           q == job.queue \o kept
           one == [job EXCEPT !.kind = "drafting"]
           two == [one EXCEPT !.held = h]
<1>2. job' = [two EXCEPT !.queue = q] /\ job.kind = "waiting"
  <2> HIDE DEF kept
  <2>1. job' = [job EXCEPT !.kind = "drafting", !.held = @ \cup ToSet(kept), !.queue = @ \o kept]
    BY DEF PassAnswers, kept
  <2> QED
    BY <1>1, <2>1 DEF PassAnswers, Drafting
<1>3. Same(job, one) /\ one.kind = "drafting" /\ one.wrote = job.wrote /\ one.broken = job.broken
  BY <1>1, KindStep DEF DraftKinds
<1> HIDE DEF one, h, q
<1>4. Same(one, two) /\ two.kind = one.kind /\ two.held = h /\ two.wrote = one.wrote /\ two.broken = one.broken
  BY <1>3, HeldStep DEF Same
<1> HIDE DEF two
<1>5. Same(two, job') /\ job'.kind = two.kind /\ job'.held = two.held /\ job'.queue = q /\ job'.wrote = two.wrote /\ job'.broken = two.broken
  BY SMTT(30), <1>2, <1>4, QueueStep DEF Same
<1> QED
  BY <1>2, <1>3, <1>4, <1>5 DEF Same, h, q

LEMMA OnwardJob ==
  ASSUME JobInv, PassFails \/ StopsAsking \/ Interrupt
  PROVE  /\ Onward /\ job.kind \in DraftKinds
         /\ job'.kind = job.kind \/ job'.kind = "writing" \/ job.kind # "writing"
<1>1. Drafting(job) /\ job.kind \in DraftKinds
  BY DraftKindIsDrafting DEF PassFails, StopsAsking, Interrupt, DraftKinds
<1>2. CASE PassFails \/ StopsAsking
  <2>1. PICK k \in {"drafting", "writing"} :
          job' = [job EXCEPT !.kind = k] /\ (job.kind # "writing" \/ k = "writing")
    BY <1>2 DEF PassFails, StopsAsking
  <2>2. k \in DraftKinds
    BY DEF DraftKinds
  <2> QED
    BY <1>1, <2>1, <2>2, KindStep DEF Onward
<1>3. CASE Interrupt
  <2>1. job' = [job EXCEPT !.stops = job.stops + 1]
    BY <1>1, <1>3 DEF Interrupt, Drafting
  <2> QED
    BY <1>1, <2>1, StopsStep DEF Onward
<1> QED
  BY <1>2, <1>3

LEMMA WriteDraftJob ==
  ASSUME JobInv, NEW row, NEW answer, WriteDraft(row, answer)
  PROVE  /\ Same(job, job') /\ job.kind = "writing" /\ job'.kind = "writing"
         /\ job'.held = job.held /\ job'.queue = job.queue
         /\ answer  => job'.wrote = job.wrote \cup {Len(obs')} /\ job'.broken = job.broken
         /\ ~answer => job'.wrote = job.wrote /\ job'.broken = TRUE
<1>1. Drafting(job) /\ job.kind = "writing"
  BY DraftKindIsDrafting DEF WriteDraft, DraftKinds
<1>2. CASE answer
  <2>1. job' = [job EXCEPT !.wrote = job.wrote \cup {Len(obs')}]
    BY <1>1, <1>2 DEF WriteDraft, Drafting
  <2> QED
    BY <1>1, <1>2, <2>1, WroteStep
<1>3. CASE ~answer
  <2>1. job' = [job EXCEPT !.broken = TRUE]
    BY <1>3 DEF WriteDraft
  <2> QED
    BY <1>1, <1>3, <2>1, BrokenStep
<1> QED
  BY <1>2, <1>3

LEMMA WriteDraftTold ==
  ASSUME JobInv, ObsInv, DraftInv, NEW row \in BOOLEAN, NEW answer \in BOOLEAN, WriteDraft(row, answer)
  PROVE  ObsInv' /\ DraftInv'
<1> DEFINE m == Mine(obs, job.run)
           n == Len(obs)
           new == [body |-> job.queue[Written + 1], status |-> "draft", run |-> job.run, base |-> job.base]
<1>1. job.run \in 1 .. spent.commands /\ Told(obs, job) /\ job.kind = "writing" /\ spent' = spent
  BY DEF WriteDraft, DraftInv, DraftKinds
<1>2. ~job.broken /\ m = job.wrote /\ (job.limit > 0 => ~(Written >= job.limit)) /\ job.limit \in Nat
  BY <1>1 DEF WriteDraft, QueueDone, Told
<1>3. /\ Same(job, job') /\ job'.kind = "writing" /\ job'.queue = job.queue
      /\ answer  => job'.wrote = job.wrote \cup {Len(obs')} /\ job'.broken = job.broken
      /\ ~answer => job'.wrote = job.wrote /\ job'.broken = TRUE
  BY WriteDraftJob
<1>4. /\ n \in Nat /\ DOMAIN obs = 1 .. n /\ m \in SUBSET (1 .. n) /\ IsFiniteSet(m)
      /\ Cardinality(m) \in Nat /\ Written = Cardinality(m)
  BY <1>2, MineIsFinite DEF Written
<1>5. job'.run = job.run /\ job'.limit = job.limit
  BY <1>3 DEF Same
<1>6. CASE ~row
  <2>1. obs' = obs /\ ~answer
    BY <1>6 DEF WriteDraft
  <2>2. Mine(obs', job'.run) = m /\ m \ job'.wrote \subseteq {0} /\ job'.broken = TRUE /\ job'.wrote = m
    BY <1>2, <1>3, <1>5, <2>1
  <2>3. InOrder(obs', job')
    BY <1>1, <1>3, <1>5, <2>1 DEF Told, InOrder
  <2>4. Told(obs', job')
    BY <1>1, <1>3, <1>5, <2>1, <2>2, <2>3 DEF Told
  <2> QED
    BY <1>1, <1>5, <2>1, <2>4 DEF DraftInv, ObsInv
<1>7. CASE row
  <2>1. obs' = Append(obs, new)
    BY <1>7 DEF WriteDraft
  <2>2. Row(new) /\ new.run = job.run /\ new.run <= spent.commands
    BY <1>1 DEF Row, ObsInv
  <2>3. /\ ObsInv' /\ n + 1 \notin m /\ Mine(obs', job.run) = m \cup {n + 1}
        /\ Len(obs') = n + 1 /\ obs'[n + 1] = new /\ \A i \in 1 .. n : obs'[i] = obs[i]
    BY <1>1, <2>1, <2>2, RowAdded DEF ObsInv
  <2> DEFINE m1 == Mine(obs', job.run)
  <2>4. Cardinality(m1) = Written + 1
    BY ZenonT(60), <1>4, <2>3, FS_AddElement
  <2>5. ASSUME NEW i \in m1
        PROVE  obs'[i].body = job'.queue[Cardinality({k \in m1 : k <= i})]
    <3>1. CASE i \in m
      <4>1. {k \in m1 : k <= i} = {k \in m : k <= i}
        BY <1>4, <2>3, <3>1
      <4>2. obs'[i] = obs[i]
        BY <1>4, <2>3, <3>1
      <4>3. obs[i].body = job.queue[Cardinality({k \in m : k <= i})]
        BY <1>1, <3>1 DEF Told, InOrder
      <4> QED
        BY <1>3, <4>1, <4>2, <4>3
    <3>2. CASE i = n + 1
      <4>1. {k \in m1 : k <= i} = m1
        BY <1>4, <2>3, <3>2
      <4>2. obs'[i].body = job.queue[Written + 1]
        BY <2>3, <3>2
      <4> QED
        BY <1>3, <2>4, <4>1, <4>2
    <3> QED
      BY <2>3, <3>1, <3>2
  <2>6. InOrder(obs', job')
    BY <1>5, <2>5 DEF InOrder
  <2>7. job'.limit > 0 => Cardinality(Mine(obs', job'.run)) <= job'.limit
    BY <1>2, <1>4, <1>5, <2>4
  <2>8. CASE answer
    <3>1. Mine(obs', job'.run) = job'.wrote /\ ~job'.broken /\ job'.broken \in BOOLEAN
      BY <1>1, <1>2, <1>3, <1>5, <2>3, <2>8 DEF Told
    <3>2. Told(obs', job')
      BY <1>2, <1>3, <1>5, <2>6, <2>7, <3>1 DEF Told
    <3> QED
      BY <1>1, <1>5, <2>3, <3>2 DEF DraftInv
  <2>9. CASE ~answer
    <3>1. job'.wrote \subseteq Mine(obs', job'.run) /\ Mine(obs', job'.run) \ job'.wrote \subseteq {n + 1}
            /\ job'.broken = TRUE
      BY <1>2, <1>3, <1>5, <2>3, <2>9
    <3>2. Told(obs', job')
      BY <1>2, <1>3, <1>5, <2>6, <2>7, <3>1 DEF Told
    <3> QED
      BY <1>1, <1>5, <2>3, <3>2 DEF DraftInv
  <2> QED
    BY <2>8, <2>9
<1> QED
  BY <1>6, <1>7

-----------------------------------------------------------------------------
(* The command under way is always one of those told above.                *)

\* Steps of which the command afterwards is /kb draft, or is not.
DraftActions ==
  \/ AskPass \/ PassFails \/ StopsAsking \/ Interrupt
  \/ \E proposals \in Proposals : PassAnswers(proposals)
  \/ \E row, answer \in BOOLEAN : WriteDraft(row, answer)

ReviewActions ==
  \/ Accept \/ SkipOrQuit \/ DraftReported \/ LearnReview
  \/ \E text \in Texts, refreshed \in BOOLEAN : EditOrRedraft(text, refreshed)

TagActions ==
  \/ \E picked, added \in SUBSET Concepts : LearnConcepts(picked, added)
  \/ \E d \in Docs : TagNext(d)
  \/ \E choice \in {"yes", "no", "all", "quit"} : TagAnswer(choice)
  \/ Reingest

\* The rest leaves no command, or one to ingest or to summarize.
OtherActions ==
  \/ DraftReports \/ TagsReported \/ Killed
  \/ \E chosen \in SUBSET Docs : LearnIngest(chosen)
  \/ \E d \in Docs : IngestNext(d)
  \/ \E limit \in Limits, thenReview \in BOOLEAN : LearnDraft(limit, thenReview)
  \/ \E i \in Items : DraftPending(i)

Outside ==
  \/ \E body \in Bodies : ShellAdds(body)
  \/ \E i \in DOMAIN obs, status \in Statuses \ {"draft"} : ShellReviews(i, status)
  \/ \E d \in Docs : AuthorEdits(d)

LEMMA NextIs ==
  Next <=> \/ \E n \in Passes, limit \in Limits : Draft(n, limit)
           \/ DraftActions \/ ReviewActions \/ TagActions \/ OtherActions \/ Outside
BY DEF Next, Commands, Works, AuthorAnswers, DraftActions, ReviewActions, TagActions, OtherActions, Outside

LEMMA DraftActionsJob ==
  ASSUME JobInv, DraftActions
  PROVE  JobInv' /\ job.kind \in DraftKinds /\ job'.kind \in DraftKinds
<1>1. Drafting(job') /\ job.kind \in DraftKinds
  BY AskPassJob, PassAnswersJob, OnwardJob, WriteDraftJob DEF DraftActions, Onward, Same, DraftKinds
<1> QED
  BY <1>1 DEF JobInv, Drafting

LEMMA DraftJob ==
  ASSUME NEW n, NEW limit, Draft(n, limit)
  PROVE  /\ Drafting(job') /\ job'.kind = "drafting" /\ job'.run = spent'.commands
         /\ job'.limit = limit /\ job'.wrote = {} /\ job'.broken = FALSE
BY DEF Draft, Drafting, DraftKinds

LEMMA ShowsJob ==
  ASSUME NEW items, NEW texts, Shows(items, texts)
  PROVE  \/ job' = Idle
         \/ /\ Reviewing(job') /\ job'.todo = items /\ job'.texts = texts /\ job'.at \in items
<1>1. First(items) \subseteq items
  BY DEF First
<1> QED
  BY <1>1 DEF Shows, Reviewing

LEMMA EditJob ==
  ASSUME NEW j, Reviewing(j), NEW t
  PROVE  LET k == [j EXCEPT !.texts = t] IN
         Reviewing(k) /\ k.todo = j.todo /\ k.at = j.at /\ k.texts = t
BY DEF Reviewing

LEMMA EditOrRedraftJob ==
  ASSUME JobInv, NEW text, NEW refreshed, EditOrRedraft(text, refreshed)
  PROVE  /\ Reviewing(job) /\ Reviewing(job') /\ job'.todo = job.todo /\ job'.at = job.at
         /\ job'.texts = IF refreshed THEN [job.texts EXCEPT ![job.at] = text] ELSE job.texts
<1>1. Reviewing(job)
  BY IdleKind DEF EditOrRedraft, JobInv, Drafting, DraftKinds, Ingesting, Summarizing, TaggingJob, TagJob, TagKinds
<1>2. CASE refreshed
  <2>1. job' = [job EXCEPT !.texts = [job.texts EXCEPT ![job.at] = text]]
    BY <1>1, <1>2 DEF EditOrRedraft, Refreshed, Reviewing
  <2> QED
    BY <1>1, <1>2, <2>1, EditJob
<1>3. CASE ~refreshed
  BY <1>1, <1>3 DEF EditOrRedraft, Refreshed
<1> QED
  BY <1>2, <1>3

LEMMA ReviewActionsJob ==
  ASSUME JobInv, ReviewActions
  PROVE  JobInv' /\ (job' = Idle \/ Reviewing(job') \/ job' = job)
<1>1. job' = Idle \/ Reviewing(job') \/ job' = job
  BY ShowsJob, EditOrRedraftJob DEF ReviewActions, Accept, SkipOrQuit, DraftReported, LearnReview, NextItem, ReviewOf
<1> QED
  BY <1>1 DEF JobInv

LEMMA TaggingIs ==
  ASSUME NEW all, NEW todo, NEW kind \in TagKinds, NEW d, NEW raw
  PROVE  /\ Tagging(all, todo) => /\ TaggingJob(job') /\ job'.accepted = job.accepted
                                  /\ job'.todo = todo
         /\ TaggingAt(kind, all, d, raw) =>
              /\ TagJob(job') /\ job'.kind = kind /\ job'.accepted = job.accepted /\ job'.todo = job.todo
              /\ job'.at = d /\ job'.raw = raw
BY DEF Tagging, TaggingAt, TaggingJob, TagJob, TagKinds

LEMMA WriteJob ==
  ASSUME NEW all, NEW d, NEW raw, Write(all, d, raw)
  PROVE  /\ job'.accepted = job.accepted
         /\ \/ /\ TagJob(job') /\ job'.kind = "tagged" /\ job'.todo = job.todo /\ job'.at = d /\ job'.raw = raw
               /\ file' = [file EXCEPT ![d] = Tagged(d, raw)] /\ torn' = torn
            \/ /\ TaggingJob(job') /\ job'.todo = job.todo \ {d}
               /\ (file' = file /\ torn' = torn) \/ CutShort(d, Tagged(d, raw))
BY TaggingIs DEF Write, TagKinds

LEMMA TagActionsJob ==
  ASSUME TagActions
  PROVE  JobInv' /\ (job' = Idle \/ TaggingJob(job') \/ TagJob(job'))
<1>1. CASE \E picked, added \in SUBSET Concepts : LearnConcepts(picked, added)
  <2>1. \A p, a, t : TaggingJob([kind |-> "tagging", accepted |-> p, all |-> a, todo |-> t])
    BY DEF TaggingJob
  <2>2. PICK picked, added \in SUBSET Concepts : LearnConcepts(picked, added)
    BY <1>1
  <2>3. job' = Idle \/ \E p, a, t : job' = [kind |-> "tagging", accepted |-> p, all |-> a, todo |-> t]
    BY <2>2, Zenon DEF LearnConcepts
  <2>4. job' = Idle \/ TaggingJob(job')
    BY <2>1, <2>3
  <2> QED
    BY <2>4 DEF JobInv
<1>2. CASE \E d \in Docs : TagNext(d)
  <2>1. TaggingJob(job') \/ TagJob(job')
    BY <1>2, TaggingIs, WriteJob DEF TagNext, TagKinds
  <2> QED
    BY <2>1 DEF JobInv
<1>3. CASE \E choice \in {"yes", "no", "all", "quit"} : TagAnswer(choice)
  <2>1. \/ \E all, todo : Tagging(all, todo)
        \/ job' = Idle
        \/ \E all, d, raw : Write(all, d, raw)
    BY <1>3, Zenon DEF TagAnswer
  <2>2. job' = Idle \/ TaggingJob(job') \/ TagJob(job')
    BY <2>1, TaggingIs, WriteJob DEF TagKinds
  <2> QED
    BY <2>2 DEF JobInv
<1>4. CASE Reingest
  <2>1. TaggingJob(job')
    BY <1>4, TaggingIs DEF Reingest, TagKinds
  <2> QED
    BY <2>1 DEF JobInv
<1> QED
  BY <1>1, <1>2, <1>3, <1>4 DEF TagActions

LEMMA TodoStep ==
  /\ \A j : Ingesting(j) => \A t : Ingesting([j EXCEPT !.todo = t])
  /\ \A j : Summarizing(j) => \A t, a : Summarizing([j EXCEPT !.todo = t]) /\ Summarizing([j EXCEPT !.attempted = a])
BY DEF Ingesting, Summarizing

LEMMA OtherActionsJob ==
  ASSUME JobInv, OtherActions
  PROVE  JobInv' /\ (job' = Idle \/ Ingesting(job') \/ Summarizing(job'))
<1>1. CASE DraftReports \/ TagsReported \/ Killed
  <2>1. job' = Idle
    BY <1>1 DEF DraftReports, TagsReported, Killed
  <2> QED
    BY <2>1 DEF JobInv
<1>2. CASE \E chosen \in SUBSET Docs : LearnIngest(chosen)
  <2>1. Ingesting(job')
    BY <1>2 DEF LearnIngest, Ingesting
  <2> QED
    BY <2>1 DEF JobInv
<1>3. CASE \E d \in Docs : IngestNext(d)
  <2>1. Ingesting(job)
    BY <1>3, IdleKind DEF IngestNext, JobInv, Drafting, DraftKinds, Reviewing, Summarizing, TaggingJob, TagJob, TagKinds
  <2>2. job' = Idle \/ \E t : job' = [job EXCEPT !.todo = t]
    BY <1>3, <2>1 DEF IngestNext, Ingesting
  <2>3. job' = Idle \/ Ingesting(job')
    BY <2>1, <2>2, TodoStep
  <2> QED
    BY <2>3 DEF JobInv
<1>4. CASE \E limit \in Limits, thenReview \in BOOLEAN : LearnDraft(limit, thenReview)
  <2>1. Summarizing(job')
    BY <1>4 DEF LearnDraft, Summarizing
  <2> QED
    BY <2>1 DEF JobInv
<1>5. CASE \E i \in Items : DraftPending(i)
  <2>1. Summarizing(job)
    BY <1>5, IdleKind DEF DraftPending, JobInv, Drafting, DraftKinds, Reviewing, Ingesting, TaggingJob, TagJob, TagKinds
  <2>2. PICK i \in Items : DraftPending(i)
    BY <1>5
  <2> DEFINE one == [job EXCEPT !.todo = @ \ {i}]
  <2>3. job' = one \/ job' = [one EXCEPT !.attempted = job.attempted + 1]
    BY <2>1, <2>2 DEF DraftPending, Summarizing
  <2>4. Summarizing(one)
    BY <2>1, TodoStep
  <2> HIDE DEF one
  <2>5. Summarizing(job')
    BY ZenonT(60), <2>3, <2>4, TodoStep
  <2> QED
    BY <2>5 DEF JobInv
<1> QED
  BY <1>1, <1>2, <1>3, <1>4, <1>5 DEF OtherActions

LEMMA JobStep ==
  ASSUME JobInv, [Next]_vars
  PROVE  JobInv'
<1>1. CASE \E n \in Passes, limit \in Limits : Draft(n, limit)
  BY <1>1, DraftJob DEF JobInv
<1>2. CASE Outside \/ UNCHANGED vars
  <2>1. job' = job
    BY <1>2 DEF Outside, ShellAdds, ShellReviews, AuthorEdits, vars
  <2> QED
    BY <2>1 DEF JobInv
<1> QED
  BY <1>1, <1>2, NextIs, DraftActionsJob, ReviewActionsJob, TagActionsJob, OtherActionsJob

-----------------------------------------------------------------------------
(* Every step leaves the drafts accounted for.                             *)

LEMMA Spending ==
  ASSUME ObsInv
  PROVE  /\ Given => /\ spent' = [commands |-> spent'.commands, others |-> spent'.others]
                     /\ spent'.commands \in Nat /\ spent.commands <= spent'.commands
         /\ Happens => /\ spent' = [commands |-> spent'.commands, others |-> spent'.others]
                       /\ spent'.commands = spent.commands
BY DEF ObsInv, Given, Happens

LEMMA ObsStay ==
  ASSUME ObsInv, obs' = obs, Given \/ Happens \/ spent' = spent
  PROVE  ObsInv'
<1>1. /\ spent' = [commands |-> spent'.commands, others |-> spent'.others]
      /\ spent'.commands \in Nat /\ spent.commands <= spent'.commands
  BY Spending DEF ObsInv
<1>2. \A i \in DOMAIN obs : obs[i].run <= spent.commands /\ obs[i].run \in Nat
  BY DEF ObsInv, Row
<1>3. spent.commands \in Nat
  BY DEF ObsInv
<1>4. \A i \in DOMAIN obs' : Row(obs'[i]) /\ obs'[i].run <= spent'.commands
  BY <1>1, <1>2, <1>3 DEF ObsInv
<1> QED
  BY <1>1, <1>4 DEF ObsInv

LEMMA DraftBegins ==
  ASSUME ObsInv, NEW n, NEW limit \in Limits, Draft(n, limit)
  PROVE  ObsInv' /\ DraftInv'
<1>1. /\ spent'.commands = spent.commands + 1 /\ spent'.commands \in Nat
      /\ Mine(obs, spent'.commands) = {}
  BY NewRun DEF Draft, Given
<1>2. obs' = obs /\ Given
  BY DEF Draft
<1>3. /\ job'.run = spent'.commands /\ job'.limit = limit /\ job'.wrote = {} /\ job'.broken = FALSE
  BY DraftJob
<1>4. Told(obs, job')
  BY <1>1, <1>3, NothingWritten, KnowledgeAssumption
<1>5. spent.commands \in Nat
  BY DEF ObsInv
<1>6. job'.run \in 1 .. spent'.commands
  BY <1>1, <1>3, <1>5
<1> QED
  BY <1>2, <1>4, <1>6, ObsStay DEF DraftInv

LEMMA DraftGoesOn ==
  ASSUME JobInv, ObsInv, DraftInv, DraftActions
  PROVE  ObsInv' /\ DraftInv'
<1>1. CASE \E row, answer \in BOOLEAN : WriteDraft(row, answer)
  BY <1>1, WriteDraftTold
<1>2. CASE AskPass \/ PassFails \/ StopsAsking \/ Interrupt
  <2>1. obs' = obs /\ spent' = spent
    BY <1>2 DEF AskPass, PassFails, StopsAsking, Interrupt
  <2>2. Onward /\ (job'.kind = job.kind \/ job'.kind = "writing" \/ job.kind # "writing")
          /\ job.kind \in DraftKinds
    BY <1>2, AskPassJob, OnwardJob DEF DraftKinds
  <2>3. job.run \in 1 .. spent.commands /\ Told(obs, job)
    BY <2>2 DEF DraftInv
  <2>4. Told(obs, job') /\ job'.run = job.run
    BY <2>2, <2>3, ToldStays DEF Onward, Same
  <2> QED
    BY <2>1, <2>3, <2>4, ObsStay DEF DraftInv
<1>3. CASE \E proposals \in Proposals : PassAnswers(proposals)
  <2>1. obs' = obs /\ spent' = spent
    BY <1>3 DEF PassAnswers
  <2>2. /\ Same(job, job') /\ job.kind = "waiting" /\ job'.wrote = job.wrote /\ job'.broken = job.broken
    BY <1>3, PassAnswersJob
  <2>3. job.run \in 1 .. spent.commands /\ Told(obs, job)
    BY <2>2 DEF DraftInv, DraftKinds
  <2>4. job.wrote = {} /\ Mine(obs, job.run) = {} /\ job.broken = FALSE /\ job.limit \in Nat
    BY <2>2, <2>3 DEF Told
  <2>5. Told(obs, job') /\ job'.run = job.run
    BY <2>2, <2>4, NothingWritten DEF Same
  <2> QED
    BY <2>1, <2>3, <2>5, ObsStay DEF DraftInv
<1> QED
  BY <1>1, <1>2, <1>3 DEF DraftActions

LEMMA OthersDraftNothing ==
  ASSUME JobInv, ObsInv, ReviewActions \/ TagActions \/ OtherActions
  PROVE  ObsInv' /\ DraftInv'
<1>1. obs' = obs /\ (Given \/ Happens \/ spent' = spent)
  BY DEF ReviewActions, TagActions, OtherActions, Accept, SkipOrQuit, DraftReported, LearnReview, EditOrRedraft,
    LearnConcepts, TagNext, TagAnswer, Reingest, DraftReports, TagsReported, Killed, LearnIngest, IngestNext,
    LearnDraft, DraftPending
<1>2. job'.kind \notin DraftKinds
  <2>1. CASE ReviewActions
    <3>1. job.kind \notin DraftKinds
      BY <2>1, IdleKind DEF ReviewActions, Accept, SkipOrQuit, DraftReported, LearnReview, Given, EditOrRedraft,
        DraftKinds
    <3> QED
      BY <2>1, <3>1, ReviewActionsJob, IdleKind DEF Reviewing, DraftKinds
  <2>2. CASE TagActions
    BY <2>2, TagActionsJob, IdleKind DEF TaggingJob, TagJob, TagKinds, DraftKinds
  <2>3. CASE OtherActions
    BY <2>3, OtherActionsJob, IdleKind DEF Ingesting, Summarizing, DraftKinds
  <2> QED
    BY <2>1, <2>2, <2>3
<1> QED
  BY <1>1, <1>2, ObsStay DEF DraftInv

LEMMA ShellAddsRow ==
  ASSUME ObsInv, DraftInv, NEW body, ShellAdds(body)
  PROVE  ObsInv' /\ DraftInv'
<1> DEFINE row == [body |-> body, status |-> "trusted", run |-> 0, base |-> Len(obs)]
<1>1. obs' = Append(obs, row) /\ job' = job /\ Happens
  BY DEF ShellAdds
<1>2. Row(row) /\ row.run = 0 /\ row.run <= spent.commands
  BY DEF Row, ObsInv
<1>3. spent'.commands = spent.commands /\ spent' = [commands |-> spent'.commands, others |-> spent'.others]
  BY <1>1, Spending
<1> HIDE DEF row
<1>4. /\ ObsInv' /\ \A r : r # 0 => Mine(obs', r) = Mine(obs, r)
      /\ \A i \in 1 .. Len(obs) : obs'[i] = obs[i]
  BY <1>1, <1>2, <1>3, RowAdded
<1>5. ASSUME job.kind \in DraftKinds
      PROVE  job.run \in 1 .. spent'.commands /\ Told(obs', job)
  <2>1. job.run \in 1 .. spent.commands /\ Told(obs, job)
    BY <1>5 DEF DraftInv
  <2>2. job.run # 0
    BY <2>1
  <2>3. Mine(obs', job.run) = Mine(obs, job.run)
    BY <1>4, <2>2
  <2>4. Mine(obs, job.run) \subseteq 1 .. Len(obs)
    BY MineIsFinite
  <2>5. InOrder(obs', job)
    BY <1>4, <2>1, <2>3, <2>4 DEF Told, InOrder
  <2> QED
    BY <1>3, <2>1, <2>3, <2>5 DEF Told
<1> QED
  BY <1>1, <1>4, <1>5 DEF DraftInv

LEMMA ShellReviewsRow ==
  ASSUME ObsInv, DraftInv, NEW i \in DOMAIN obs, NEW status, ShellReviews(i, status)
  PROVE  ObsInv' /\ DraftInv'
<1> DEFINE row == [obs[i] EXCEPT !.status = status]
           S == Range(obs) \cup {row}
<1>1. obs' = [obs EXCEPT ![i] = row] /\ job' = job /\ Happens
  BY DEF ShellReviews
<1>2. spent'.commands = spent.commands /\ spent' = [commands |-> spent'.commands, others |-> spent'.others]
  BY <1>1, Spending
<1>3. Row(row) /\ row.run = obs[i].run /\ row.body = obs[i].body
  BY DEF ObsInv, Row
<1>4. Len(obs) \in Nat /\ DOMAIN obs = 1 .. Len(obs) /\ obs \in Seq(S)
  BY LenProperties, SeqMonotonic DEF ObsInv
<1>5. row \in S
  OBVIOUS
<1> HIDE DEF row, S
<1>6. obs' \in Seq(S) /\ DOMAIN obs' = DOMAIN obs
  BY <1>1, <1>4, <1>5
<1>7. obs' \in Seq(Range(obs'))
  BY <1>6, SeqOfRange
<1>8. \A k \in DOMAIN obs : Row(obs'[k]) /\ obs'[k].run = obs[k].run /\ obs'[k].body = obs[k].body
  BY <1>1, <1>3 DEF ObsInv
<1>9. ObsInv'
  BY <1>2, <1>6, <1>7, <1>8 DEF ObsInv
<1>10. \A r : Mine(obs', r) = Mine(obs, r)
  BY <1>6, <1>8 DEF Mine
<1>11. \A j : Told(obs, j) => Told(obs', j)
  <2>1. ASSUME NEW j, Told(obs, j) PROVE Told(obs', j)
    <3>1. InOrder(obs', j)
      BY <1>8, <1>10, <2>1 DEF Told, InOrder, Mine
    <3> QED
      BY <1>10, <2>1, <3>1 DEF Told
  <2> QED
    BY <2>1
<1> QED
  BY <1>1, <1>2, <1>9, <1>11 DEF DraftInv

LEMMA DraftsStep ==
  ASSUME JobInv, ObsInv, DraftInv, [Next]_vars
  PROVE  ObsInv' /\ DraftInv'
<1>1. CASE \E n \in Passes, limit \in Limits : Draft(n, limit)
  BY <1>1, DraftBegins
<1>2. CASE DraftActions
  BY <1>2, DraftGoesOn
<1>3. CASE ReviewActions \/ TagActions \/ OtherActions
  BY <1>3, OthersDraftNothing
<1>4. CASE Outside
  <2>1. CASE \E d \in Docs : AuthorEdits(d)
    <3>1. obs' = obs /\ job' = job /\ Happens
      BY <2>1 DEF AuthorEdits
    <3>2. spent'.commands = spent.commands
      BY <3>1, Spending
    <3> QED
      BY <3>1, <3>2, ObsStay DEF DraftInv
  <2> QED
    BY <1>4, <2>1, ShellAddsRow, ShellReviewsRow DEF Outside
<1>5. CASE UNCHANGED vars
  BY <1>5 DEF vars, ObsInv, DraftInv
<1> QED
  BY <1>1, <1>2, <1>3, <1>4, <1>5, NextIs

-----------------------------------------------------------------------------
(* What a pass proposes is compared with what is held and with what was    *)
(* kept before it: a fold over the proposals, of which the last is done    *)
(* last.                                                                   *)

\* Each says what is like nothing held, and nothing said before it.
Apart(q, held) == \A k \in DOMAIN q : ~SimilarTo(q[k], held \cup {q[l] : l \in 1 .. k - 1})

\* A set of naturals that is not empty has a least member.
LEMMA LeastNatural ==
  ASSUME NEW T, T \subseteq Nat, T # {}
  PROVE  \E x \in T : \A y \in T : x <= y
<1>1. PICK x \in T : \A y \in T : ~ (<<y, x>> \in OpToRel(<, Nat))
  BY NatLessThanWellFounded, WFMin
<1>2. \A y \in T : ~ (y < x)
  BY <1>1 DEF OpToRel
<1> QED
  BY <1>2

Kept(kept, b, held) == IF SimilarTo(b, held \cup ToSet(kept)) THEN kept ELSE Append(kept, b)

\* Of each set of the first m proposals, what is kept of them.
KeptOf(g, p, held, m) ==
  g = [s \in SUBSET (1 .. m) |->
         IF s = {} THEN <<>> ELSE Kept(g[s \ {Max(s)}], p[Max(s)], held)]

LEMMA LastOf ==
  ASSUME NEW m \in Nat, NEW s \in SUBSET (1 .. m + 1), m + 1 \in s
  PROVE  Max(s) = m + 1
<1>1. \A x \in s : x \in Nat /\ x <= m + 1
  OBVIOUS
<1>2. \A y \in s : m + 1 >= y
  BY <1>1
<1>3. Max(s) \in s /\ Max(s) >= m + 1
  <2>1. \E x \in s : \A y \in s : x >= y
    BY <1>2
  <2>2. Max(s) = CHOOSE x \in s : \A y \in s : x >= y
    BY DEF Max
  <2>3. Max(s) \in s /\ \A y \in s : Max(s) >= y
    BY <2>1, <2>2, Zenon
  <2> QED
    BY <2>3
<1>4. Max(s) \in Nat /\ Max(s) <= m + 1
  BY <1>1, <1>3
<1> QED
  BY <1>3, <1>4

\* There is such a function, whatever the number of proposals: one for m gives one for m + 1.
LEMMA KeptOfOneMore ==
  ASSUME NEW p, NEW held, NEW m \in Nat, NEW g, KeptOf(g, p, held, m)
  PROVE  \E h : KeptOf(h, p, held, m + 1)
<1> DEFINE h == [s \in SUBSET (1 .. m + 1) |->
                   IF s \in SUBSET (1 .. m) THEN g[s] ELSE Kept(g[s \ {m + 1}], p[m + 1], held)]
<1>1. ASSUME NEW s \in SUBSET (1 .. m + 1)
      PROVE  h[s] = IF s = {} THEN <<>> ELSE Kept(h[s \ {Max(s)}], p[Max(s)], held)
  <2>1. CASE s \in SUBSET (1 .. m)
    <3>1. s \ {Max(s)} \in SUBSET (1 .. m) /\ s \ {Max(s)} \in SUBSET (1 .. m + 1)
      BY <2>1
    <3>2. h[s] = g[s] /\ h[s \ {Max(s)}] = g[s \ {Max(s)}]
      BY <2>1, <3>1
    <3>3. g[s] = IF s = {} THEN <<>> ELSE Kept(g[s \ {Max(s)}], p[Max(s)], held)
      BY <2>1 DEF KeptOf
    <3> HIDE DEF h
    <3> QED
      BY <3>2, <3>3
  <2>2. CASE s \notin SUBSET (1 .. m)
    <3>1. m + 1 \in s
      <4>1. \A x \in 1 .. m + 1 : x \in 1 .. m \/ x = m + 1
        OBVIOUS
      <4> QED
        BY <2>2, <4>1
    <3>2. Max(s) = m + 1
      BY <3>1, LastOf
    <3>3. s \ {m + 1} \in SUBSET (1 .. m) /\ s \ {m + 1} \in SUBSET (1 .. m + 1)
      OBVIOUS
    <3>4. h[s] = Kept(g[s \ {m + 1}], p[m + 1], held) /\ h[s \ {m + 1}] = g[s \ {m + 1}]
      BY <2>2, <3>3
    <3> HIDE DEF h
    <3> QED
      BY <3>1, <3>2, <3>4
  <2> QED
    BY <2>1, <2>2
<1>2. h = [s \in SUBSET (1 .. m + 1) |-> h[s]]
  OBVIOUS
<1> HIDE DEF h
<1>3. KeptOf(h, p, held, m + 1)
  BY <1>1, <1>2 DEF KeptOf
<1> QED
  BY <1>3

LEMMA KeptOfSome ==
  ASSUME NEW p, NEW held, NEW n \in Nat
  PROVE  \E g : KeptOf(g, p, held, n)
<1> DEFINE T == {m \in Nat : ~ \E g : KeptOf(g, p, held, m)}
<1>1. SUFFICES ASSUME T # {} PROVE FALSE
  OBVIOUS
<1>2. PICK m \in T : \A k \in T : m <= k
  <2>1. T \subseteq Nat
    OBVIOUS
  <2> HIDE DEF T
  <2> QED
    BY <1>1, <2>1, LeastNatural
<1>3. m # 0
  <2> DEFINE g == [s \in SUBSET (1 .. 0) |-> <<>>]
  <2>1. SUBSET (1 .. 0) = {{}}
    OBVIOUS
  <2>2. g = [s \in SUBSET (1 .. 0) |->
               IF s = {} THEN <<>> ELSE Kept(g[s \ {Max(s)}], p[Max(s)], held)]
    BY <2>1
  <2>3. KeptOf(g, p, held, 0)
    BY <2>2 DEF KeptOf
  <2> QED
    BY <1>2, <2>3
<1>4. m - 1 \in Nat /\ m - 1 \notin T /\ m - 1 + 1 = m
  BY <1>2, <1>3
<1>5. PICK g : KeptOf(g, p, held, m - 1)
  BY <1>4
<1>6. \E h : KeptOf(h, p, held, m)
  BY <1>4, <1>5, KeptOfOneMore
<1> QED
  BY <1>2, <1>6

LEMMA DedupIsKept ==
  ASSUME NEW p \in Seq(Bodies), NEW held
  PROVE  \E g : KeptOf(g, p, held, Len(p)) /\ DedupAgainst(p, held) = g[1 .. Len(p)]
<1> DEFINE Folds(g) == g = [s \in SUBSET (DOMAIN p) |->
                              IF s = {} THEN <<>> ELSE Kept(g[s \ {Max(s)}], p[Max(s)], held)]
           fold == CHOOSE g : Folds(g)
<1>1. DedupAgainst(p, held) = fold[DOMAIN p]
  BY Zenon DEF DedupAgainst, FoldLeft, MapThenFoldSet, Kept
<1>2. DOMAIN p = 1 .. Len(p) /\ Len(p) \in Nat
  BY LenProperties
<1>3. \A g : Folds(g) <=> KeptOf(g, p, held, Len(p))
  BY <1>2 DEF KeptOf
<1>4. \E g : Folds(g)
  BY <1>2, <1>3, KeptOfSome
<1>5. Folds(fold)
  <2> HIDE DEF Folds
  <2> QED BY <1>4, Zenon
<1> HIDE DEF Folds, fold
<1> QED
  BY <1>1, <1>2, <1>3, <1>5

LEMMA KeptIsApart ==
  ASSUME NEW q \in Seq(Bodies), NEW b \in Bodies, NEW held, Apart(q, held)
  PROVE  Kept(q, b, held) \in Seq(Bodies) /\ Apart(Kept(q, b, held), held)
<1>1. CASE SimilarTo(b, held \cup ToSet(q))
  BY <1>1 DEF Kept
<1>2. CASE ~SimilarTo(b, held \cup ToSet(q))
  <2> DEFINE r == Append(q, b)
  <2>1. /\ r \in Seq(Bodies) /\ Len(q) \in Nat /\ DOMAIN r = 1 .. Len(q) + 1 /\ DOMAIN q = 1 .. Len(q)
        /\ r[Len(q) + 1] = b /\ \A i \in 1 .. Len(q) : r[i] = q[i]
    BY LenProperties, AppendProperties
  <2> HIDE DEF r
  <2>2. ASSUME NEW k \in DOMAIN r
        PROVE  ~SimilarTo(r[k], held \cup {r[l] : l \in 1 .. k - 1})
    <3>1. CASE k \in 1 .. Len(q)
      <4>1. {r[l] : l \in 1 .. k - 1} = {q[l] : l \in 1 .. k - 1}
        <5>1. \A l \in 1 .. k - 1 : r[l] = q[l]
          BY <2>1, <3>1
        <5> QED
          BY <5>1
      <4> QED
        BY <2>1, <3>1, <4>1 DEF Apart
    <3>2. CASE k = Len(q) + 1
      <4>1. {r[l] : l \in 1 .. k - 1} = ToSet(q)
        <5>1. k - 1 = Len(q)
          BY <2>1, <3>2
        <5> QED
          BY <2>1, <5>1 DEF ToSet
      <4> QED
        BY <1>2, <2>1, <3>2, <4>1
    <3> QED
      BY <2>1, <3>1, <3>2
  <2>3. Kept(q, b, held) = r
    BY <1>2 DEF Kept, r
  <2> QED
    BY <2>1, <2>2, <2>3 DEF Apart
<1> QED
  BY <1>1, <1>2

\* What is kept of a pass is like nothing that is held, and no two of it are alike.
LEMMA DedupIsApart ==
  ASSUME NEW p \in Seq(Bodies), NEW held
  PROVE  DedupAgainst(p, held) \in Seq(Bodies) /\ Apart(DedupAgainst(p, held), held)
<1> DEFINE n == Len(p)
<1>1. n \in Nat /\ \A i \in 1 .. n : p[i] \in Bodies
  BY LenProperties, ElementOfSeq
<1>2. PICK g : KeptOf(g, p, held, n) /\ DedupAgainst(p, held) = g[1 .. n]
  BY DedupIsKept
<1> HIDE DEF n
<1> DEFINE Good(m) == g[1 .. m] \in Seq(Bodies) /\ Apart(g[1 .. m], held)
           T == {m \in 0 .. n : ~Good(m)}
<1>3. SUFFICES ASSUME T # {} PROVE FALSE
  BY <1>1, <1>2
<1>4. PICK m \in T : \A k \in T : m <= k
  <2>1. T \subseteq Nat
    BY <1>1
  <2> HIDE DEF T
  <2> QED
    BY <1>3, <2>1, LeastNatural
<1>5. m \in 0 .. n /\ ~Good(m)
  BY <1>4
<1>6. m # 0
  <2>1. 1 .. 0 = {} /\ {} \in SUBSET (1 .. n)
    OBVIOUS
  <2>2. g[1 .. 0] = <<>>
    BY <1>2, <2>1 DEF KeptOf
  <2>3. Good(0)
    BY <2>2 DEF Apart
  <2> QED
    BY <1>5, <2>3
<1>7. m - 1 \in Nat /\ m - 1 \in 0 .. n /\ m - 1 + 1 = m /\ m \in 1 .. n /\ m - 1 \notin T
  BY <1>1, <1>4, <1>5, <1>6
<1>8. Good(m - 1)
  BY <1>7
<1>9. g[1 .. m] = Kept(g[1 .. m - 1], p[m], held)
  <2> DEFINE s == 1 .. m
  <2>1. s \in SUBSET (1 .. n) /\ m \in s /\ s # {} /\ s \ {m} = 1 .. m - 1
    <3>1. m \in Nat /\ 1 <= m /\ m <= n /\ n \in Nat
      BY <1>1, <1>7
    <3> QED
      BY <3>1
  <2>2. Max(s) = m
    <3>1. s \in SUBSET (1 .. m - 1 + 1) /\ m - 1 + 1 \in s
      BY <1>7, <2>1
    <3> HIDE DEF s
    <3>2. Max(s) = m - 1 + 1
      BY <1>7, <3>1, LastOf
    <3> QED
      BY <1>7, <3>2
  <2> HIDE DEF s
  <2>3. g[s] = Kept(g[s \ {Max(s)}], p[Max(s)], held)
    BY <1>2, <2>1 DEF KeptOf
  <2> QED
    BY <2>1, <2>2, <2>3 DEF s
<1>10. Good(m)
  BY <1>1, <1>7, <1>8, <1>9, KeptIsApart
<1> QED
  BY <1>5, <1>10

\* What is queued is like nothing held when the run began and nothing queued before it, and
\* since then only this run drafts.
QueueInv ==
  job.kind \in DraftKinds =>
    /\ job.base \in 0 .. Len(obs) /\ job.queue \in Seq(Bodies)
    /\ \A i \in 1 .. job.base : obs[i].body \in job.held
    /\ ToSet(job.queue) \subseteq job.held
    /\ Apart(job.queue, {obs[i].body : i \in 1 .. job.base})
    /\ \A i \in job.base + 1 .. Len(obs) : obs[i].run \in {0, job.run}
    /\ ~job.broken => Cardinality(job.wrote) <= Len(job.queue)

\* Nothing said behind q that is like nothing held, q included, and of which no two are alike.
LEMMA ConcatIsApart ==
  ASSUME NEW q \in Seq(Bodies), NEW r \in Seq(Bodies), NEW old, NEW held,
         Apart(q, old), old \subseteq held, ToSet(q) \subseteq held, Apart(r, held)
  PROVE  Apart(q \o r, old) /\ ToSet(q \o r) \subseteq held \cup ToSet(r)
<1> DEFINE s == q \o r
<1>1. /\ Len(q) \in Nat /\ Len(r) \in Nat /\ DOMAIN q = 1 .. Len(q) /\ DOMAIN r = 1 .. Len(r)
      /\ DOMAIN s = 1 .. Len(q) + Len(r)
      /\ \A i \in 1 .. Len(q) + Len(r) : s[i] = IF i <= Len(q) THEN q[i] ELSE r[i - Len(q)]
  BY LenProperties, ConcatProperties
<1> HIDE DEF s
<1>2. \A i \in 1 .. Len(q) : s[i] = q[i] /\ s[i] \in held
  BY <1>1 DEF ToSet
<1>3. ASSUME NEW i \in DOMAIN s, i \notin 1 .. Len(q)
      PROVE  i - Len(q) \in DOMAIN r /\ s[i] = r[i - Len(q)]
  BY <1>1, <1>3
<1>4. ASSUME NEW k \in DOMAIN s PROVE ~SimilarTo(s[k], old \cup {s[l] : l \in 1 .. k - 1})
  <2>1. CASE k \in 1 .. Len(q)
    <3>1. \A l \in 1 .. k - 1 : s[l] = q[l]
      BY <1>1, <1>2, <2>1
    <3>2. {s[l] : l \in 1 .. k - 1} = {q[l] : l \in 1 .. k - 1}
      BY <3>1
    <3> QED
      BY <1>1, <1>2, <2>1, <3>2 DEF Apart
  <2>2. CASE k \notin 1 .. Len(q)
    <3> DEFINE m == k - Len(q)
    <3>1. m \in DOMAIN r /\ s[k] = r[m]
      BY <1>3, <2>2
    <3>2. ~SimilarTo(r[m], held \cup {r[l] : l \in 1 .. m - 1})
      BY <3>1 DEF Apart
    <3>3. ASSUME NEW l \in 1 .. k - 1 PROVE s[l] \in held \cup {r[h] : h \in 1 .. m - 1}
      <4>1. l \in DOMAIN s
        BY <1>1
      <4>2. CASE l \in 1 .. Len(q)
        BY <1>2, <4>2
      <4>3. CASE l \notin 1 .. Len(q)
        <5>1. s[l] = r[l - Len(q)] /\ l - Len(q) \in DOMAIN r
          BY <1>3, <4>1, <4>3
        <5>2. l - Len(q) \in 1 .. m - 1
          BY <1>1, <4>1, <5>1
        <5> QED
          BY <5>1, <5>2
      <4> QED
        BY <4>2, <4>3
    <3> HIDE DEF m
    <3> QED
      BY <3>1, <3>2, <3>3 DEF SimilarTo
  <2> QED
    BY <2>1, <2>2
<1>5. \A i \in DOMAIN s : s[i] \in held \cup ToSet(r)
  BY <1>1, <1>2, <1>3 DEF ToSet
<1> QED
  BY <1>4, <1>5 DEF Apart, ToSet, s

LEMMA PassQueues ==
  ASSUME JobInv, ObsInv, DraftInv, QueueInv, NEW proposals \in Proposals, PassAnswers(proposals)
  PROVE  QueueInv'
<1> DEFINE kept == DedupAgainst(proposals, job.held)
           old == {obs[i].body : i \in 1 .. job.base}
<1>1. /\ Same(job, job') /\ job.kind = "waiting" /\ job'.kind = "drafting"
      /\ job'.wrote = job.wrote /\ job'.broken = job.broken
      /\ job'.held = job.held \cup ToSet(kept) /\ job'.queue = job.queue \o kept
      /\ obs' = obs
  BY PassAnswersJob DEF PassAnswers
<1>2. proposals \in Seq(Bodies)
  BY KnowledgeAssumption
<1>3. kept \in Seq(Bodies) /\ Apart(kept, job.held)
  BY <1>2, DedupIsApart
<1> HIDE DEF kept
<1>4. /\ job.base \in 0 .. Len(obs) /\ job.queue \in Seq(Bodies)
      /\ \A i \in 1 .. job.base : obs[i].body \in job.held
      /\ ToSet(job.queue) \subseteq job.held
      /\ Apart(job.queue, old)
      /\ \A i \in job.base + 1 .. Len(obs) : obs[i].run \in {0, job.run}
  BY <1>1 DEF QueueInv, DraftKinds
<1>5. Apart(job'.queue, old) /\ ToSet(job'.queue) \subseteq job'.held
  <2>1. old \subseteq job.held
    BY <1>4
  <2> HIDE DEF old
  <2> QED
    BY <1>1, <1>3, <1>4, <2>1, ConcatIsApart
<1>6. job'.queue \in Seq(Bodies) /\ Len(job'.queue) \in Nat
  BY <1>1, <1>3, <1>4, ConcatProperties, LenProperties
<1>7. Cardinality(job'.wrote) <= Len(job'.queue)
  <2>1. job.wrote = {}
    BY <1>1 DEF DraftInv, Told, DraftKinds
  <2> QED
    BY <1>1, <1>6, <2>1, FS_EmptySet
<1>8. job'.base = job.base /\ job'.run = job.run
  BY <1>1 DEF Same
<1> QED
  BY <1>1, <1>4, <1>5, <1>6, <1>7, <1>8 DEF QueueInv

\* A row that is written is next in the queue, and the rows of its run are what is before it.
LEMMA WriteDraftTwice ==
  ASSUME JobInv, ObsInv, DraftInv, NoDraftTwice, QueueInv,
         NEW row \in BOOLEAN, NEW answer \in BOOLEAN, WriteDraft(row, answer)
  PROVE  NoDraftTwice' /\ QueueInv'
<1> DEFINE m == Mine(obs, job.run)
           n == Len(obs)
           q == job.queue
           old == {obs[i].body : i \in 1 .. job.base}
           new == [body |-> q[Written + 1], status |-> "draft", run |-> job.run, base |-> job.base]
<1>1. job.run \in 1 .. spent.commands /\ Told(obs, job) /\ job.kind = "writing" /\ spent' = spent
  BY DEF WriteDraft, DraftInv, DraftKinds
<1>2. ~job.broken /\ m = job.wrote /\ Written # Len(q)
  BY <1>1 DEF WriteDraft, QueueDone, Told
<1>3. /\ Same(job, job') /\ job'.kind = "writing" /\ job'.held = job.held /\ job'.queue = q
      /\ answer  => job'.wrote = job.wrote \cup {Len(obs')} /\ job'.broken = job.broken
      /\ ~answer => job'.wrote = job.wrote /\ job'.broken = TRUE
  BY WriteDraftJob
<1>4. /\ n \in Nat /\ DOMAIN obs = 1 .. n /\ m \in SUBSET (1 .. n) /\ IsFiniteSet(m)
      /\ Cardinality(m) \in Nat /\ Written = Cardinality(m)
  BY <1>2, MineIsFinite DEF Written
<1>5. job'.run = job.run /\ job'.base = job.base
  BY <1>3 DEF Same
<1>6. /\ job.base \in 0 .. n /\ q \in Seq(Bodies)
      /\ \A i \in 1 .. job.base : obs[i].body \in job.held
      /\ ToSet(q) \subseteq job.held /\ Apart(q, old)
      /\ \A i \in job.base + 1 .. n : obs[i].run \in {0, job.run}
      /\ Written <= Len(q)
  BY <1>1, <1>2, <1>4 DEF QueueInv, DraftKinds
<1>7. Written + 1 \in DOMAIN q /\ Written \in Nat /\ DOMAIN q = 1 .. Len(q) /\ Written + 1 <= Len(q)
  <2>1. DOMAIN q = 1 .. Len(q) /\ Len(q) \in Nat
    BY <1>6, LenProperties
  <2> QED
    BY <1>2, <1>4, <1>6, <2>1
<1>8. CASE ~row
  <2>1. obs' = obs /\ ~answer
    BY <1>8 DEF WriteDraft
  <2> HIDE DEF q
  <2> QED
    BY <1>3, <1>5, <1>6, <2>1 DEF NoDraftTwice, QueueInv
<1>9. CASE row
  <2>1. obs' = Append(obs, new)
    BY <1>9 DEF WriteDraft
  <2>2. Row(new) /\ new.run = job.run /\ new.run <= spent.commands /\ new.base = job.base
          /\ new.body = q[Written + 1]
    BY <1>1 DEF Row, ObsInv
  <2> HIDE DEF new
  <2>3. /\ n + 1 \notin m /\ Mine(obs', job.run) = m \cup {n + 1}
        /\ Len(obs') = n + 1 /\ obs'[n + 1] = new /\ \A i \in 1 .. n : obs'[i] = obs[i]
        /\ DOMAIN obs' = 1 .. n + 1
    <3>1. /\ ObsInv' /\ n + 1 \notin m /\ Mine(obs', job.run) = m \cup {n + 1}
          /\ Len(obs') = n + 1 /\ obs'[n + 1] = new /\ \A i \in 1 .. n : obs'[i] = obs[i]
      BY <1>1, <2>1, <2>2, RowAdded DEF ObsInv
    <3> QED
      BY <3>1, LenProperties DEF ObsInv
  <2>4. ~SimilarTo(q[Written + 1], old \cup {q[l] : l \in 1 .. Written})
    <3> DEFINE k == Written + 1
    <3> HIDE DEF q, old, k
    <3>2. Apart(q, old) /\ k \in DOMAIN q
      BY <1>6, <1>7 DEF k
    <3>3. ~SimilarTo(q[k], old \cup {q[l] : l \in 1 .. k - 1})
      BY <3>2, Zenon DEF Apart
    <3>4. k - 1 = Written
      BY <1>7 DEF k
    <3> QED
      BY <3>3, <3>4 DEF k
  <2>5. ASSUME NEW i \in 1 .. n, i <= job.base \/ obs[i].run > 0
        PROVE  <<q[Written + 1], obs[i].body>> \notin Similar
    <3>1. CASE i <= job.base
      <4>1. i \in 1 .. job.base
        BY <1>4, <1>6, <3>1
      <4>2. obs[i].body \in old
        BY <4>1
      <4> HIDE DEF old
      <4> QED
        BY <2>4, <4>2 DEF SimilarTo
    <3>2. CASE ~(i <= job.base)
      <4>1. i \in job.base + 1 .. n
        BY <1>4, <1>6, <3>2
      <4>2. obs[i].run \in {0, job.run} /\ obs[i].run # 0
        BY <1>6, <2>5, <3>2, <4>1
      <4>3. i \in m
        BY <1>4, <4>2 DEF Mine
      <4> DEFINE upto == {k \in m : k <= i}
      <4>4. obs[i].body = q[Cardinality(upto)]
        BY <1>1, <4>3 DEF Told, InOrder
      <4>5. Cardinality(upto) \in 1 .. Written
        <5>1. IsFiniteSet(upto) /\ Cardinality(upto) <= Cardinality(m) /\ Cardinality(upto) \in Nat
          BY <1>4, FS_Subset, FS_CardinalityType
        <5>2. i \in upto
          BY <1>4, <4>3
        <5>3. Cardinality(upto) # 0
          BY <5>1, <5>2, FS_EmptySet
        <5> HIDE DEF upto
        <5> QED
          BY <1>4, <5>1, <5>3
      <4> HIDE DEF upto
      <4> QED
        BY <2>4, <4>4, <4>5 DEF SimilarTo
    <3> QED
      BY <3>1, <3>2
  <2>6. NoDraftTwice'
    <3> SUFFICES ASSUME NEW j \in 1 .. n + 1, obs'[j].run > 0, NEW i \in 1 .. j - 1,
                        i <= obs'[j].base \/ obs'[i].run > 0
                 PROVE  <<obs'[j].body, obs'[i].body>> \notin Similar
      BY <2>3 DEF NoDraftTwice
    <3>1. i \in 1 .. n /\ obs'[i] = obs[i]
      BY <1>4, <2>3
    <3>2. CASE j \in 1 .. n
      <4>1. obs'[j] = obs[j]
        BY <2>3, <3>2
      <4> QED
        BY <1>4, <3>1, <3>2, <4>1 DEF NoDraftTwice
    <3>3. CASE j = n + 1
      <4>1. obs'[j].body = q[Written + 1] /\ obs'[j].base = job.base
        BY <2>2, <2>3, <3>3
      <4> QED
        BY <2>5, <3>1, <4>1
    <3> QED
      BY <1>4, <3>2, <3>3
  <2>7. QueueInv'
    <3>1. job'.base \in 0 .. Len(obs') /\ job'.queue \in Seq(Bodies) /\ ToSet(job'.queue) \subseteq job'.held
      BY <1>3, <1>4, <1>5, <1>6, <2>3
    <3>2. \A i \in 1 .. job.base : i \in 1 .. n /\ obs'[i] = obs[i]
      BY <1>4, <1>6, <2>3
    <3>3. {obs'[i].body : i \in 1 .. job'.base} = old
      BY <1>5, <3>2
    <3>4. Apart(job'.queue, {obs'[i].body : i \in 1 .. job'.base})
      BY <1>3, <1>6, <3>3
    <3>5. ASSUME NEW i \in job'.base + 1 .. Len(obs') PROVE obs'[i].run \in {0, job'.run}
      <4>1. CASE i = n + 1
        BY <1>5, <2>2, <2>3, <4>1
      <4>2. CASE i # n + 1
        <5>1. i \in job.base + 1 .. n /\ i \in 1 .. n
          BY <1>4, <1>5, <1>6, <2>3, <4>2
        <5> QED
          BY <1>5, <1>6, <2>3, <5>1
      <4> QED
        BY <4>1, <4>2
    <3>6. ASSUME ~job'.broken PROVE Cardinality(job'.wrote) <= Len(job'.queue)
      <4>1. job'.wrote = m \cup {n + 1}
        BY <1>2, <1>3, <2>3, <3>6
      <4>2. Cardinality(job'.wrote) = Written + 1
        BY <1>4, <2>3, <4>1, FS_AddElement
      <4> QED
        BY <1>3, <1>7, <4>2
    <3>7. \A i \in 1 .. job'.base : obs'[i].body \in job'.held
      BY <1>3, <1>5, <1>6, <3>2
    <3> QED
      BY <3>1, <3>4, <3>5, <3>6, <3>7 DEF QueueInv
  <2> QED
    BY <2>6, <2>7
<1> QED
  BY <1>8, <1>9

\* Commands that are not /kb draft draft nothing.
LEMMA OthersNotDrafting ==
  ASSUME JobInv, ReviewActions \/ TagActions \/ OtherActions
  PROVE  obs' = obs /\ job'.kind \notin DraftKinds
<1>1. obs' = obs
  BY DEF ReviewActions, TagActions, OtherActions, Accept, SkipOrQuit, DraftReported, LearnReview, EditOrRedraft,
    LearnConcepts, TagNext, TagAnswer, Reingest, DraftReports, TagsReported, Killed, LearnIngest, IngestNext,
    LearnDraft, DraftPending
<1>2. CASE ReviewActions
  <2>1. job.kind \notin DraftKinds
    BY <1>2, IdleKind DEF ReviewActions, Accept, SkipOrQuit, DraftReported, LearnReview, Given, EditOrRedraft,
      DraftKinds
  <2> QED
    BY <1>1, <1>2, <2>1, ReviewActionsJob, IdleKind DEF Reviewing, DraftKinds
<1>3. CASE TagActions
  BY <1>1, <1>3, TagActionsJob, IdleKind DEF TaggingJob, TagJob, TagKinds, DraftKinds
<1>4. CASE OtherActions
  BY <1>1, <1>4, OtherActionsJob, IdleKind DEF Ingesting, Summarizing, DraftKinds
<1> QED
  BY <1>2, <1>3, <1>4

\* The rows there are keep what they say, whose they are and what was read before them.
LEMMA ReviewedRows ==
  ASSUME ObsInv, NEW i \in DOMAIN obs, NEW status, ShellReviews(i, status)
  PROVE  /\ job' = job /\ DOMAIN obs' = DOMAIN obs /\ Len(obs') = Len(obs)
         /\ \A k \in DOMAIN obs : /\ obs'[k].run = obs[k].run /\ obs'[k].body = obs[k].body
                                  /\ obs'[k].base = obs[k].base
<1>1. obs' = [obs EXCEPT ![i].status = status] /\ job' = job
  BY DEF ShellReviews
<1>2. DOMAIN obs' = DOMAIN obs /\ Len(obs') = Len(obs)
  BY <1>1 DEF ObsInv
<1>3. \A k \in DOMAIN obs : /\ obs'[k].run = obs[k].run /\ obs'[k].body = obs[k].body
                            /\ obs'[k].base = obs[k].base
  BY <1>1 DEF ObsInv, Row
<1> QED
  BY <1>1, <1>2, <1>3

LEMMA RowsKeep ==
  ASSUME NoDraftTwice, QueueInv, job' = job, DOMAIN obs' = DOMAIN obs, Len(obs') = Len(obs),
         Len(obs) \in Nat, DOMAIN obs = 1 .. Len(obs),
         \A k \in DOMAIN obs : /\ obs'[k].run = obs[k].run /\ obs'[k].body = obs[k].body
                               /\ obs'[k].base = obs[k].base
  PROVE  NoDraftTwice' /\ QueueInv'
<1>1. NoDraftTwice'
  <2> SUFFICES ASSUME NEW j \in DOMAIN obs, obs[j].run > 0, NEW i \in 1 .. j - 1,
                      i <= obs[j].base \/ obs'[i].run > 0
               PROVE  <<obs[j].body, obs'[i].body>> \notin Similar
    BY DEF NoDraftTwice
  <2>1. i \in DOMAIN obs
    OBVIOUS
  <2> QED
    BY <2>1 DEF NoDraftTwice
<1>2. ASSUME job.kind \in DraftKinds
      PROVE  /\ job.base \in 0 .. Len(obs) /\ job.queue \in Seq(Bodies)
             /\ \A i \in 1 .. job.base : obs'[i].body \in job.held
             /\ ToSet(job.queue) \subseteq job.held
             /\ Apart(job.queue, {obs'[i].body : i \in 1 .. job.base})
             /\ \A i \in job.base + 1 .. Len(obs) : obs'[i].run \in {0, job.run}
             /\ ~job.broken => Cardinality(job.wrote) <= Len(job.queue)
  <2>1. /\ job.base \in 0 .. Len(obs) /\ job.queue \in Seq(Bodies)
        /\ \A i \in 1 .. job.base : obs[i].body \in job.held
        /\ ToSet(job.queue) \subseteq job.held
        /\ Apart(job.queue, {obs[i].body : i \in 1 .. job.base})
        /\ \A i \in job.base + 1 .. Len(obs) : obs[i].run \in {0, job.run}
        /\ ~job.broken => Cardinality(job.wrote) <= Len(job.queue)
    BY <1>2 DEF QueueInv
  <2>2. \A i \in 1 .. job.base : i \in DOMAIN obs
    BY <2>1
  <2>3. \A i \in job.base + 1 .. Len(obs) : i \in DOMAIN obs
    BY <2>1
  <2>4. {obs'[i].body : i \in 1 .. job.base} = {obs[i].body : i \in 1 .. job.base}
    BY <2>2
  <2> QED
    BY <2>1, <2>2, <2>3, <2>4
<1>3. QueueInv'
  BY <1>2 DEF QueueInv
<1> QED
  BY <1>1, <1>3

LEMMA ShellAddsTwice ==
  ASSUME JobInv, ObsInv, NoDraftTwice, QueueInv, NEW body, ShellAdds(body)
  PROVE  NoDraftTwice' /\ QueueInv'
<1> DEFINE n == Len(obs)
           row == [body |-> body, status |-> "trusted", run |-> 0, base |-> n]
<1>1. obs' = Append(obs, row) /\ job' = job /\ row.run = 0
  BY DEF ShellAdds
<1> HIDE DEF row
<1>2. /\ n \in Nat /\ DOMAIN obs = 1 .. n /\ DOMAIN obs' = 1 .. n + 1 /\ Len(obs') = n + 1
      /\ obs'[n + 1] = row /\ \A i \in 1 .. n : obs'[i] = obs[i]
  BY <1>1, AppendRow DEF ObsInv
<1> HIDE DEF n
<1>3. NoDraftTwice'
  <2> SUFFICES ASSUME NEW j \in 1 .. n + 1, obs'[j].run > 0, NEW i \in 1 .. j - 1,
                      i <= obs'[j].base \/ obs'[i].run > 0
               PROVE  <<obs'[j].body, obs'[i].body>> \notin Similar
    BY <1>2 DEF NoDraftTwice
  <2>1. j # n + 1
    BY <1>1, <1>2
  <2>2. j \in 1 .. n /\ i \in 1 .. n
    BY <1>2, <2>1
  <2>3. obs'[j] = obs[j] /\ obs'[i] = obs[i]
    BY <1>2, <2>2
  <2> QED
    BY <1>2, <2>2, <2>3 DEF NoDraftTwice
<1>4. ASSUME job.kind \in DraftKinds
      PROVE  /\ job.base \in 0 .. n + 1 /\ job.queue \in Seq(Bodies)
             /\ \A i \in 1 .. job.base : obs'[i].body \in job.held
             /\ ToSet(job.queue) \subseteq job.held
             /\ Apart(job.queue, {obs'[i].body : i \in 1 .. job.base})
             /\ \A i \in job.base + 1 .. n + 1 : obs'[i].run \in {0, job.run}
             /\ ~job.broken => Cardinality(job.wrote) <= Len(job.queue)
  <2>1. /\ job.base \in 0 .. n /\ job.queue \in Seq(Bodies)
        /\ \A i \in 1 .. job.base : obs[i].body \in job.held
        /\ ToSet(job.queue) \subseteq job.held
        /\ Apart(job.queue, {obs[i].body : i \in 1 .. job.base})
        /\ \A i \in job.base + 1 .. n : obs[i].run \in {0, job.run}
        /\ ~job.broken => Cardinality(job.wrote) <= Len(job.queue)
    BY <1>4 DEF QueueInv, n
  <2>2. \A i \in 1 .. job.base : i \in 1 .. n /\ obs'[i] = obs[i]
    BY <1>2, <2>1
  <2>3. {obs'[i].body : i \in 1 .. job.base} = {obs[i].body : i \in 1 .. job.base}
    BY <2>2
  <2>4. ASSUME NEW i \in job.base + 1 .. n + 1 PROVE obs'[i].run \in {0, job.run}
    <3>1. CASE i = n + 1
      BY <1>1, <1>2, <3>1
    <3>2. CASE i # n + 1
      <4>1. i \in job.base + 1 .. n /\ i \in 1 .. n
        BY <1>2, <2>1, <3>2
      <4> QED
        BY <1>2, <2>1, <4>1
    <3> QED
      BY <3>1, <3>2
  <2>5. job.base \in 0 .. n + 1
    BY <1>2, <2>1
  <2> QED
    BY <2>1, <2>2, <2>3, <2>4, <2>5
<1>5. QueueInv'
  BY <1>1, <1>2, <1>4 DEF QueueInv
<1> QED
  BY <1>3, <1>5

LEMMA TwiceStep ==
  ASSUME JobInv, ObsInv, DraftInv, NoDraftTwice, QueueInv, [Next]_vars
  PROVE  NoDraftTwice' /\ QueueInv'
<1>0. Len(obs) \in Nat /\ DOMAIN obs = 1 .. Len(obs)
  BY LenProperties DEF ObsInv
<1>1. ASSUME NEW k \in Passes, NEW limit \in Limits, Draft(k, limit)
      PROVE  NoDraftTwice' /\ QueueInv'
  <2>1. /\ obs' = obs /\ job'.base = Len(obs) /\ job'.held = ExistingObservationBodies
        /\ job'.queue = <<>> /\ job'.wrote = {}
    BY <1>1 DEF Draft
  <2>2. job'.queue \in Seq(Bodies) /\ DOMAIN job'.queue = {} /\ Len(job'.queue) = 0
    BY <2>1
  <2>3. \A i \in 1 .. Len(obs) : obs[i].body \in job'.held
    BY <1>0, <2>1 DEF ExistingObservationBodies
  <2>4. ToSet(job'.queue) = {} /\ \A held : Apart(job'.queue, held)
    BY <2>2 DEF ToSet, Apart
  <2>5. Cardinality(job'.wrote) = 0
    BY <2>1, FS_EmptySet
  <2>6. Len(obs) + 1 .. Len(obs) = {}
    BY <1>0
  <2>7. QueueInv'
    BY <1>0, <2>1, <2>2, <2>3, <2>4, <2>5, <2>6 DEF QueueInv
  <2> QED
    BY <2>1, <2>7 DEF NoDraftTwice
<1>2. CASE DraftActions
  <2>1. CASE AskPass \/ PassFails \/ StopsAsking \/ Interrupt
    <3>1. obs' = obs
      BY <2>1 DEF AskPass, PassFails, StopsAsking, Interrupt
    <3>2. Onward /\ job.kind \in DraftKinds
      BY <2>1, AskPassJob, OnwardJob DEF DraftKinds
    <3>3. /\ job'.base = job.base /\ job'.run = job.run /\ job'.held = job.held
          /\ job'.queue = job.queue /\ job'.wrote = job.wrote /\ job'.broken = job.broken
      BY <3>2 DEF Onward, Same
    <3> QED
      BY <3>1, <3>2, <3>3 DEF NoDraftTwice, QueueInv
  <2>2. ASSUME NEW proposals \in Proposals, PassAnswers(proposals) PROVE NoDraftTwice' /\ QueueInv'
    <3>1. obs' = obs
      BY <2>2 DEF PassAnswers
    <3> QED
      BY <2>2, <3>1, PassQueues DEF NoDraftTwice
  <2> QED
    BY <1>2, <2>1, <2>2, WriteDraftTwice DEF DraftActions
<1>3. CASE ReviewActions \/ TagActions \/ OtherActions
  <2>1. obs' = obs /\ job'.kind \notin DraftKinds
    BY <1>3, OthersNotDrafting
  <2> QED
    BY <2>1 DEF NoDraftTwice, QueueInv
<1>4. ASSUME NEW i \in DOMAIN obs, NEW status, ShellReviews(i, status)
      PROVE  NoDraftTwice' /\ QueueInv'
  BY <1>0, <1>4, ReviewedRows, RowsKeep
<1>5. CASE (\E d \in Docs : AuthorEdits(d)) \/ UNCHANGED vars
  <2>1. obs' = obs /\ job' = job
    BY <1>5 DEF AuthorEdits, vars
  <2> QED
    BY <2>1 DEF NoDraftTwice, QueueInv
<1> QED
  BY <1>1, <1>2, <1>3, <1>4, <1>5, NextIs, ShellAddsTwice DEF Outside

-----------------------------------------------------------------------------
(* Tags.                                                                   *)

Text == [edit : Nat, tags : SUBSET Concepts]

\* What was read of a document before the author was asked has the tags the knowledge base
\* has, so that putting it back puts both in step.
TagInv ==
  /\ file \in [Docs -> Text] /\ stored \in [Docs -> Text] /\ torn \subseteq Docs
  /\ TagsInBothOrNeither
  /\ job.kind \in TagKinds \cup {"tagging"} => job.accepted \subseteq Concepts
  /\ job.kind \in TagKinds =>
       /\ job.at \in Docs /\ job.raw \in Text
       /\ stored[job.at] # NotStored /\ job.at \notin torn => job.raw.tags = stored[job.at].tags

InStepAt(d, t) == stored[d] # NotStored /\ d \notin torn => t.tags = stored[d].tags

LEMMA InStepWhenNotTagged ==
  ASSUME TagInv, job.kind # "tagged", NEW d \in Docs
  PROVE  InStepAt(d, file[d])
BY DEF TagInv, TagsInBothOrNeither, InStepAt

LEMMA TaggedIsText ==
  ASSUME NEW d \in Docs, NEW t \in Text, job.accepted \subseteq Concepts
  PROVE  Tagged(d, t) \in Text
<1>1. Mentions[d] \subseteq Concepts
  BY KnowledgeAssumption
<1>2. t.tags \cup (job.accepted \cap Mentions[d]) \subseteq Concepts
  BY <1>1 DEF Text
<1>3. Tagged(d, t) = [t EXCEPT !.tags = t.tags \cup (job.accepted \cap Mentions[d])]
  BY DEF Tagged, Text
<1> QED
  BY <1>2, <1>3 DEF Text

LEMMA NoTags ==
  ASSUME TagInv, job.kind # "tagged", file' = file, stored' = stored, torn' = torn,
         job'.kind \notin TagKinds \cup {"tagging"}
  PROVE  TagInv'
<1>1. TagsInBothOrNeither'
  BY DEF TagInv, TagsInBothOrNeither, TagKinds
<1> QED
  BY <1>1 DEF TagInv

\* A file that is cut short is set apart, and the others are left as they were.
LEMMA CutTags ==
  ASSUME file \in [Docs -> Text], torn \subseteq Docs, NEW d \in Docs, NEW t \in Text, CutShort(d, t)
  PROVE  /\ file' \in [Docs -> Text] /\ torn' \subseteq Docs /\ torn' = torn \cup {d}
         /\ \A e \in Docs : e # d => file'[e] = file[e]
<1>1. PICK tags \in SUBSET t.tags :
        file' = [file EXCEPT ![d] = [edit |-> file[d].edit + 1, tags |-> tags]]
  BY DEF CutShort
<1>2. [edit |-> file[d].edit + 1, tags |-> tags] \in Text
  <2>1. file[d].edit + 1 \in Nat
    BY DEF Text
  <2> QED
    BY <2>1 DEF Text
<1> QED
  BY <1>1, <1>2 DEF CutShort

LEMMA WriteTags ==
  ASSUME TagInv, job.kind # "tagged", job.accepted \subseteq Concepts, stored' = stored,
         NEW all, NEW d \in Docs, NEW raw \in Text, InStepAt(d, raw), Write(all, d, raw)
  PROVE  TagInv'
<1>1. job'.accepted = job.accepted
  BY WriteJob
<1>2. CASE TaggingJob(job') /\ file' = file /\ torn' = torn
  <2>1. TagsInBothOrNeither'
    BY <1>2 DEF TagInv, TagsInBothOrNeither, TaggingJob
  <2> QED
    BY <1>1, <1>2, <2>1 DEF TagInv, TaggingJob, TagKinds
<1>4. CASE TaggingJob(job') /\ CutShort(d, Tagged(d, raw))
  <2>1. /\ file' \in [Docs -> Text] /\ torn' \subseteq Docs /\ torn' = torn \cup {d}
        /\ \A e \in Docs : e # d => file'[e] = file[e]
    BY <1>4, TaggedIsText, CutTags DEF TagInv
  <2>2. TagsInBothOrNeither'
    BY <1>4, <2>1 DEF TagInv, TagsInBothOrNeither, TaggingJob
  <2> QED
    BY <1>1, <1>4, <2>1, <2>2 DEF TagInv, TaggingJob, TagKinds
<1>3. CASE /\ job'.kind = "tagged" /\ job'.at = d /\ job'.raw = raw
           /\ file' = [file EXCEPT ![d] = Tagged(d, raw)] /\ torn' = torn
  <2>1. Tagged(d, raw) \in Text
    BY TaggedIsText
  <2>2. file' \in [Docs -> Text] /\ \A e \in Docs : e # d => file'[e] = file[e]
    BY <1>3, <2>1 DEF TagInv
  <2>3. TagsInBothOrNeither'
    BY <1>3, <2>2 DEF TagInv, TagsInBothOrNeither
  <2>4. stored'[d] # NotStored /\ d \notin torn' => raw.tags = stored'[d].tags
    BY <1>3 DEF InStepAt
  <2> QED
    BY <1>1, <1>3, <2>2, <2>3, <2>4 DEF TagInv, TagKinds
<1> QED
  BY <1>2, <1>3, <1>4, WriteJob

LEMMA TagNextTags ==
  ASSUME TagInv, NEW d \in Docs, TagNext(d)
  PROVE  TagInv'
<1>1. job.kind = "tagging" /\ job.accepted \subseteq Concepts /\ stored' = stored /\ file[d] \in Text
  BY DEF TagNext, TagInv
<1>2. InStepAt(d, file[d])
  BY <1>1, InStepWhenNotTagged
<1>3. CASE \E todo : Tagging(job.all, todo) /\ file' = file /\ torn' = torn
  <2>1. TaggingJob(job') /\ job'.accepted = job.accepted
    BY <1>3, TaggingIs DEF TagKinds
  <2>2. TagsInBothOrNeither'
    BY <1>1, <1>3, <2>1 DEF TagInv, TagsInBothOrNeither, TaggingJob
  <2> QED
    BY <1>1, <1>3, <2>1, <2>2 DEF TagInv, TaggingJob, TagKinds
<1>4. CASE Write(TRUE, d, file[d])
  BY <1>1, <1>2, <1>4, WriteTags
<1>5. CASE TaggingAt("asking", FALSE, d, file[d]) /\ file' = file /\ torn' = torn
  <2>1. job'.kind = "asking" /\ job'.accepted = job.accepted /\ job'.at = d /\ job'.raw = file[d]
    <3>1. \A all : TaggingAt("asking", all, d, file[d]) =>
            job'.kind = "asking" /\ job'.accepted = job.accepted /\ job'.at = d /\ job'.raw = file[d]
      BY DEF TaggingAt
    <3> QED
      BY <1>5, <3>1
  <2>2. TagsInBothOrNeither'
    BY <1>1, <1>5, <2>1 DEF TagInv, TagsInBothOrNeither
  <2>3. stored'[d] # NotStored /\ d \notin torn' => job'.raw.tags = stored'[d].tags
    BY <1>1, <1>2, <1>5, <2>1 DEF InStepAt
  <2> QED
    BY <1>1, <1>5, <2>1, <2>2, <2>3 DEF TagInv, TagKinds
<1> QED
  BY <1>3, <1>4, <1>5 DEF TagNext

LEMMA TagAnswerTags ==
  ASSUME TagInv, NEW choice, TagAnswer(choice)
  PROVE  TagInv'
<1>1. /\ job.kind = "asking" /\ job.accepted \subseteq Concepts /\ stored' = stored
      /\ job.at \in Docs /\ job.raw \in Text /\ InStepAt(job.at, job.raw)
  BY DEF TagAnswer, TagInv, TagKinds, InStepAt
<1>2. CASE \E all : Write(all, job.at, job.raw)
  BY <1>1, <1>2, WriteTags
<1>3. CASE (\E all, todo : Tagging(all, todo)) /\ file' = file /\ torn' = torn
  <2>1. TaggingJob(job') /\ job'.accepted = job.accepted
    BY <1>3, TaggingIs DEF TagKinds
  <2>2. TagsInBothOrNeither'
    BY <1>1, <1>3, <2>1 DEF TagInv, TagsInBothOrNeither, TaggingJob
  <2> QED
    BY <1>1, <1>3, <2>1, <2>2 DEF TagInv, TaggingJob, TagKinds
<1>4. CASE job' = Idle /\ file' = file /\ torn' = torn
  BY <1>1, <1>4, NoTags, IdleKind DEF TagKinds
<1>5. \/ \E all : Write(all, job.at, job.raw)
      \/ (\E all, todo : Tagging(all, todo)) /\ file' = file /\ torn' = torn
      \/ job' = Idle /\ file' = file /\ torn' = torn
  BY Zenon DEF TagAnswer
<1> QED
  BY <1>2, <1>3, <1>4, <1>5

LEMMA IngestedTags ==
  ASSUME TagInv, NEW d \in Docs, Ingested(d), file' = file,
         job.kind = "tagged" => job.at = d, job'.kind \notin TagKinds
  PROVE  /\ stored' \in [Docs -> Text] /\ torn' \subseteq Docs /\ TagsInBothOrNeither'
<1>1. stored' = [stored EXCEPT ![d] = file[d]] /\ torn' = torn \ {d}
  BY DEF Ingested
<1>2. stored' \in [Docs -> Text] /\ stored'[d] = file[d] /\ \A e \in Docs : e # d => stored'[e] = stored[e]
  BY <1>1 DEF TagInv
<1>3. TagsInBothOrNeither'
  BY <1>1, <1>2 DEF TagInv, TagsInBothOrNeither
<1> QED
  BY <1>1, <1>2, <1>3 DEF TagInv

LEMMA ReingestTags ==
  ASSUME TagInv, Reingest
  PROVE  TagInv'
<1>1. /\ job.kind = "tagged" /\ job.accepted \subseteq Concepts /\ job.at \in Docs /\ job.raw \in Text
      /\ InStepAt(job.at, job.raw)
  BY DEF Reingest, TagInv, TagKinds, InStepAt
<1>2. TaggingJob(job') /\ job'.accepted = job.accepted /\ job'.kind = "tagging"
  BY TaggingIs DEF Reingest, TagKinds, TaggingJob
<1>3. CASE Ingested(job.at) /\ file' = file
  <2>1. stored' \in [Docs -> Text] /\ torn' \subseteq Docs /\ TagsInBothOrNeither'
    BY <1>1, <1>2, <1>3, IngestedTags DEF TagKinds
  <2> QED
    BY <1>1, <1>2, <1>3, <2>1 DEF TagInv, TagKinds
<1>4. CASE stored' = stored /\ file' = [file EXCEPT ![job.at] = job.raw] /\ torn' = torn
  <2>1. file' \in [Docs -> Text] /\ file'[job.at] = job.raw /\ \A e \in Docs : e # job.at => file'[e] = file[e]
    BY <1>1, <1>4 DEF TagInv
  <2>2. TagsInBothOrNeither'
    BY <1>1, <1>4, <2>1 DEF TagInv, TagsInBothOrNeither, InStepAt
  <2> QED
    BY <1>1, <1>2, <1>4, <2>1, <2>2 DEF TagInv, TagKinds
<1>5. CASE stored' = stored /\ file' = file /\ torn' = torn \cup {job.at}
  <2>1. TagsInBothOrNeither'
    BY <1>1, <1>5 DEF TagInv, TagsInBothOrNeither
  <2> QED
    BY <1>1, <1>2, <1>5, <2>1 DEF TagInv, TagKinds
<1>6. CASE stored' = stored /\ CutShort(job.at, job.raw)
  <2>1. /\ file' \in [Docs -> Text] /\ torn' \subseteq Docs /\ torn' = torn \cup {job.at}
        /\ \A e \in Docs : e # job.at => file'[e] = file[e]
    BY <1>1, <1>6, CutTags DEF TagInv
  <2>2. TagsInBothOrNeither'
    BY <1>1, <1>6, <2>1 DEF TagInv, TagsInBothOrNeither
  <2> QED
    BY <1>1, <1>2, <1>6, <2>1, <2>2 DEF TagInv, TagKinds
<1> QED
  BY <1>3, <1>4, <1>5, <1>6 DEF Reingest, PutBack

LEMMA OtherTags ==
  ASSUME TagInv, JobInv, OtherActions
  PROVE  TagInv'
<1>1. job'.kind \notin TagKinds \cup {"tagging"}
  BY OtherActionsJob, IdleKind DEF Ingesting, Summarizing, TagKinds
<1>2. CASE Killed
  <2>1. /\ file' = file /\ stored' = stored
        /\ torn' = IF job.kind = "tagged" THEN torn \cup {job.at} ELSE torn
    BY <1>2 DEF Killed
  <2>2. job.kind = "tagged" => job.at \in Docs
    BY DEF TagInv, TagKinds
  <2>3. TagsInBothOrNeither'
    BY <2>1, <2>2 DEF TagInv, TagsInBothOrNeither
  <2> QED
    BY <1>1, <2>1, <2>2, <2>3 DEF TagInv
<1>3. CASE \E d \in Docs : IngestNext(d)
  <2>1. PICK d \in Docs : IngestNext(d)
    BY <1>3
  <2>2. job.kind = "ingesting" /\ file' = file
    BY <2>1 DEF IngestNext
  <2>3. CASE Ingested(d)
    <3>1. stored' \in [Docs -> Text] /\ torn' \subseteq Docs /\ TagsInBothOrNeither'
      BY <1>1, <2>2, <2>3, IngestedTags
    <3> QED
      BY <1>1, <2>2, <3>1 DEF TagInv
  <2>4. CASE stored' = stored /\ torn' = torn
    BY <1>1, <2>2, <2>4, NoTags
  <2> QED
    BY <2>1, <2>3, <2>4 DEF IngestNext
<1>4. CASE \/ DraftReports \/ TagsReported
           \/ \E chosen \in SUBSET Docs : LearnIngest(chosen)
           \/ \E limit \in Limits, thenReview \in BOOLEAN : LearnDraft(limit, thenReview)
           \/ \E i \in Items : DraftPending(i)
  <2>1. file' = file /\ stored' = stored /\ torn' = torn /\ job.kind # "tagged"
    BY <1>4, IdleKind DEF DraftReports, TagsReported, LearnIngest, LearnDraft, DraftPending, Given, Documents
  <2> QED
    BY <1>1, <2>1, NoTags
<1> QED
  BY <1>2, <1>3, <1>4 DEF OtherActions

LEMMA TagsStep ==
  ASSUME TagInv, JobInv, [Next]_vars
  PROVE  TagInv'
<1>1. CASE \/ \E n \in Passes, limit \in Limits : Draft(n, limit)
           \/ DraftActions \/ ReviewActions
  <2>1. file' = file /\ stored' = stored /\ torn' = torn
    BY <1>1 DEF Draft, DraftActions, ReviewActions, AskPass, PassFails, StopsAsking, Interrupt, PassAnswers,
      WriteDraft, Accept, SkipOrQuit, DraftReported, LearnReview, EditOrRedraft, Documents
  <2>2. job.kind \notin TagKinds \cup {"tagging"}
    BY <1>1, IdleKind DEF Draft, Given, DraftActions, ReviewActions, AskPass, PassFails, StopsAsking, Interrupt,
      PassAnswers, WriteDraft, Accept, SkipOrQuit, DraftReported, LearnReview, EditOrRedraft, TagKinds
  <2>3. job'.kind \notin TagKinds \cup {"tagging"}
    BY <1>1, <2>2, IdleKind, DraftJob, DraftActionsJob, ReviewActionsJob DEF Reviewing, DraftKinds, TagKinds
  <2> QED
    BY <2>1, <2>2, <2>3, NoTags DEF TagKinds
<1>2. CASE \E picked, added \in SUBSET Concepts : LearnConcepts(picked, added)
  <2>1. PICK picked, added \in SUBSET Concepts : LearnConcepts(picked, added)
    BY <1>2
  <2>2. file' = file /\ stored' = stored /\ torn' = torn /\ job.kind # "tagged"
    BY <2>1, IdleKind DEF LearnConcepts, Given
  <2>3. job'.kind \notin TagKinds /\ (job'.kind = "tagging" => job'.accepted = picked)
    <3>1. \A p, a, t : LET j == [kind |-> "tagging", accepted |-> p, all |-> a, todo |-> t] IN
                       j.kind = "tagging" /\ j.accepted = p
      OBVIOUS
    <3>2. job' = Idle \/ \E a, t : job' = [kind |-> "tagging", accepted |-> picked, all |-> a, todo |-> t]
      BY <2>1, Zenon DEF LearnConcepts
    <3> QED
      BY <3>1, <3>2, IdleKind DEF TagKinds
  <2>4. TagsInBothOrNeither'
    BY <2>2, <2>3 DEF TagInv, TagsInBothOrNeither, TagKinds
  <2> QED
    BY <2>2, <2>3, <2>4 DEF TagInv
<1>3. CASE OtherActions
  BY <1>3, OtherTags
<1>4. CASE Outside
  <2>1. CASE \E d \in Docs : AuthorEdits(d)
    <3>1. PICK d \in Docs : file' = [file EXCEPT ![d] = [file[d] EXCEPT !.edit = file[d].edit + 1]]
      BY <2>1 DEF AuthorEdits, TagInv, Text
    <3>2. stored' = stored /\ torn' = torn /\ job' = job
      BY <2>1 DEF AuthorEdits
    <3> DEFINE t == [file[d] EXCEPT !.edit = file[d].edit + 1]
    <3>3. t \in Text /\ t.tags = file[d].tags
      BY DEF TagInv, Text
    <3>4. file' = [file EXCEPT ![d] = t]
      BY <3>1
    <3> HIDE DEF t
    <3>5. file' \in [Docs -> Text] /\ \A e \in Docs : file'[e].tags = file[e].tags
      BY <3>3, <3>4 DEF TagInv
    <3>6. TagsInBothOrNeither'
      BY <3>2, <3>5 DEF TagInv, TagsInBothOrNeither
    <3> QED
      BY <3>2, <3>5, <3>6 DEF TagInv
  <2>2. CASE UNCHANGED <<file, stored, torn, job>>
    BY <2>2 DEF TagInv, TagsInBothOrNeither
  <2> QED
    BY <1>4, <2>1, <2>2 DEF Outside, ShellAdds, ShellReviews, Documents
<1>5. CASE UNCHANGED vars
  BY <1>5 DEF vars, TagInv, TagsInBothOrNeither
<1> QED
  BY <1>1, <1>2, <1>3, <1>4, <1>5, NextIs, TagNextTags, TagAnswerTags, ReingestTags DEF TagActions

-----------------------------------------------------------------------------
(* The review.                                                             *)

Summary == [by : {"none", "draft", "trusted"}, text : Texts \cup {NoText}, stale : BOOLEAN]

\* The texts that were read when the review began are those of the summaries still to be
\* shown: nothing else writes a summary meanwhile, and what the author edits is read again.
ReviewInv ==
  /\ summary \in [Items -> Summary]
  /\ job.kind = "reviewing" =>
       /\ job.todo \subseteq Items /\ job.at \in job.todo /\ job.todo \subseteq DOMAIN job.texts
       /\ \A i \in job.todo : job.texts[i] = summary[i].text

LEMMA DraftedIs ==
  ASSUME ReviewInv, NEW i \in Items, NEW text \in Texts, Drafted(i, text)
  PROVE  /\ summary' \in [Items -> Summary] /\ summary'[i].text = text /\ summary'[i].by = "draft"
         /\ \A k \in Items : k # i => summary'[k] = summary[k]
<1> DEFINE new == [by |-> "draft", text |-> text, stale |-> FALSE]
<1>1. summary' = [summary EXCEPT ![i] = new]
  BY DEF Drafted
<1>2. new \in Summary /\ new.text = text /\ new.by = "draft"
  BY DEF Summary
<1> HIDE DEF new
<1> QED
  BY <1>1, <1>2 DEF ReviewInv

LEMMA IngestedIs ==
  ASSUME ReviewInv, NEW d, Ingested(d)
  PROVE  summary' \in [Items -> Summary] /\ \A i \in Items : summary'[i].by = summary[i].by
<1> DEFINE marked(i) == [summary[i] EXCEPT !.stale = TRUE]
<1>1. \A i \in Items : marked(i) \in Summary /\ marked(i).by = summary[i].by
  <2>1. ASSUME NEW i \in Items, NEW b \in BOOLEAN
        PROVE  [summary[i] EXCEPT !.stale = b] \in Summary /\ [summary[i] EXCEPT !.stale = b].by = summary[i].by
    BY DEF ReviewInv, Summary
  <2> QED
    BY <2>1
<1>2. summary' = [i \in Items |->
        IF DocOf[i] = d /\ i \notin Gists /\ summary[i].by # "none" /\ stored[d] # file[d]
        THEN marked(i) ELSE summary[i]]
  BY DEF Ingested
<1> HIDE DEF marked
<1> QED
  BY <1>1, <1>2 DEF ReviewInv

LEMMA ShowsReview ==
  ASSUME NEW items \in SUBSET Items, NEW texts, items \subseteq DOMAIN texts, Shows(items, texts),
         summary' \in [Items -> Summary], \A i \in items : texts[i] = summary'[i].text
  PROVE  ReviewInv'
BY ShowsJob, IdleKind DEF ReviewInv

LEMMA AcceptReview ==
  ASSUME ReviewInv, Accept
  PROVE  /\ ReviewInv'
         /\ \A i \in Items : summary'[i].by = "trusted" /\ summary[i].by # "trusted" =>
              job.at = i /\ job.texts[i] = summary'[i].text
<1>1. CASE summary' = [summary EXCEPT ![job.at].by = "trusted"] /\ NextItem
  <2> DEFINE new == [summary[job.at] EXCEPT !.by = "trusted"]
  <2>1. job.at \in Items /\ job.at \in job.todo /\ job.todo \subseteq Items /\ job.todo \subseteq DOMAIN job.texts
          /\ \A i \in job.todo : job.texts[i] = summary[i].text
    BY DEF Accept, ReviewInv
  <2>2. new \in Summary /\ new.text = summary[job.at].text
    BY <2>1 DEF ReviewInv, Summary
  <2>3. summary' = [summary EXCEPT ![job.at] = new]
    BY <1>1
  <2> HIDE DEF new
  <2>4. /\ summary' \in [Items -> Summary] /\ summary'[job.at] = new
        /\ \A i \in Items : i # job.at => summary'[i] = summary[i]
    BY <2>1, <2>2, <2>3 DEF ReviewInv
  <2>5. \A i \in job.todo \ {job.at} : job.texts[i] = summary'[i].text
    BY <2>1, <2>4
  <2>6. ReviewInv'
    BY <1>1, <2>1, <2>4, <2>5, ShowsReview DEF NextItem
  <2> QED
    BY <2>1, <2>2, <2>4, <2>6
<1>2. CASE summary' = summary /\ job' = job
  BY <1>2 DEF ReviewInv
<1> QED
  BY <1>1, <1>2 DEF Accept

LEMMA EditReview ==
  ASSUME "refresh" \notin Faults, ReviewInv, JobInv,
         NEW text \in Texts, NEW refreshed, EditOrRedraft(text, refreshed)
  PROVE  ReviewInv' /\ \A i \in Items : summary'[i].by = "trusted" => summary[i].by = "trusted"
<1>1. refreshed /\ job.kind = "reviewing" /\ Drafted(job.at, text)
  BY DEF EditOrRedraft, Fails
<1>2. /\ job'.todo = job.todo /\ job'.at = job.at /\ job'.texts = [job.texts EXCEPT ![job.at] = text]
      /\ job'.kind = "reviewing"
  BY <1>1, EditOrRedraftJob DEF Reviewing
<1>3. job.at \in Items /\ job.at \in job.todo /\ job.todo \subseteq Items /\ job.todo \subseteq DOMAIN job.texts
        /\ \A i \in job.todo : job.texts[i] = summary[i].text
  BY <1>1 DEF ReviewInv
<1>4. /\ summary' \in [Items -> Summary] /\ summary'[job.at].text = text /\ summary'[job.at].by = "draft"
      /\ \A k \in Items : k # job.at => summary'[k] = summary[k]
  BY <1>1, <1>3, DraftedIs
<1>5. DOMAIN job'.texts = DOMAIN job.texts /\ job'.texts[job.at] = text
        /\ \A i \in job.todo : i # job.at => job'.texts[i] = job.texts[i]
  BY <1>2, <1>3
<1>6. \A i \in job'.todo : job'.texts[i] = summary'[i].text
  BY <1>2, <1>3, <1>4, <1>5
<1> QED
  BY <1>2, <1>3, <1>4, <1>5, <1>6 DEF ReviewInv

\* What a step trusts was shown.
ShownNow ==
  \A i \in Items : summary'[i].by = "trusted" /\ summary[i].by # "trusted" =>
    job.kind = "reviewing" /\ job.at = i /\ job.texts[i] = summary'[i].text

LEMMA ReviewStep ==
  ASSUME "refresh" \notin Faults, ReviewInv, JobInv, [Next]_vars
  PROVE  ReviewInv' /\ ShownNow
<1>1. CASE Accept
  BY <1>1, AcceptReview DEF ShownNow, Accept
<1>2. CASE \E text \in Texts, refreshed \in BOOLEAN : EditOrRedraft(text, refreshed)
  BY <1>2, EditReview DEF ShownNow
<1>3. CASE LearnReview \/ DraftReported
  <2>1. summary' = summary
    BY <1>3 DEF LearnReview, DraftReported, Documents
  <2>2. ReviewInv'
    <3>1. CASE job' = Idle
      BY <2>1, <3>1, IdleKind DEF ReviewInv
    <3>2. CASE ReviewOf(ItemsThatAre("draft"))
      <4> DEFINE items == ItemsThatAre("draft")
                 texts == [i \in items |-> summary[i].text]
      <4>1. items \in SUBSET Items /\ Shows(items, texts)
        BY <3>2 DEF ReviewOf, ItemsThatAre
      <4> HIDE DEF items
      <4>2. DOMAIN texts = items /\ \A i \in items : texts[i] = summary'[i].text
        BY <2>1
      <4>3. summary' \in [Items -> Summary]
        BY <2>1 DEF ReviewInv
      <4> HIDE DEF texts
      <4> QED
        BY <4>1, <4>2, <4>3, ShowsReview
    <3> QED
      BY <1>3, <3>1, <3>2 DEF LearnReview, DraftReported
  <2> QED
    BY <2>1, <2>2 DEF ShownNow
<1>4. CASE SkipOrQuit
  <2>1. summary' = summary /\ job.kind = "reviewing"
    BY <1>4 DEF SkipOrQuit, Documents
  <2>2. ReviewInv'
    <3>1. CASE job' = Idle
      BY <2>1, <3>1, IdleKind DEF ReviewInv
    <3>2. CASE NextItem
      <4>1. job.todo \ {job.at} \in SUBSET Items /\ job.todo \ {job.at} \subseteq DOMAIN job.texts
              /\ summary' \in [Items -> Summary]
              /\ \A i \in job.todo \ {job.at} : job.texts[i] = summary'[i].text
        BY <2>1 DEF ReviewInv
      <4> QED
        BY <3>2, <4>1, ShowsReview DEF NextItem
    <3> QED
      BY <1>4, <3>1, <3>2 DEF SkipOrQuit
  <2> QED
    BY <2>1, <2>2 DEF ShownNow
<1>5. CASE (\E d \in Docs : IngestNext(d)) \/ Reingest
  <2>1. (\E d : Ingested(d)) \/ summary' = summary
    BY <1>5 DEF IngestNext, Reingest
  <2>2. summary' \in [Items -> Summary] /\ \A i \in Items : summary'[i].by = summary[i].by
    BY <2>1, IngestedIs DEF ReviewInv
  <2>3. job'.kind # "reviewing"
    BY <1>5, TagActionsJob, OtherActionsJob, IdleKind DEF TagActions, OtherActions, TaggingJob, TagJob, TagKinds,
      Ingesting, Summarizing
  <2> QED
    BY <2>2, <2>3 DEF ReviewInv, ShownNow
<1>6. CASE \E i \in Items : DraftPending(i)
  <2>1. summary' = summary \/ \E i \in Items, text \in Texts : Drafted(i, text)
    BY <1>6 DEF DraftPending
  <2>2. summary' \in [Items -> Summary] /\ \A i \in Items : summary'[i].by = "trusted" => summary[i].by = "trusted"
    <3>1. CASE summary' = summary
      BY <3>1 DEF ReviewInv
    <3>2. CASE \E i \in Items, text \in Texts : Drafted(i, text)
      BY <3>2, DraftedIs
    <3> QED
      BY <2>1, <3>1, <3>2
  <2>3. job'.kind # "reviewing"
    BY <1>6, OtherActionsJob, IdleKind DEF OtherActions, Ingesting, Summarizing
  <2> QED
    BY <2>2, <2>3 DEF ReviewInv, ShownNow
<1>7. CASE \/ \E n \in Passes, limit \in Limits : Draft(n, limit)
           \/ DraftActions
           \/ \E picked, added \in SUBSET Concepts : LearnConcepts(picked, added)
           \/ \E d \in Docs : TagNext(d)
           \/ \E choice \in {"yes", "no", "all", "quit"} : TagAnswer(choice)
           \/ DraftReports \/ TagsReported \/ Killed
           \/ \E chosen \in SUBSET Docs : LearnIngest(chosen)
           \/ \E limit \in Limits, thenReview \in BOOLEAN : LearnDraft(limit, thenReview)
  <2>1. summary' = summary
    BY <1>7 DEF Draft, DraftActions, LearnConcepts, TagNext, TagAnswer, DraftReports, TagsReported, Killed,
      LearnIngest, LearnDraft, AskPass, PassFails, StopsAsking, Interrupt, PassAnswers, WriteDraft, Documents
  <2>2. job'.kind # "reviewing"
    BY <1>7, DraftJob, DraftActionsJob, TagActionsJob, OtherActionsJob, IdleKind DEF TagActions, OtherActions,
      TaggingJob, TagJob, TagKinds, DraftKinds, Ingesting, Summarizing
  <2> QED
    BY <2>1, <2>2 DEF ReviewInv, ShownNow
<1>8. CASE Outside \/ UNCHANGED vars
  <2>1. summary' = summary /\ job' = job
    BY <1>8 DEF Outside, ShellAdds, ShellReviews, AuthorEdits, Documents, vars
  <2> QED
    BY <2>1 DEF ReviewInv, ShownNow
<1> QED
  BY <1>1, <1>2, <1>3, <1>4, <1>5, <1>6, <1>7, <1>8, NextIs DEF ReviewActions, TagActions, OtherActions

-----------------------------------------------------------------------------
(* The theorems.                                                           *)

LEMMA KnowledgeInit == Init => JobInv /\ ObsInv /\ DraftInv /\ TagInv /\ ReviewInv
<1> SUFFICES ASSUME Init PROVE JobInv /\ ObsInv /\ DraftInv /\ TagInv /\ ReviewInv
  OBVIOUS
<1>1. job = Idle /\ job.kind = "none"
  BY IdleKind DEF Init
<1>2. JobInv /\ DraftInv
  BY <1>1 DEF JobInv, DraftInv, DraftKinds
<1>3. ObsInv
  <2>1. obs = <<>> /\ DOMAIN obs = {} /\ spent.commands = 0 /\ spent = [commands |-> 0, others |-> 0]
    BY DEF Init
  <2>2. obs \in Seq(Range(obs))
    BY <2>1
  <2> QED
    BY <2>1, <2>2 DEF ObsInv
<1>4. TagInv
  <2>1. [edit |-> 1, tags |-> {}] \in Text /\ NotStored \in Text
    BY DEF Text, NotStored
  <2>2. file \in [Docs -> Text] /\ stored \in [Docs -> Text] /\ torn = {} /\ \A d \in Docs : stored[d] = NotStored
    BY <2>1 DEF Init
  <2> QED
    BY <1>1, <2>2 DEF TagInv, TagKinds, TagsInBothOrNeither
<1>5. ReviewInv
  <2>1. NoSummary \in Summary
    BY DEF NoSummary, Summary
  <2> QED
    BY <1>1, <2>1 DEF Init, ReviewInv
<1> QED
  BY <1>2, <1>3, <1>4, <1>5

\* What a run says it wrote it wrote, and at most one row more, in the order proposed and
\* never above its limit, whatever fails, is interrupted or is done in a shell
\* (runKBDraft): the second half of DraftsOnce.
THEOREM DraftsAddUp == Spec => []DraftsAccounted
<1>1. JobInv /\ ObsInv /\ DraftInv => DraftsAccounted
  <2> SUFFICES ASSUME JobInv, ObsInv, DraftInv, job.kind = "writing"
               PROVE  DraftsAccounted
    BY DEF DraftsAccounted
  <2> DEFINE m == Mine(obs, job.run)
  <2>1. Told(obs, job) /\ IsFiniteSet(m) /\ m = {i \in DOMAIN obs : obs[i].run = job.run}
    BY MineIsFinite DEF DraftInv, DraftKinds, Mine
  <2>2. job.wrote \subseteq m
    BY <2>1 DEF Told
  <2>3. Cardinality(m \ job.wrote) <= IF job.broken THEN 1 ELSE 0
    <3>1. CASE job.broken
      <4>1. PICK x : m \ job.wrote \subseteq {x}
        BY <2>1, <3>1 DEF Told
      <4>2. IsFiniteSet({x}) /\ Cardinality({x}) = 1
        BY FS_Singleton
      <4> QED
        BY <3>1, <4>1, <4>2, FS_Subset
    <3>2. CASE ~job.broken
      <4>1. m \ job.wrote = {}
        BY <2>1, <3>2 DEF Told
      <4>2. Cardinality(m \ job.wrote) = 0
        BY <4>1, FS_EmptySet
      <4> QED
        BY <3>2, <4>2
    <3> QED
      BY <3>1, <3>2
  <2>4. job.limit > 0 => Cardinality(m) <= job.limit
    BY <2>1 DEF Told
  <2>5. \A i \in m : obs[i].body = job.queue[Cardinality({k \in m : k <= i})]
    BY <2>1 DEF Told, InOrder
  <2> QED
    BY <2>1, <2>2, <2>3, <2>4, <2>5 DEF DraftsAccounted, Mine
<1> QED
  BY <1>1, KnowledgeInit, JobStep, DraftsStep, PTL DEF Spec

\* A run drafts nothing that was held when it began, of any status, nor what Harvey itself
\* drafted before it, in this run, in one that was killed or in one whose answer was lost;
\* and it says of what it drafted neither more nor less (runKBDraft, DedupAgainst).
THEOREM NothingIsDraftedTwice == Spec => []DraftsOnce
<1>1. Init => NoDraftTwice /\ QueueInv
  <2> SUFFICES ASSUME Init PROVE NoDraftTwice /\ QueueInv
    OBVIOUS
  <2>1. DOMAIN obs = {} /\ job.kind = "none"
    BY IdleKind DEF Init
  <2> QED
    BY <2>1 DEF NoDraftTwice, QueueInv, DraftKinds
<1>2. NoDraftTwice /\ DraftsAccounted => DraftsOnce
  BY DEF DraftsOnce
<1> QED
  BY <1>1, <1>2, KnowledgeInit, JobStep, DraftsStep, TwiceStep, DraftsAddUp, PTL DEF Spec

\* The tags of a document are in its file and in the knowledge base or in neither
\* (applyConceptTagWrite).
THEOREM TagsTogether == Spec => []TagsInBothOrNeither
<1>1. TagInv => TagsInBothOrNeither
  BY DEF TagInv
<1> QED
  BY <1>1, KnowledgeInit, JobStep, TagsStep, PTL DEF Spec

\* Nothing is trusted that the author was not shown, if an edited summary can be read
\* again (kbLearnReview).
THEOREM OnlyShownIsTrusted ==
  ASSUME "refresh" \notin Faults
  PROVE  Spec => TrustedWasShown
<1>1. ReviewInv /\ JobInv /\ [Next]_vars => ReviewInv' /\ JobInv' /\ [ShownNow]_vars
  BY ReviewStep, JobStep
<1>2. [ShownNow]_vars => [\A i \in Items : summary'[i].by = "trusted" /\ summary[i].by # "trusted" =>
                            job.kind = "reviewing" /\ job.at = i /\ job.texts[i] = summary'[i].text]_vars
  BY DEF ShownNow
<1> QED
  BY <1>1, <1>2, KnowledgeInit, PTL DEF Spec, TrustedWasShown

-----------------------------------------------------------------------------
(* Folds. A fold of the community modules is a recursive function on the   *)
(* sets of positions, of which the greatest is done last. What it computes *)
(* is said here once, of any step that is a function: the values after     *)
(* each position (f), that there is such a function on sets (g), and that  *)
(* every one of them (h) has these values.                                 *)

LEMMA UpTo ==
  ASSUME NEW n \in Nat, NEW T, 0 \in T, \A i \in 1 .. n : i - 1 \in T => i \in T
  PROVE  \A i \in 0 .. n : i \in T
<1> DEFINE U == {i \in 0 .. n : i \notin T}
<1> SUFFICES ASSUME U # {} PROVE FALSE
  OBVIOUS
<1>1. U \subseteq Nat
  OBVIOUS
<1>2. PICK m \in U : \A k \in U : m <= k
  <2> HIDE DEF U
  <2> QED BY <1>1, LeastNatural
<1>3. m \in 1 .. n /\ m - 1 \in 0 .. n /\ m - 1 < m
  BY <1>2
<1>4. m - 1 \in T
  BY <1>2, <1>3
<1> QED
  BY <1>2, <1>3, <1>4

LEMMA GreatestIn ==
  ASSUME NEW n \in Nat, NEW s \in SUBSET (1 .. n), s # {}
  PROVE  Max(s) \in s /\ s \ {Max(s)} \in SUBSET (1 .. n)
<1> DEFINE T == {n - x : x \in s}
<1>1. T \subseteq Nat /\ T # {}
  OBVIOUS
<1>2. PICK y \in T : \A z \in T : y <= z
  <2> HIDE DEF T
  <2> QED BY <1>1, LeastNatural
<1>3. PICK x \in s : y = n - x
  BY <1>2
<1>4. \A z \in s : x >= z
  <2> SUFFICES ASSUME NEW z \in s PROVE x >= z
    OBVIOUS
  <2>1. n - x <= n - z
    BY <1>2, <1>3
  <2> QED
    BY <2>1
<1>5. \E u \in s : \A z \in s : u >= z
  BY <1>4
<1>6. Max(s) \in s
  BY <1>5, Zenon DEF Max
<1> QED
  BY <1>6

\* The values of a fold after each position.
Folded(f, A, st, base, p) ==
  /\ f \in [0 .. Len(p) -> A] /\ f[0] = base
  /\ \A i \in 1 .. Len(p) : f[i] = st[<<f[i - 1], p[i]>>]

\* A function on sets of positions that folds, where its values are in A.
FoldsIn(h, A, st, base, p, n) ==
  /\ h[{}] = base
  /\ \A s \in SUBSET (1 .. n) : s # {} /\ h[s \ {Max(s)}] \in A =>
       h[s] = st[<<h[s \ {Max(s)}], p[Max(s)]>>]

FoldsOn(g, A, st, base, p, n) ==
  /\ g \in [SUBSET (1 .. n) -> A] /\ g[{}] = base
  /\ \A s \in SUBSET (1 .. n) : s # {} => g[s] = st[<<g[s \ {Max(s)}], p[Max(s)]>>]

\* What is used of the two.
Steps(g, A, B, st, base, p) ==
  /\ g = [s \in SUBSET (DOMAIN p) |-> g[s]] /\ g[{}] = base
  /\ \A s \in SUBSET (DOMAIN p) : s # {} =>
       /\ g[s \ {Max(s)}] \in A /\ p[Max(s)] \in B
       /\ g[s] = st[<<g[s \ {Max(s)}], p[Max(s)]>>]
ValuesOf(f, A, st, base, p) ==
  /\ Folded(f, A, st, base, p)
  /\ \A h : FoldsIn(h, A, st, base, p, Len(p)) => h[1 .. Len(p)] = f[Len(p)]

LEMMA FoldOneMore ==
  ASSUME NEW A, NEW B, NEW st \in [A \X B -> A], NEW base \in A, NEW p \in Seq(B),
         NEW m \in Nat, m + 1 <= Len(p), NEW g, FoldsOn(g, A, st, base, p, m)
  PROVE  \E h : FoldsOn(h, A, st, base, p, m + 1)
<1> DEFINE h == [s \in SUBSET (1 .. m + 1) |->
                   IF s \in SUBSET (1 .. m) THEN g[s] ELSE st[<<g[s \ {m + 1}], p[m + 1]>>]]
<1>1. p[m + 1] \in B
  BY LenProperties
<1>2. \A s \in SUBSET (1 .. m) : g[s] \in A
  BY DEF FoldsOn
<1>3. \A s \in SUBSET (1 .. m + 1) : s \ {m + 1} \in SUBSET (1 .. m) /\ (s \notin SUBSET (1 .. m) => m + 1 \in s)
  <2>1. \A x \in 1 .. m + 1 : x \in 1 .. m \/ x = m + 1
    OBVIOUS
  <2> QED
    BY <2>1
<1>4. h \in [SUBSET (1 .. m + 1) -> A]
  <2>1. ASSUME NEW s \in SUBSET (1 .. m + 1) PROVE st[<<g[s \ {m + 1}], p[m + 1]>>] \in A
    <3>1. g[s \ {m + 1}] \in A
      BY <1>2, <1>3
    <3> QED
      BY <1>1, <3>1
  <2> QED
    BY <1>2, <2>1
<1>5. h[{}] = base
  BY DEF FoldsOn
<1>6. ASSUME NEW s \in SUBSET (1 .. m + 1), s # {}
      PROVE  h[s] = st[<<h[s \ {Max(s)}], p[Max(s)]>>]
  <2>1. CASE s \in SUBSET (1 .. m)
    <3>1. s \ {Max(s)} \in SUBSET (1 .. m) /\ s \ {Max(s)} \in SUBSET (1 .. m + 1)
      BY <2>1
    <3>2. h[s] = g[s] /\ h[s \ {Max(s)}] = g[s \ {Max(s)}]
      BY <2>1, <3>1
    <3>3. g[s] = st[<<g[s \ {Max(s)}], p[Max(s)]>>]
      BY <1>6, <2>1 DEF FoldsOn
    <3> HIDE DEF h
    <3> QED
      BY <3>2, <3>3
  <2>2. CASE s \notin SUBSET (1 .. m)
    <3>1. Max(s) = m + 1
      BY <1>3, <2>2, LastOf
    <3>2. s \ {m + 1} \in SUBSET (1 .. m) /\ s \ {m + 1} \in SUBSET (1 .. m + 1)
      BY <1>3
    <3>3. h[s] = st[<<g[s \ {m + 1}], p[m + 1]>>] /\ h[s \ {m + 1}] = g[s \ {m + 1}]
      BY <2>2, <3>2
    <3> HIDE DEF h
    <3> QED
      BY <3>1, <3>3
  <2> QED
    BY <2>1, <2>2
<1> HIDE DEF h
<1> QED
  BY <1>4, <1>5, <1>6 DEF FoldsOn

LEMMA FoldExists ==
  ASSUME NEW A, NEW B, NEW st \in [A \X B -> A], NEW base \in A, NEW p \in Seq(B)
  PROVE  \E g : FoldsOn(g, A, st, base, p, Len(p))
<1> DEFINE T == {m \in Nat : \E g : FoldsOn(g, A, st, base, p, m)}
<1>1. 0 \in T
  <2> DEFINE g == [s \in SUBSET (1 .. 0) |-> base]
  <2>1. \A s \in SUBSET (1 .. 0) : s = {}
    OBVIOUS
  <2>2. g \in [SUBSET (1 .. 0) -> A] /\ g[{}] = base
    OBVIOUS
  <2> HIDE DEF g
  <2>3. FoldsOn(g, A, st, base, p, 0)
    BY <2>1, <2>2 DEF FoldsOn
  <2> QED
    BY <2>3
<1>2. ASSUME NEW i \in 1 .. Len(p), i - 1 \in T PROVE i \in T
  <2>1. Len(p) \in Nat /\ i - 1 \in Nat /\ i \in Nat /\ i - 1 + 1 = i /\ i <= Len(p)
    BY LenProperties
  <2>2. PICK g : FoldsOn(g, A, st, base, p, i - 1)
    BY <1>2
  <2>3. \E h : FoldsOn(h, A, st, base, p, i - 1 + 1)
    BY <2>1, <2>2, FoldOneMore
  <2> QED
    BY <2>1, <2>3
<1>3. Len(p) \in Nat /\ Len(p) \in 0 .. Len(p)
  BY LenProperties
<1> HIDE DEF T
<1>4. Len(p) \in T
  BY <1>1, <1>2, <1>3, UpTo
<1> QED
  BY <1>4 DEF T

LEMMA Prefix == \A i \in Nat : i # 0 => Max(1 .. i) = i /\ (1 .. i) \ {i} = 1 .. i - 1 /\ 1 .. i # {}
<1> SUFFICES ASSUME NEW i \in Nat, i # 0 PROVE Max(1 .. i) = i /\ (1 .. i) \ {i} = 1 .. i - 1 /\ 1 .. i # {}
  OBVIOUS
<1>1. i - 1 \in Nat /\ i - 1 + 1 = i /\ 1 .. i \in SUBSET (1 .. i - 1 + 1) /\ i - 1 + 1 \in 1 .. i
  OBVIOUS
<1>2. Max(1 .. i) = i - 1 + 1
  BY <1>1, LastOf
<1>3. ASSUME NEW x PROVE x \in (1 .. i) \ {i} <=> x \in 1 .. i - 1
  OBVIOUS
<1> QED
  BY <1>1, <1>2, <1>3

LEMMA Folding ==
  ASSUME NEW A, NEW B, NEW st \in [A \X B -> A], NEW base \in A, NEW p \in Seq(B)
  PROVE  \E f : ValuesOf(f, A, st, base, p)
<1>1. PICK g : FoldsOn(g, A, st, base, p, Len(p))
  BY FoldExists
<1>2. Len(p) \in Nat
  BY LenProperties
<1> DEFINE f == [i \in 0 .. Len(p) |-> g[1 .. i]]
<1>3. \A i \in 0 .. Len(p) : 1 .. i \in SUBSET (1 .. Len(p))
  BY <1>2
<1>4. f \in [0 .. Len(p) -> A]
  BY <1>1, <1>3 DEF FoldsOn
<1>5. f[0] = base
  <2>1. 1 .. 0 = {} /\ 0 \in 0 .. Len(p)
    BY <1>2
  <2> QED
    BY <1>1, <2>1 DEF FoldsOn
<1>6. ASSUME NEW i \in 1 .. Len(p)
      PROVE  /\ f[i] = st[<<f[i - 1], p[i]>>]
             /\ i - 1 \in 0 .. Len(p) /\ i \in 0 .. Len(p) /\ i \in Nat /\ i # 0
  <2>1. i - 1 \in 0 .. Len(p) /\ i \in 0 .. Len(p) /\ i \in Nat /\ i # 0
    BY <1>2
  <2>2. Max(1 .. i) = i /\ (1 .. i) \ {i} = 1 .. i - 1 /\ 1 .. i # {}
    BY <2>1, Prefix
  <2>3. g[1 .. i] = st[<<g[1 .. i - 1], p[i]>>]
    BY <1>1, <1>3, <2>1, <2>2 DEF FoldsOn
  <2> QED
    BY <2>1, <2>3
<1> HIDE DEF f
<1>7. Folded(f, A, st, base, p)
  BY <1>4, <1>5, <1>6 DEF Folded
<1>8. ASSUME NEW h, FoldsIn(h, A, st, base, p, Len(p)) PROVE h[1 .. Len(p)] = f[Len(p)]
  <2> DEFINE T == {i \in 0 .. Len(p) : h[1 .. i] = f[i]}
  <2>1. 0 \in T
    <3>1. 1 .. 0 = {} /\ 0 \in 0 .. Len(p)
      BY <1>2
    <3> QED
      BY <1>5, <1>8, <3>1 DEF FoldsIn
  <2>2. ASSUME NEW i \in 1 .. Len(p), i - 1 \in T PROVE i \in T
    <3>1. f[i] = st[<<f[i - 1], p[i]>>] /\ i - 1 \in 0 .. Len(p) /\ i \in 0 .. Len(p) /\ i \in Nat /\ i # 0
      BY <1>6
    <3>2. Max(1 .. i) = i /\ (1 .. i) \ {i} = 1 .. i - 1 /\ 1 .. i # {}
      BY <3>1, Prefix
    <3>3. h[1 .. i - 1] = f[i - 1] /\ f[i - 1] \in A
      BY <1>4, <2>2, <3>1
    <3>4. h[1 .. i] = st[<<h[1 .. i - 1], p[i]>>]
      BY <1>3, <1>8, <3>1, <3>2, <3>3 DEF FoldsIn
    <3> QED
      BY <3>1, <3>3, <3>4
  <2>3. Len(p) \in 0 .. Len(p)
    BY <1>2
  <2> HIDE DEF T
  <2>4. Len(p) \in T
    BY <1>2, <2>1, <2>2, <2>3, UpTo
  <2> QED
    BY <2>4 DEF T
<1> QED
  BY <1>7, <1>8 DEF ValuesOf

LEMMA FoldSteps ==
  ASSUME NEW A, NEW B, NEW st \in [A \X B -> A], NEW base \in A, NEW p \in Seq(B)
  PROVE  \E g : Steps(g, A, B, st, base, p)
<1>1. PICK g : FoldsOn(g, A, st, base, p, Len(p))
  BY FoldExists
<1>2. DOMAIN p = 1 .. Len(p) /\ Len(p) \in Nat /\ \A i \in 1 .. Len(p) : p[i] \in B
  BY LenProperties
<1>3. \A s \in SUBSET (1 .. Len(p)) : s # {} => Max(s) \in 1 .. Len(p) /\ s \ {Max(s)} \in SUBSET (1 .. Len(p))
  BY <1>2, GreatestIn
<1>4. \A s \in SUBSET (1 .. Len(p)) : s # {} =>
        g[s \ {Max(s)}] \in A /\ p[Max(s)] \in B /\ g[s] = st[<<g[s \ {Max(s)}], p[Max(s)]>>]
  BY <1>1, <1>2, <1>3 DEF FoldsOn
<1>5. g = [s \in SUBSET (DOMAIN p) |-> g[s]] /\ g[{}] = base
  BY <1>1, <1>2 DEF FoldsOn
<1> QED
  BY <1>2, <1>4, <1>5 DEF Steps

-----------------------------------------------------------------------------
(* The folds of Recall: the tokens of a sequence, and the members of it    *)
(* that are kept.                                                          *)

TokensAt(f, p) ==
  /\ f \in [0 .. Len(p) -> Nat]
  /\ f[0] = 0 /\ Tokens(p) = f[Len(p)]
  /\ \A i \in 1 .. Len(p) : f[i] = f[i - 1] + p[i].tokens

LEMMA TokensFold ==
  ASSUME NEW S, \A m \in S : m.tokens \in Nat, NEW p \in Seq(S)
  PROVE  \E f : TokensAt(f, p)
<1> DEFINE st == [x \in Nat \X S |-> x[1] + x[2].tokens]
           Folds(g) == g = [s \in SUBSET (DOMAIN p) |->
                              IF s = {} THEN 0 ELSE g[s \ {Max(s)}] + p[Max(s)].tokens]
           fold == CHOOSE g : Folds(g)
<1>1. Tokens(p) = fold[DOMAIN p]
  BY Zenon DEF Tokens, FoldLeft, MapThenFoldSet
<1>2. DOMAIN p = 1 .. Len(p) /\ Len(p) \in Nat /\ \A i \in 1 .. Len(p) : p[i] \in S
  BY LenProperties
<1>3. 0 \in Nat /\ st \in [Nat \X S -> Nat] /\ \A a \in Nat, m \in S : st[<<a, m>>] = a + m.tokens
  OBVIOUS
<1>4. Folds(fold)
  <2> HIDE DEF st
  <2>1. PICK g : Steps(g, Nat, S, st, 0, p)
    BY <1>3, FoldSteps
  <2>2. \A s \in SUBSET (DOMAIN p) : g[s] = IF s = {} THEN 0 ELSE g[s \ {Max(s)}] + p[Max(s)].tokens
    BY <1>3, <2>1 DEF Steps
  <2>3. Folds(g)
    BY <2>1, <2>2 DEF Steps
  <2> HIDE DEF Folds
  <2> QED BY <2>3, Zenon
<1>5. FoldsIn(fold, Nat, st, 0, p, Len(p))
  <2> HIDE DEF fold, st
  <2>1. \A s \in SUBSET (1 .. Len(p)) : fold[s] = IF s = {} THEN 0 ELSE fold[s \ {Max(s)}] + p[Max(s)].tokens
    BY <1>2, <1>4
  <2>2. \A s \in SUBSET (1 .. Len(p)) : s # {} => Max(s) \in 1 .. Len(p)
    BY <1>2, GreatestIn
  <2> QED
    BY <1>2, <1>3, <2>1, <2>2 DEF FoldsIn
<1>6. PICK f : ValuesOf(f, Nat, st, 0, p)
  <2> HIDE DEF st
  <2> QED BY <1>3, Folding
<1>7. ASSUME NEW i \in 1 .. Len(p) PROVE f[i] = f[i - 1] + p[i].tokens
  <2>1. i - 1 \in 0 .. Len(p)
    BY <1>2
  <2> HIDE DEF st
  <2> QED
    BY <1>2, <1>3, <1>6, <2>1 DEF Folded, ValuesOf
<1> HIDE DEF st, fold, Folds
<1> QED
  BY <1>1, <1>2, <1>5, <1>6, <1>7 DEF Folded, ValuesOf, TokensAt

KeepIf(K, out, m) == IF m \in K THEN Append(out, m) ELSE out

KeptAt(f, S, p, K) ==
  /\ f \in [0 .. Len(p) -> Seq(S)]
  /\ f[0] = <<>> /\ Only(p, K) = f[Len(p)]
  /\ \A i \in 1 .. Len(p) : f[i] = KeepIf(K, f[i - 1], p[i])

LEMMA OnlyFold ==
  ASSUME NEW S, NEW p \in Seq(S), NEW K
  PROVE  \E f : KeptAt(f, S, p, K)
<1> DEFINE A == Seq(S)
           st == [x \in A \X S |-> KeepIf(K, x[1], x[2])]
           Folds(g) == g = [s \in SUBSET (DOMAIN p) |->
                              IF s = {} THEN <<>> ELSE KeepIf(K, g[s \ {Max(s)}], p[Max(s)])]
           fold == CHOOSE g : Folds(g)
<1>1. Only(p, K) = fold[DOMAIN p]
  BY Zenon DEF Only, KeepIf, FoldLeft, MapThenFoldSet
<1>2. DOMAIN p = 1 .. Len(p) /\ Len(p) \in Nat /\ \A i \in 1 .. Len(p) : p[i] \in S
  BY LenProperties
<1>3. <<>> \in A /\ \A a \in A, m \in S : KeepIf(K, a, m) \in A
  BY AppendProperties DEF KeepIf
<1> HIDE DEF A
<1>4. st \in [A \X S -> A] /\ \A a \in A, m \in S : st[<<a, m>>] = KeepIf(K, a, m)
  BY <1>3
<1>5. Folds(fold)
  <2> HIDE DEF st
  <2>1. PICK g : Steps(g, A, S, st, <<>>, p)
    BY <1>3, <1>4, FoldSteps
  <2>2. \A s \in SUBSET (DOMAIN p) : g[s] = IF s = {} THEN <<>> ELSE KeepIf(K, g[s \ {Max(s)}], p[Max(s)])
    BY <1>4, <2>1 DEF Steps
  <2>3. Folds(g)
    BY <2>1, <2>2 DEF Steps
  <2> HIDE DEF Folds
  <2> QED BY <2>3, Zenon
<1>6. FoldsIn(fold, A, st, <<>>, p, Len(p))
  <2> HIDE DEF fold, st
  <2>1. \A s \in SUBSET (1 .. Len(p)) : fold[s] = IF s = {} THEN <<>> ELSE KeepIf(K, fold[s \ {Max(s)}], p[Max(s)])
    BY <1>2, <1>5
  <2>2. \A s \in SUBSET (1 .. Len(p)) : s # {} => Max(s) \in 1 .. Len(p)
    BY <1>2, GreatestIn
  <2> QED
    BY <1>2, <1>4, <2>1, <2>2 DEF FoldsIn
<1>7. PICK f : ValuesOf(f, A, st, <<>>, p)
  <2> HIDE DEF st
  <2> QED BY <1>3, <1>4, Folding
<1>8. ASSUME NEW i \in 1 .. Len(p) PROVE f[i] = KeepIf(K, f[i - 1], p[i])
  <2>1. i - 1 \in 0 .. Len(p)
    BY <1>2
  <2> HIDE DEF st
  <2> QED
    BY <1>2, <1>4, <1>7, <2>1 DEF Folded, ValuesOf
<1> HIDE DEF st, fold, Folds
<1>9. /\ f \in [0 .. Len(p) -> A] /\ f[0] = <<>> /\ Only(p, K) = f[Len(p)]
  BY <1>1, <1>2, <1>6, <1>7 DEF Folded, ValuesOf
<1> QED
  BY <1>8, <1>9 DEF A, KeptAt

TakeWanted(out, m) == IF Wants(out, m) THEN Append(out, m) ELSE out

Found(store, embedder) == Best(store.words) \o IF embedder THEN Best(store.alike) ELSE <<>>

WantedAt(f, S, store, embedder, p) ==
  /\ f \in [0 .. Len(p) -> Seq(S)]
  /\ f[0] = <<>> /\ Experiential(store, embedder) = f[Len(p)]
  /\ \A i \in 1 .. Len(p) : f[i] = TakeWanted(f[i - 1], p[i])

LEMMA ExperientialFold ==
  ASSUME NEW S, NEW store, NEW embedder, NEW p \in Seq(S), p = Found(store, embedder)
  PROVE  \E f : WantedAt(f, S, store, embedder, p)
<1> DEFINE A == Seq(S)
           st == [x \in A \X S |-> TakeWanted(x[1], x[2])]
           Folds(g) == g = [s \in SUBSET (DOMAIN p) |->
                              IF s = {} THEN <<>> ELSE TakeWanted(g[s \ {Max(s)}], p[Max(s)])]
           fold == CHOOSE g : Folds(g)
<1>1. Experiential(store, embedder) = fold[DOMAIN p]
  BY Zenon DEF Experiential, Found, TakeWanted, FoldLeft, MapThenFoldSet
<1>2. DOMAIN p = 1 .. Len(p) /\ Len(p) \in Nat /\ \A i \in 1 .. Len(p) : p[i] \in S
  BY LenProperties
<1>3. <<>> \in A /\ \A a \in A, m \in S : TakeWanted(a, m) \in A
  BY AppendProperties DEF TakeWanted
<1> HIDE DEF A
<1>4. st \in [A \X S -> A] /\ \A a \in A, m \in S : st[<<a, m>>] = TakeWanted(a, m)
  BY <1>3
<1>5. Folds(fold)
  <2> HIDE DEF st
  <2>1. PICK g : Steps(g, A, S, st, <<>>, p)
    BY <1>3, <1>4, FoldSteps
  <2>2. \A s \in SUBSET (DOMAIN p) : g[s] = IF s = {} THEN <<>> ELSE TakeWanted(g[s \ {Max(s)}], p[Max(s)])
    BY <1>4, <2>1 DEF Steps
  <2>3. Folds(g)
    BY <2>1, <2>2 DEF Steps
  <2> HIDE DEF Folds
  <2> QED BY <2>3, Zenon
<1>6. FoldsIn(fold, A, st, <<>>, p, Len(p))
  <2> HIDE DEF fold, st
  <2>1. \A s \in SUBSET (1 .. Len(p)) : fold[s] = IF s = {} THEN <<>> ELSE TakeWanted(fold[s \ {Max(s)}], p[Max(s)])
    BY <1>2, <1>5
  <2>2. \A s \in SUBSET (1 .. Len(p)) : s # {} => Max(s) \in 1 .. Len(p)
    BY <1>2, GreatestIn
  <2> QED
    BY <1>2, <1>4, <2>1, <2>2 DEF FoldsIn
<1>7. PICK f : ValuesOf(f, A, st, <<>>, p)
  <2> HIDE DEF st
  <2> QED BY <1>3, <1>4, Folding
<1>8. ASSUME NEW i \in 1 .. Len(p) PROVE f[i] = TakeWanted(f[i - 1], p[i])
  <2>1. i - 1 \in 0 .. Len(p)
    BY <1>2
  <2> HIDE DEF st
  <2> QED
    BY <1>2, <1>4, <1>7, <2>1 DEF Folded, ValuesOf
<1> HIDE DEF st, fold, Folds
<1>9. /\ f \in [0 .. Len(p) -> A] /\ f[0] = <<>> /\ Experiential(store, embedder) = f[Len(p)]
  BY <1>1, <1>2, <1>6, <1>7 DEF Folded, ValuesOf
<1> QED
  BY <1>8, <1>9 DEF A, WantedAt

TakeIfRoom(budget, r, m) ==
  IF r.full \/ (budget > 0 /\ Tokens(r.results) + m.tokens > budget)
  THEN [r EXCEPT !.full = TRUE]
  ELSE [r EXCEPT !.results = Append(@, m)]

LEMMA RoomTaken ==
  ASSUME NEW S, NEW r \in [results : Seq(S), full : BOOLEAN], NEW m \in S, NEW budget
  PROVE  TakeIfRoom(budget, r, m) \in [results : Seq(S), full : BOOLEAN]
<1>1. r.results \in Seq(S) /\ Append(r.results, m) \in Seq(S) /\ r.full \in BOOLEAN
  BY AppendProperties
<1>2. [r EXCEPT !.full = TRUE] \in [results : Seq(S), full : BOOLEAN]
  BY <1>1
<1>3. [r EXCEPT !.results = Append(@, m)] \in [results : Seq(S), full : BOOLEAN]
  BY <1>1
<1> QED
  BY <1>2, <1>3 DEF TakeIfRoom

TakenAt(f, S, p, budget) ==
  /\ f \in [0 .. Len(p) -> [results : Seq(S), full : BOOLEAN]]
  /\ f[0] = [results |-> <<>>, full |-> FALSE] /\ Recalled(p, budget) = f[Len(p)].results
  /\ \A i \in 1 .. Len(p) : f[i] = TakeIfRoom(budget, f[i - 1], p[i])

LEMMA RecalledFold ==
  ASSUME NEW S, NEW p \in Seq(S), NEW budget
  PROVE  \E f : TakenAt(f, S, p, budget)
<1> DEFINE A == [results : Seq(S), full : BOOLEAN]
           st == [x \in A \X S |-> TakeIfRoom(budget, x[1], x[2])]
           Folds(g) == g = [s \in SUBSET (DOMAIN p) |->
                              IF s = {} THEN [results |-> <<>>, full |-> FALSE] ELSE TakeIfRoom(budget, g[s \ {Max(s)}], p[Max(s)])]
           fold == CHOOSE g : Folds(g)
<1>1. Recalled(p, budget) = fold[DOMAIN p].results
  BY Zenon DEF Recalled, TakeIfRoom, FoldLeft, MapThenFoldSet
<1>2. DOMAIN p = 1 .. Len(p) /\ Len(p) \in Nat /\ \A i \in 1 .. Len(p) : p[i] \in S
  BY LenProperties
<1>3. [results |-> <<>>, full |-> FALSE] \in A /\ \A a \in A, m \in S : TakeIfRoom(budget, a, m) \in A
  <2>1. [results |-> <<>>, full |-> FALSE] \in A
    OBVIOUS
  <2> QED
    BY <2>1, RoomTaken
<1> HIDE DEF A
<1>4. st \in [A \X S -> A] /\ \A a \in A, m \in S : st[<<a, m>>] = TakeIfRoom(budget, a, m)
  BY <1>3
<1>5. Folds(fold)
  <2> HIDE DEF st
  <2>1. PICK g : Steps(g, A, S, st, [results |-> <<>>, full |-> FALSE], p)
    BY <1>3, <1>4, FoldSteps
  <2>2. \A s \in SUBSET (DOMAIN p) : g[s] = IF s = {} THEN [results |-> <<>>, full |-> FALSE] ELSE TakeIfRoom(budget, g[s \ {Max(s)}], p[Max(s)])
    BY <1>4, <2>1 DEF Steps
  <2>3. Folds(g)
    BY <2>1, <2>2 DEF Steps
  <2> HIDE DEF Folds
  <2> QED BY <2>3, Zenon
<1>6. FoldsIn(fold, A, st, [results |-> <<>>, full |-> FALSE], p, Len(p))
  <2> HIDE DEF fold, st
  <2>1. \A s \in SUBSET (1 .. Len(p)) : fold[s] = IF s = {} THEN [results |-> <<>>, full |-> FALSE] ELSE TakeIfRoom(budget, fold[s \ {Max(s)}], p[Max(s)])
    BY <1>2, <1>5
  <2>2. \A s \in SUBSET (1 .. Len(p)) : s # {} => Max(s) \in 1 .. Len(p)
    BY <1>2, GreatestIn
  <2> QED
    BY <1>2, <1>4, <2>1, <2>2 DEF FoldsIn
<1>7. PICK f : ValuesOf(f, A, st, [results |-> <<>>, full |-> FALSE], p)
  <2> HIDE DEF st
  <2> QED BY <1>3, <1>4, Folding
<1>8. ASSUME NEW i \in 1 .. Len(p) PROVE f[i] = TakeIfRoom(budget, f[i - 1], p[i])
  <2>1. i - 1 \in 0 .. Len(p)
    BY <1>2
  <2> HIDE DEF st
  <2> QED
    BY <1>2, <1>4, <1>7, <2>1 DEF Folded, ValuesOf
<1> HIDE DEF st, fold, Folds
<1>9. /\ f \in [0 .. Len(p) -> A] /\ f[0] = [results |-> <<>>, full |-> FALSE] /\ Recalled(p, budget) = f[Len(p)].results
  BY <1>1, <1>2, <1>6, <1>7 DEF Folded, ValuesOf
<1> QED
  BY <1>8, <1>9 DEF A, TakenAt

-----------------------------------------------------------------------------
(* What the folds of Recall compute.                                       *)

LEMMA TokensOfNone == Tokens(<<>>) = 0
<1>1. \E f : TokensAt(f, <<>>)
  <2>1. <<>> \in Seq({}) /\ \A m \in {} : m.tokens \in Nat
    OBVIOUS
  <2> QED
    BY <2>1, TokensFold
<1> QED
  BY <1>1 DEF TokensAt

LEMMA TokensOfMore ==
  ASSUME NEW S, \A m \in S : m.tokens \in Nat, NEW p \in Seq(S), NEW m \in S
  PROVE  Tokens(p) \in Nat /\ Tokens(Append(p, m)) = Tokens(p) + m.tokens
<1> DEFINE q == Append(p, m)
<1>1. /\ q \in Seq(S) /\ Len(q) = Len(p) + 1 /\ Len(p) \in Nat /\ q[Len(p) + 1] = m
      /\ \A i \in 1 .. Len(p) : q[i] = p[i]
  BY AppendProperties, LenProperties
<1> HIDE DEF q
<1>2. PICK f : TokensAt(f, p)
  BY TokensFold
<1>3. PICK h : TokensAt(h, q)
  BY <1>1, TokensFold
<1> USE DEF TokensAt
<1> DEFINE T == {i \in 0 .. Len(p) : h[i] = f[i]}
<1>4. 0 \in T
  BY <1>1, <1>2, <1>3
<1>5. ASSUME NEW i \in 1 .. Len(p), i - 1 \in T PROVE i \in T
  <2>1. i \in 1 .. Len(q) /\ i \in 0 .. Len(p)
    BY <1>1
  <2> QED
    BY <1>1, <1>2, <1>3, <1>5, <2>1
<1>6. Len(p) \in 0 .. Len(p) /\ Len(q) \in 1 .. Len(q) /\ Len(q) - 1 = Len(p)
  BY <1>1
<1> HIDE DEF T
<1>7. Len(p) \in T
  BY <1>1, <1>4, <1>5, <1>6, UpTo
<1>8. h[Len(p)] = f[Len(p)]
  BY <1>7 DEF T
<1>9. Tokens(q) = h[Len(p)] + m.tokens
  BY <1>1, <1>3, <1>6
<1> QED
  BY <1>2, <1>6, <1>8, <1>9 DEF q

\* Two sets that keep the same of a sequence.
LEMMA OnlySame ==
  ASSUME NEW S, NEW p \in Seq(S), NEW K, NEW L, \A i \in DOMAIN p : p[i] \in K <=> p[i] \in L
  PROVE  Only(p, K) = Only(p, L)
<1>1. Len(p) \in Nat /\ DOMAIN p = 1 .. Len(p)
  BY LenProperties
<1>2. PICK f : KeptAt(f, S, p, K)
  BY OnlyFold
<1>3. PICK h : KeptAt(h, S, p, L)
  BY OnlyFold
<1> USE DEF KeptAt
<1> DEFINE T == {i \in 0 .. Len(p) : h[i] = f[i]}
<1>4. 0 \in T
  BY <1>1, <1>2, <1>3
<1>5. ASSUME NEW i \in 1 .. Len(p), i - 1 \in T PROVE i \in T
  <2>1. i \in 0 .. Len(p) /\ (p[i] \in K <=> p[i] \in L)
    BY <1>1
  <2> QED
    BY <1>2, <1>3, <1>5, <2>1 DEF KeepIf
<1>6. Len(p) \in 0 .. Len(p)
  BY <1>1
<1> HIDE DEF T
<1>7. Len(p) \in T
  BY <1>1, <1>4, <1>5, <1>6, UpTo
<1> QED
  BY <1>2, <1>3, <1>7 DEF T

\* What is kept: members of the sequence that are in K, each from a later position than
\* the one before it.
KeptFrom(q, p, K) ==
  \E at \in [DOMAIN q -> DOMAIN p] :
    /\ \A k \in DOMAIN q : q[k] = p[at[k]] /\ p[at[k]] \in K
    /\ \A j, k \in DOMAIN q : j < k => at[j] < at[k]

LEMMA OnlyIsKept ==
  ASSUME NEW S, NEW p \in Seq(S), NEW K
  PROVE  Only(p, K) \in Seq(S) /\ KeptFrom(Only(p, K), p, K)
<1>1. Len(p) \in Nat /\ DOMAIN p = 1 .. Len(p)
  BY LenProperties
<1>2. PICK f : KeptAt(f, S, p, K)
  BY OnlyFold
<1> USE DEF KeptAt
<1> DEFINE Good(i) == \E at \in [DOMAIN f[i] -> 1 .. i] :
                        /\ \A k \in DOMAIN f[i] : f[i][k] = p[at[k]] /\ p[at[k]] \in K
                        /\ \A j, k \in DOMAIN f[i] : j < k => at[j] < at[k]
           T == {i \in 0 .. Len(p) : Good(i)}
<1>4. 0 \in T
  <2>1. DOMAIN f[0] = {}
    BY <1>2
  <2>2. Good(0)
    <3> SUFFICES \E at \in [DOMAIN f[0] -> 1 .. 0] : TRUE
      BY <2>1
    <3>1. [k \in {} |-> 0] \in [DOMAIN f[0] -> 1 .. 0]
      BY <2>1
    <3> QED
      BY <3>1
  <2> HIDE DEF Good
  <2> QED
    BY <1>1, <2>2
<1>5. ASSUME NEW i \in 1 .. Len(p), i - 1 \in T PROVE i \in T
  <2>1. i \in 0 .. Len(p) /\ i - 1 \in 0 .. Len(p) /\ f[i - 1] \in Seq(S) /\ i \in DOMAIN p /\ p[i] \in S
    <3>1. i - 1 \in 0 .. Len(p)
      BY <1>1
    <3> QED
      BY <1>1, <1>2, <3>1
  <2>2. PICK at \in [DOMAIN f[i - 1] -> 1 .. i - 1] :
          /\ \A k \in DOMAIN f[i - 1] : f[i - 1][k] = p[at[k]] /\ p[at[k]] \in K
          /\ \A j, k \in DOMAIN f[i - 1] : j < k => at[j] < at[k]
    BY <1>5
  <2>3. CASE p[i] \notin K
    <3>1. f[i] = f[i - 1]
      BY <1>2, <2>3 DEF KeepIf
    <3>2. at \in [DOMAIN f[i] -> 1 .. i]
      BY <2>2, <3>1
    <3> QED
      BY <2>1, <2>2, <3>1, <3>2
  <2>4. CASE p[i] \in K
    <3> DEFINE q == f[i - 1]
               n == Len(q)
               up == [k \in 1 .. n + 1 |-> IF k = n + 1 THEN i ELSE at[k]]
    <3>1. f[i] = Append(q, p[i])
      BY <1>2, <2>4 DEF KeepIf
    <3>2. n \in Nat /\ DOMAIN q = 1 .. n
      BY <2>1, LenProperties
    <3>3. DOMAIN f[i] = 1 .. n + 1 /\ f[i][n + 1] = p[i] /\ \A k \in 1 .. n : f[i][k] = q[k]
      BY <2>1, <3>1, <3>2, AppendProperties
    <3>4. \A k \in 1 .. n + 1 : k \in 1 .. n \/ k = n + 1
      BY <3>2
    <3>5. \A k \in 1 .. n : at[k] \in 1 .. i - 1 /\ up[k] = at[k] /\ q[k] = p[at[k]] /\ p[at[k]] \in K
      <4>1. \A k \in 1 .. n : k \in 1 .. n + 1 /\ k # n + 1
        BY <3>2
      <4>2. \A k \in 1 .. n : up[k] = at[k]
        BY <4>1
      <4>3. \A k \in 1 .. n : k \in DOMAIN f[i - 1]
        BY <3>2
      <4> HIDE DEF n, up
      <4> QED
        BY <2>2, <4>2, <4>3
    <3>6. up[n + 1] = i /\ \A j, k \in 1 .. n : j < k => at[j] < at[k]
      <4>1. n + 1 \in 1 .. n + 1
        BY <3>2
      <4>2. up[n + 1] = i
        BY <4>1
      <4> HIDE DEF n, up
      <4> QED
        BY <2>2, <3>2, <4>2
    <3> HIDE DEF q, n, up
    <3>7. up \in [DOMAIN f[i] -> 1 .. i]
      <4>1. \A k \in 1 .. n + 1 : up[k] \in 1 .. i
        BY <2>1, <3>4, <3>5, <3>6
      <4>2. up = [k \in 1 .. n + 1 |-> up[k]]
        BY DEF up
      <4> QED
        BY <3>3, <4>1, <4>2
    <3>8. \A k \in DOMAIN f[i] : f[i][k] = p[up[k]] /\ p[up[k]] \in K
      BY <2>4, <3>3, <3>4, <3>5, <3>6
    <3>9. \A j, k \in DOMAIN f[i] : j < k => up[j] < up[k]
      BY <3>2, <3>3, <3>4, <3>5, <3>6
    <3> QED
      BY <2>1, <3>7, <3>8, <3>9
  <2> QED
    BY <2>3, <2>4
<1>6. Len(p) \in 0 .. Len(p)
  BY <1>1
<1> HIDE DEF T
<1>7. Len(p) \in T
  BY <1>1, <1>4, <1>5, <1>6, UpTo
<1> QED
  BY <1>1, <1>2, <1>6, <1>7 DEF T, KeptFrom

\* The beginning of a sequence, and one more of it.
LEMMA Beginning ==
  ASSUME NEW S, NEW p \in Seq(S), NEW k \in 0 .. Len(p)
  PROVE  /\ SubSeq(p, 1, k) \in Seq(S) /\ Len(SubSeq(p, 1, k)) = k
         /\ DOMAIN SubSeq(p, 1, k) = 1 .. k /\ \A i \in 1 .. k : SubSeq(p, 1, k)[i] = p[i]
         /\ k < Len(p) => Append(SubSeq(p, 1, k), p[k + 1]) = SubSeq(p, 1, k + 1)
<1>1. Len(p) \in Nat /\ k \in Nat /\ k <= Len(p) /\ DOMAIN p = 1 .. Len(p) /\ \A i \in 1 .. Len(p) : p[i] \in S
  BY LenProperties
<1>2. ASSUME NEW n \in 0 .. Len(p)
      PROVE  /\ SubSeq(p, 1, n) \in Seq(S) /\ Len(SubSeq(p, 1, n)) = n
             /\ DOMAIN SubSeq(p, 1, n) = 1 .. n /\ \A i \in 1 .. n : SubSeq(p, 1, n)[i] = p[i]
  <2>1. n \in Int /\ 1 \in Int /\ \A i \in 1 .. n : p[i] \in S /\ i \in 1 .. n - 1 + 1 /\ 1 + i - 1 = i
    BY <1>1
  <2>2. /\ SubSeq(p, 1, n) \in Seq(S) /\ Len(SubSeq(p, 1, n)) = (IF 1 <= n THEN n - 1 + 1 ELSE 0)
        /\ \A i \in 1 .. n - 1 + 1 : SubSeq(p, 1, n)[i] = p[1 + i - 1]
    BY <2>1, SubSeqProperties
  <2>3. Len(SubSeq(p, 1, n)) = n
    BY <1>1, <2>2
  <2>4. \A i \in 1 .. n : SubSeq(p, 1, n)[i] = p[i]
    BY <2>1, <2>2
  <2> QED
    BY <2>2, <2>3, <2>4, LenProperties
<1>3. ASSUME k < Len(p) PROVE Append(SubSeq(p, 1, k), p[k + 1]) = SubSeq(p, 1, k + 1)
  <2> DEFINE s == SubSeq(p, 1, k)
             t == SubSeq(p, 1, k + 1)
             r == Append(s, p[k + 1])
  <2>1. k + 1 \in 0 .. Len(p) /\ p[k + 1] \in S
    BY <1>1, <1>3
  <2>2. s \in Seq(S) /\ Len(s) = k /\ \A i \in 1 .. k : s[i] = p[i]
    BY <1>2
  <2>3. t \in Seq(S) /\ Len(t) = k + 1 /\ \A i \in 1 .. k + 1 : t[i] = p[i]
    BY <1>2, <2>1
  <2> HIDE DEF s, t
  <2>4. r \in Seq(S) /\ Len(r) = k + 1 /\ r[k + 1] = p[k + 1] /\ \A i \in 1 .. k : r[i] = s[i]
    BY <2>1, <2>2, AppendProperties
  <2> HIDE DEF r
  <2>5. \A i \in 1 .. k + 1 : r[i] = t[i]
    <3>1. \A i \in 1 .. k + 1 : i \in 1 .. k \/ i = k + 1
      BY <1>1
    <3> QED
      BY <2>2, <2>3, <2>4, <3>1
  <2>6. r = t
    BY <2>3, <2>4, <2>5, SeqEqual
  <2> QED
    BY <2>6 DEF r, s, t
<1> QED
  BY <1>2, <1>3

\* The first k of the candidates, as far as the budget reaches.
Reaches(c, k, budget) ==
  /\ k \in 0 .. Len(c)
  /\ budget > 0 => Tokens(SubSeq(c, 1, k)) <= budget
  /\ k < Len(c) => budget > 0 /\ Tokens(SubSeq(c, 1, k)) + c[k + 1].tokens > budget

LEMMA RecalledReaches ==
  ASSUME NEW S, \A m \in S : m.tokens \in Nat, NEW p \in Seq(S), NEW budget \in Nat
  PROVE  \E k : Reaches(p, k, budget) /\ Recalled(p, budget) = SubSeq(p, 1, k)
<1>1. Len(p) \in Nat /\ DOMAIN p = 1 .. Len(p) /\ \A i \in 1 .. Len(p) : p[i] \in S
  BY LenProperties
<1>2. PICK f : TakenAt(f, S, p, budget)
  BY RecalledFold
<1> USE DEF TakenAt
<1> DEFINE Open(i) == /\ ~f[i].full /\ f[i].results = SubSeq(p, 1, i)
                      /\ budget > 0 => Tokens(SubSeq(p, 1, i)) <= budget
           Closed(i) == /\ f[i].full
                        /\ \E k \in 0 .. i - 1 :
                             /\ f[i].results = SubSeq(p, 1, k)
                             /\ Tokens(SubSeq(p, 1, k)) <= budget
                             /\ budget > 0 /\ Tokens(SubSeq(p, 1, k)) + p[k + 1].tokens > budget
           T == {i \in 0 .. Len(p) : Open(i) \/ Closed(i)}
<1>3. 0 \in T
  <2>1. SubSeq(p, 1, 0) = <<>> /\ f[0].results = <<>> /\ ~f[0].full
    BY <1>2
  <2>2. Open(0)
    <3>1. Tokens(SubSeq(p, 1, 0)) = 0
      BY <2>1, TokensOfNone, Zenon
    <3>2. budget > 0 => Tokens(SubSeq(p, 1, 0)) <= budget
      BY <3>1
    <3> QED
      BY <2>1, <3>2
  <2>3. 0 \in 0 .. Len(p)
    BY <1>1
  <2> HIDE DEF Open, Closed
  <2> QED
    BY <2>2, <2>3
<1>4. ASSUME NEW i \in 1 .. Len(p), i - 1 \in T PROVE i \in T
  <2>1. i \in 0 .. Len(p) /\ i - 1 \in 0 .. Len(p) /\ i - 1 < Len(p) /\ i - 1 + 1 = i /\ i \in Nat
    BY <1>1
  <2>2. f[i] = TakeIfRoom(budget, f[i - 1], p[i]) /\ f[i - 1] \in [results : Seq(S), full : BOOLEAN] /\ p[i] \in S
    BY <1>1, <1>2, <2>1
  <2>3. CASE Closed(i - 1)
    <3>1. f[i].full /\ f[i].results = f[i - 1].results
      BY <2>2, <2>3 DEF TakeIfRoom
    <3>2. \A k \in 0 .. i - 1 - 1 : k \in 0 .. i - 1
      BY <2>1
    <3>3. Closed(i)
      BY <2>3, <3>1, <3>2
    <3> QED
      BY <2>1, <3>3
  <2>4. CASE Open(i - 1)
    <3> DEFINE s == SubSeq(p, 1, i - 1)
    <3>1. s \in Seq(S) /\ Append(s, p[i]) = SubSeq(p, 1, i)
      BY <2>1, Beginning
    <3>2. Tokens(s) \in Nat /\ Tokens(SubSeq(p, 1, i)) = Tokens(s) + p[i].tokens /\ p[i].tokens \in Nat
      BY <2>2, <3>1, TokensOfMore
    <3>3. f[i - 1].results = s /\ ~f[i - 1].full /\ (budget > 0 => Tokens(s) <= budget)
      BY <2>4
    <3> HIDE DEF s
    <3>4. CASE budget > 0 /\ Tokens(s) + p[i].tokens > budget
      <4>1. f[i] = [f[i - 1] EXCEPT !.full = TRUE]
        BY <2>2, <3>3, <3>4 DEF TakeIfRoom
      <4>2. f[i].full /\ f[i].results = s
        BY <2>2, <3>3, <4>1
      <4>3. i - 1 \in 0 .. i - 1
        BY <2>1
      <4>4. Closed(i)
        BY <2>1, <3>3, <3>4, <4>2, <4>3 DEF s
      <4> QED
        BY <2>1, <4>4
    <3>5. CASE ~(budget > 0 /\ Tokens(s) + p[i].tokens > budget)
      <4>1. f[i] = [f[i - 1] EXCEPT !.results = Append(@, p[i])]
        BY <2>2, <3>3, <3>5 DEF TakeIfRoom
      <4>2. ~f[i].full /\ f[i].results = SubSeq(p, 1, i)
        BY <2>2, <3>1, <3>3, <4>1
      <4>3. budget > 0 => Tokens(SubSeq(p, 1, i)) <= budget
        BY <3>2, <3>5
      <4> QED
        BY <2>1, <4>2, <4>3
    <3> QED
      BY <3>4, <3>5
  <2> QED
    BY <1>4, <2>3, <2>4
<1>5. Len(p) \in 0 .. Len(p)
  BY <1>1
<1> HIDE DEF T
<1>6. Len(p) \in T
  BY <1>1, <1>3, <1>4, <1>5, UpTo
<1>7. Open(Len(p)) \/ Closed(Len(p))
  BY <1>6 DEF T
<1>8. Recalled(p, budget) = f[Len(p)].results
  BY <1>2
<1>9. CASE Open(Len(p))
  <2>1. /\ Recalled(p, budget) = SubSeq(p, 1, Len(p))
        /\ budget > 0 => Tokens(SubSeq(p, 1, Len(p))) <= budget
    BY <1>8, <1>9
  <2>2. ~ (Len(p) < Len(p))
    BY <1>1
  <2>3. Reaches(p, Len(p), budget)
    BY <1>5, <2>1, <2>2 DEF Reaches
  <2> QED
    BY <2>1, <2>3
<1>10. CASE Closed(Len(p))
  <2>1. PICK k \in 0 .. Len(p) - 1 :
          /\ f[Len(p)].results = SubSeq(p, 1, k)
          /\ Tokens(SubSeq(p, 1, k)) <= budget
          /\ budget > 0 /\ Tokens(SubSeq(p, 1, k)) + p[k + 1].tokens > budget
    BY <1>10
  <2>2. k \in 0 .. Len(p)
    BY <1>1
  <2> QED
    BY <1>8, <2>1, <2>2 DEF Reaches
<1> QED
  BY <1>7, <1>9, <1>10

-----------------------------------------------------------------------------
(* What there is to recall: three parts, no member twice and none in two.  *)

LEMMA InRange ==
  ASSUME NEW S, NEW p \in Seq(S)
  PROVE  /\ Range(p) \subseteq S /\ p \in Seq(Range(p)) /\ DOMAIN p = 1 .. Len(p) /\ Len(p) \in Nat
         /\ \A i \in 1 .. Len(p) : p[i] \in Range(p)
         /\ \A m \in Range(p) : \E i \in 1 .. Len(p) : p[i] = m
<1>1. DOMAIN p = 1 .. Len(p) /\ Len(p) \in Nat /\ \A i \in 1 .. Len(p) : p[i] \in S
  BY LenProperties
<1>2. \A i \in 1 .. Len(p) : p[i] \in Range(p)
  BY <1>1 DEF Range
<1>3. \A m \in Range(p) : \E i \in 1 .. Len(p) : p[i] = m
  BY <1>1 DEF Range
<1>4. Range(p) \subseteq S
  BY <1>1, <1>3
<1>5. p \in Seq(Range(p))
  BY <1>1, <1>2, SeqDef
<1> QED
  BY <1>1, <1>2, <1>3, <1>4, <1>5

LEMMA BestIs ==
  ASSUME NEW S, NEW found \in Seq(S)
  PROVE  Best(found) \in Seq(S)
<1> DEFINE k == IF Len(found) < 2 * TopK THEN Len(found) ELSE 2 * TopK
<1>1. Len(found) \in Nat /\ TopK \in Nat
  BY RecallAssumption, LenProperties
<1>2. k \in 0 .. Len(found)
  BY <1>1
<1> HIDE DEF k
<1>3. SubSeq(found, 1, k) \in Seq(S)
  BY <1>2, Beginning
<1> QED
  BY <1>3 DEF Best, k

LEMMA OneMore ==
  ASSUME NEW S, NEW p \in Seq(S), NEW m \in S
  PROVE  /\ Append(p, m) \in Seq(S) /\ Len(Append(p, m)) = Len(p) + 1
         /\ DOMAIN Append(p, m) = 1 .. Len(p) + 1 /\ Append(p, m)[Len(p) + 1] = m
         /\ \A i \in 1 .. Len(p) : Append(p, m)[i] = p[i]
         /\ Range(Append(p, m)) = Range(p) \cup {m}
         /\ IsInjective(p) /\ m \notin Range(p) => IsInjective(Append(p, m))
<1> DEFINE q == Append(p, m)
           n == Len(p)
<1>1. n \in Nat /\ DOMAIN p = 1 .. n /\ \A i \in 1 .. n : p[i] \in S
  BY LenProperties
<1>2. q \in Seq(S) /\ Len(q) = n + 1 /\ q[n + 1] = m /\ \A i \in 1 .. n : q[i] = p[i]
  BY AppendProperties
<1> HIDE DEF q
<1>3. DOMAIN q = 1 .. n + 1
  BY <1>2, LenProperties
<1> HIDE DEF n
<1>4. \A i \in 1 .. n + 1 : i \in 1 .. n \/ i = n + 1
  BY <1>1
<1>5. n + 1 \in 1 .. n + 1 /\ \A i \in 1 .. n : i \in 1 .. n + 1
  BY <1>1
<1>6. Range(q) = Range(p) \cup {m}
  <2>1. ASSUME NEW x \in Range(q) PROVE x \in Range(p) \cup {m}
    BY <1>1, <1>2, <1>3, <1>4 DEF Range
  <2>2. ASSUME NEW x \in Range(p) \cup {m} PROVE x \in Range(q)
    BY <1>1, <1>2, <1>3, <1>5 DEF Range
  <2> QED
    BY <2>1, <2>2
<1>7. ASSUME IsInjective(p), m \notin Range(p) PROVE IsInjective(q)
  <2> SUFFICES ASSUME NEW i \in 1 .. n + 1, NEW j \in 1 .. n + 1, q[i] = q[j] PROVE i = j
    BY <1>3 DEF IsInjective
  <2>1. \A k \in 1 .. n : p[k] # m
    BY <1>1, <1>7 DEF Range
  <2>2. \A k, l \in 1 .. n : p[k] = p[l] => k = l
    BY <1>1, <1>7 DEF IsInjective
  <2> QED
    BY <1>2, <1>4, <2>1, <2>2
<1> QED
  BY <1>2, <1>3, <1>6, <1>7 DEF q, n

\* What is found by words and by likeness: each once, no fact, and no more than wanted.
LEMMA ExperientialIs ==
  ASSUME NEW store, IsStore(store), NEW embedder \in BOOLEAN
  PROVE  LET e == Experiential(store, embedder)
         IN  /\ e \in Seq(Range(store.words) \cup Range(store.alike))
             /\ IsInjective(e) /\ Len(e) <= TopK
             /\ \A m \in Range(e) : m.type # "fact"
<1> DEFINE S == Range(store.words) \cup Range(store.alike)
           p == Found(store, embedder)
<1>1. store.words \in Seq(S) /\ store.alike \in Seq(S)
  <2>1. store.words \in Seq(Range(store.words)) /\ store.alike \in Seq(Range(store.alike))
    BY InRange DEF IsStore
  <2> HIDE DEF p
  <2> QED
    BY <2>1
<1> HIDE DEF S
<1>2. p \in Seq(S)
  <2>1. Best(store.words) \in Seq(S) /\ Best(store.alike) \in Seq(S) /\ <<>> \in Seq(S)
    BY <1>1, BestIs
  <2>2. (IF embedder THEN Best(store.alike) ELSE <<>>) \in Seq(S)
    BY <2>1
  <2> QED
    BY <2>1, <2>2, ConcatProperties DEF Found
<1>3. PICK f : WantedAt(f, S, store, embedder, p)
  BY <1>2, ExperientialFold
<1> HIDE DEF p
<1> USE DEF WantedAt
<1>4. Len(p) \in Nat /\ DOMAIN p = 1 .. Len(p) /\ \A i \in 1 .. Len(p) : p[i] \in S
  BY <1>2, LenProperties
<1> DEFINE Good(e) == IsInjective(e) /\ Len(e) <= TopK /\ \A m \in Range(e) : m.type # "fact"
           T == {i \in 0 .. Len(p) : Good(f[i])}
<1>5. 0 \in T
  <2>1. f[0] = <<>> /\ 0 \in 0 .. Len(p) /\ Len(<<>>) <= TopK
    BY <1>3, <1>4, RecallAssumption
  <2>2. Good(<<>>)
    BY <2>1 DEF IsInjective, Range
  <2> HIDE DEF Good
  <2> QED
    BY <2>1, <2>2
<1>6. ASSUME NEW i \in 1 .. Len(p), i - 1 \in T PROVE i \in T
  <2> DEFINE e == f[i - 1]
  <2>1. i \in 0 .. Len(p) /\ i - 1 \in 0 .. Len(p) /\ p[i] \in S /\ f[i] = TakeWanted(e, p[i]) /\ Good(e)
    BY <1>3, <1>4, <1>6
  <2>2. e \in Seq(S) /\ Len(e) \in Nat /\ TopK \in Nat
    BY <1>3, <2>1, LenProperties, RecallAssumption
  <2> HIDE DEF e
  <2>3. CASE ~Wants(e, p[i])
    <3>1. f[i] = e
      BY <2>1, <2>3 DEF TakeWanted
    <3> HIDE DEF Good
    <3> QED
      BY <2>1, <3>1
  <2>4. CASE Wants(e, p[i])
    <3>1. f[i] = Append(e, p[i]) /\ p[i].type # "fact" /\ p[i] \notin Range(e) /\ Len(e) < TopK
      BY <2>1, <2>4 DEF TakeWanted, Wants
    <3>2. /\ Len(f[i]) = Len(e) + 1 /\ Range(f[i]) = Range(e) \cup {p[i]} /\ IsInjective(f[i])
      BY <2>1, <2>2, <3>1, OneMore
    <3>3. Good(f[i])
      BY <2>1, <2>2, <3>1, <3>2
    <3> HIDE DEF Good
    <3> QED
      BY <2>1, <3>3
  <2> QED
    BY <2>3, <2>4
<1>7. Len(p) \in 0 .. Len(p)
  BY <1>4
<1> HIDE DEF T
<1>8. Len(p) \in T
  BY <1>4, <1>5, <1>6, <1>7, UpTo
<1> QED
  BY <1>3, <1>7, <1>8 DEF T, S

\* Rows of which none is given twice.
Distinct(rows) ==
  /\ rows \in Seq(KBRow)
  /\ \A i, j \in DOMAIN rows : rows[i].id = rows[j].id => i = j

LEMMA OnlyDistinct ==
  ASSUME NEW rows, Distinct(rows), NEW K
  PROVE  Distinct(Only(rows, K))
<1> DEFINE q == Only(rows, K)
<1>1. q \in Seq(KBRow) /\ KeptFrom(q, rows, K)
  BY OnlyIsKept DEF Distinct
<1> HIDE DEF q
<1>2. PICK at \in [DOMAIN q -> DOMAIN rows] :
        /\ \A k \in DOMAIN q : q[k] = rows[at[k]] /\ rows[at[k]] \in K
        /\ \A j, k \in DOMAIN q : j < k => at[j] < at[k]
  BY <1>1 DEF KeptFrom
<1>3. DOMAIN q = 1 .. Len(q) /\ DOMAIN rows = 1 .. Len(rows) /\ Len(q) \in Nat /\ Len(rows) \in Nat
  BY <1>1, LenProperties DEF Distinct
<1>4. ASSUME NEW i \in DOMAIN q, NEW j \in DOMAIN q, q[i].id = q[j].id PROVE i = j
  <2>1. at[i] = at[j]
    BY <1>2, <1>4 DEF Distinct
  <2>2. at[i] \in Nat /\ at[j] \in Nat /\ ~(at[i] < at[j]) /\ ~(at[j] < at[i])
    BY <1>2, <1>3, <2>1
  <2>3. ~(i < j) /\ ~(j < i)
    BY <1>2, <2>2
  <2> QED
    BY <1>3, <2>3
<1>5. Distinct(q)
  BY <1>1, <1>4 DEF Distinct
<1> QED
  BY <1>5 DEF q

\* What the knowledge base gives, however it was found.
LEMMA KBIsDistinct ==
  ASSUME NEW kb, IsAnswer(kb.concepts), IsAnswer(kb.observations)
  PROVE  Distinct(RecallKB(kb).rows)
<1>1. Distinct(kb.concepts.rows) /\ Distinct(kb.observations.rows)
  BY DEF IsAnswer, Distinct
<1>2. Distinct(<<>>)
  BY DEF Distinct
<1>3. Distinct(KBRecallAt(kb.concepts).rows)
  BY <1>1, <1>2 DEF KBRecallAt, Nothing
<1>4. Distinct(RecallKBSubstring(kb).rows)
  <2> DEFINE rows == Only(kb.observations.rows, {row \in Range(kb.observations.rows) : row.text})
             n == IF Len(rows) < KBLimit THEN Len(rows) ELSE KBLimit
             cut == [i \in 1 .. n |-> [rows[i] EXCEPT !.retracted = "unknown"]]
  <2>1. Distinct(rows)
    BY <1>1, OnlyDistinct
  <2> HIDE DEF rows
  <2>2. n \in Nat /\ n <= Len(rows) /\ DOMAIN rows = 1 .. Len(rows) /\ \A i \in 1 .. Len(rows) : rows[i] \in KBRow
    BY <2>1, LenProperties, RecallAssumption DEF Distinct
  <2> HIDE DEF n
  <2>3. ASSUME NEW i \in 1 .. n
        PROVE  i \in DOMAIN rows /\ cut[i].id = rows[i].id /\ cut[i] \in KBRow
    <3>1. i \in DOMAIN rows /\ rows[i] \in KBRow
      BY <2>2
    <3>2. [rows[i] EXCEPT !.retracted = "unknown"] \in KBRow /\ [rows[i] EXCEPT !.retracted = "unknown"].id = rows[i].id
      BY <3>1 DEF KBRow
    <3> QED
      BY <3>1, <3>2
  <2>4. DOMAIN cut = 1 .. n /\ cut = [i \in 1 .. n |-> cut[i]]
    OBVIOUS
  <2> HIDE DEF cut
  <2>5. cut \in Seq(KBRow)
    BY <2>2, <2>3, <2>4
  <2>6. Distinct(cut)
    BY <2>1, <2>3, <2>4, <2>5 DEF Distinct
  <2> QED
    BY <1>2, <2>6 DEF RecallKBSubstring, Nothing, cut, n, rows
<1> DEFINE recall == KBRecallAt(kb.concepts)
           said == Only(recall.rows, {row \in Range(recall.rows) : Says(row)})
<1>5. Distinct(said)
  BY <1>3, OnlyDistinct
<1>6. RecallKB(kb) \in {recall, [failed |-> FALSE, rows |-> said], RecallKBSubstring(kb)}
  BY Zenon DEF RecallKB
<1> HIDE DEF recall, said
<1>7. CASE RecallKB(kb) = recall
  BY <1>3, <1>7 DEF recall
<1>8. CASE RecallKB(kb) = [failed |-> FALSE, rows |-> said]
  BY <1>5, <1>8
<1>9. CASE RecallKB(kb) = RecallKBSubstring(kb)
  BY <1>4, <1>9
<1> QED
  BY <1>6, <1>7, <1>8, <1>9

\* Three sequences behind each other.
InThree(c, x, y, z) ==
  /\ Len(c) = Len(x) + Len(y) + Len(z)
  /\ \A i \in 1 .. Len(x) : c[i] = x[i]
  /\ \A i \in Len(x) + 1 .. Len(x) + Len(y) : i - Len(x) \in 1 .. Len(y) /\ c[i] = y[i - Len(x)]
  /\ \A i \in Len(x) + Len(y) + 1 .. Len(c) :
       i - (Len(x) + Len(y)) \in 1 .. Len(z) /\ c[i] = z[i - (Len(x) + Len(y))]

LEMMA ThreeParts ==
  ASSUME NEW S, NEW x \in Seq(S), NEW y \in Seq(S), NEW z \in Seq(S)
  PROVE  x \o y \o z \in Seq(S) /\ InThree(x \o y \o z, x, y, z)
<1> DEFINE s == x \o y
           c == s \o z
<1>1. Len(x) \in Nat /\ Len(y) \in Nat /\ Len(z) \in Nat
  BY LenProperties
<1>2. /\ s \in Seq(S) /\ Len(s) = Len(x) + Len(y)
      /\ \A i \in 1 .. Len(x) + Len(y) : s[i] = IF i <= Len(x) THEN x[i] ELSE y[i - Len(x)]
  BY ConcatProperties
<1> HIDE DEF s
<1>3. /\ c \in Seq(S) /\ Len(c) = Len(s) + Len(z)
      /\ \A i \in 1 .. Len(s) + Len(z) : c[i] = IF i <= Len(s) THEN s[i] ELSE z[i - Len(s)]
  <2>1. s \in Seq(S) /\ z \in Seq(S)
    BY <1>2
  <2> QED
    BY <2>1, ConcatProperties
<1> HIDE DEF c
<1>4. \A i \in 1 .. Len(x) : c[i] = x[i]
  BY <1>1, <1>2, <1>3
<1>5. ASSUME NEW i \in Len(x) + 1 .. Len(x) + Len(y)
      PROVE  i - Len(x) \in 1 .. Len(y) /\ c[i] = y[i - Len(x)]
  <2>1. i \in 1 .. Len(x) + Len(y) /\ ~(i <= Len(x)) /\ i \in 1 .. Len(s) + Len(z) /\ i <= Len(s)
    BY <1>1, <1>2
  <2>2. c[i] = s[i] /\ s[i] = y[i - Len(x)]
    BY <1>2, <1>3, <2>1
  <2> QED
    BY <1>1, <2>2
<1>6. ASSUME NEW i \in Len(x) + Len(y) + 1 .. Len(c)
      PROVE  i - (Len(x) + Len(y)) \in 1 .. Len(z) /\ c[i] = z[i - (Len(x) + Len(y))]
  <2>1. i \in 1 .. Len(s) + Len(z) /\ ~(i <= Len(s))
    BY <1>1, <1>2, <1>3
  <2>2. c[i] = z[i - Len(s)]
    BY <1>3, <2>1
  <2> QED
    BY <1>1, <1>2, <1>3, <2>2
<1> QED
  BY <1>1, <1>2, <1>3, <1>4, <1>5, <1>6 DEF InThree, c, s

Rank(store, m) ==
  IF m \in Range(store.facts) THEN 1 ELSE IF m \in Range(store.words) \cup Range(store.alike) THEN 2 ELSE 3

\* The candidates: a sequence of what can be recalled, in which nothing is twice, the facts
\* first and after them what is found and then rows.
Recallables(store, kb, embedder) == store.facts \o Experiential(store, embedder) \o RecallKB(kb).rows

LEMMA CandidatesAre ==
  ASSUME NEW store, IsStore(store), NEW embedder \in BOOLEAN,
         NEW kb, IsAnswer(kb.concepts), IsAnswer(kb.observations)
  PROVE  LET c == Recallables(store, kb, embedder)
             a == Len(store.facts)
             b == Len(Experiential(store, embedder))
         IN  /\ c \in Seq(Memory \cup KBRow) /\ a \in Nat /\ b \in Nat /\ a + b <= Len(c) /\ b <= TopK
             /\ IsInjective(c) /\ \A i \in 1 .. a : c[i] = store.facts[i]
             /\ \A i \in 1 .. Len(c) : Rank(store, c[i]) = IF i <= a THEN 1 ELSE IF i <= a + b THEN 2 ELSE 3
             /\ \A i \in 1 .. Len(c) : c[i] \in Range(RecallKB(kb).rows) <=> c[i].type = "kb"
<1> DEFINE x == store.facts
           y == Experiential(store, embedder)
           z == RecallKB(kb).rows
           c == x \o y \o z
           a == Len(x)
           b == Len(y)
           E == Range(store.words) \cup Range(store.alike)
           M == {m \in Memory : m.type # "kb"}
<1>1. /\ x \in Seq(M) /\ IsInjective(x) /\ \A i \in 1 .. a : x[i].type = "fact"
      /\ store.words \in Seq(M) /\ store.alike \in Seq(M)
  <2>1. x \in Seq(M) /\ store.words \in Seq(M) /\ store.alike \in Seq(M)
    BY DEF IsStore
  <2>2. DOMAIN x = 1 .. a
    BY <2>1, LenProperties
  <2> QED
    BY <2>1, <2>2 DEF IsStore
<1>2. y \in Seq(E) /\ IsInjective(y) /\ b <= TopK /\ \A m \in Range(y) : m.type # "fact"
  BY ExperientialIs
<1>3. Distinct(z)
  BY KBIsDistinct
<1>4. E \subseteq M
  BY <1>1, InRange
<1> HIDE DEF x, y, z
<1>5. \A m \in M : m.type # "kb"
  OBVIOUS
<1>6. \A m \in KBRow : m.type = "kb"
  BY DEF KBRow
<1>7. M \subseteq Memory \cup KBRow
  OBVIOUS
<1> HIDE DEF M, E
<1>8. x \in Seq(Memory \cup KBRow) /\ y \in Seq(Memory \cup KBRow) /\ z \in Seq(Memory \cup KBRow)
  BY <1>1, <1>2, <1>3, <1>4, <1>7 DEF Distinct
<1>9. c \in Seq(Memory \cup KBRow) /\ InThree(c, x, y, z)
  BY <1>8, ThreeParts
<1>10. a \in Nat /\ b \in Nat /\ Len(z) \in Nat /\ DOMAIN x = 1 .. a /\ DOMAIN y = 1 .. b /\ DOMAIN z = 1 .. Len(z)
  BY <1>8, LenProperties
<1> HIDE DEF c
<1>11. DOMAIN c = 1 .. Len(c) /\ Len(c) = a + b + Len(z)
  BY <1>9, LenProperties DEF InThree
<1> HIDE DEF a, b
<1>12. \A i \in 1 .. a : c[i] = x[i] /\ x[i] \in M /\ x[i].type = "fact" /\ x[i].type # "kb" /\ x[i] \in Range(x)
  BY <1>1, <1>5, <1>9, <1>10 DEF InThree, a, Range
<1>13. \A i \in a + 1 .. a + b :
         /\ i - a \in 1 .. b /\ c[i] = y[i - a] /\ y[i - a] \in E /\ y[i - a] \in Range(y)
         /\ y[i - a].type # "fact" /\ y[i - a].type # "kb"
  <2> SUFFICES ASSUME NEW i \in a + 1 .. a + b
               PROVE  /\ i - a \in 1 .. b /\ c[i] = y[i - a] /\ y[i - a] \in E /\ y[i - a] \in Range(y)
                      /\ y[i - a].type # "fact" /\ y[i - a].type # "kb"
    OBVIOUS
  <2>1. i - a \in 1 .. b /\ c[i] = y[i - a]
    BY <1>9 DEF InThree, a, b
  <2>2. y[i - a] \in E /\ y[i - a] \in Range(y)
    BY <1>2, <1>10, <2>1 DEF Range
  <2> QED
    BY <1>2, <1>4, <1>5, <2>1, <2>2
<1>14. \A i \in a + b + 1 .. Len(c) :
         /\ i - (a + b) \in 1 .. Len(z) /\ c[i] = z[i - (a + b)] /\ z[i - (a + b)] \in KBRow
         /\ z[i - (a + b)].type = "kb" /\ z[i - (a + b)] \in Range(z)
  <2> SUFFICES ASSUME NEW i \in a + b + 1 .. Len(c)
               PROVE  /\ i - (a + b) \in 1 .. Len(z) /\ c[i] = z[i - (a + b)] /\ z[i - (a + b)] \in KBRow
                      /\ z[i - (a + b)].type = "kb" /\ z[i - (a + b)] \in Range(z)
    OBVIOUS
  <2>1. i - (a + b) \in 1 .. Len(z) /\ c[i] = z[i - (a + b)]
    BY <1>9 DEF InThree, a, b
  <2>2. z[i - (a + b)] \in KBRow /\ z[i - (a + b)] \in Range(z)
    BY <1>3, <1>10, <2>1 DEF Range, Distinct
  <2> QED
    BY <1>6, <2>1, <2>2
<1>15. \A i \in 1 .. Len(c) : i \in 1 .. a \/ i \in a + 1 .. a + b \/ i \in a + b + 1 .. Len(c)
  BY <1>10, <1>11
<1>16. IsInjective(c)
  <2> SUFFICES ASSUME NEW i \in 1 .. Len(c), NEW j \in 1 .. Len(c), c[i] = c[j] PROVE i = j
    BY <1>11 DEF IsInjective
  <2>1. CASE i \in 1 .. a
    <3>1. j \in 1 .. a
      BY <1>6, <1>12, <1>13, <1>14, <1>15, <2>1
    <3> QED
      BY <1>1, <1>10, <1>12, <2>1, <3>1 DEF IsInjective
  <2>2. CASE i \in a + 1 .. a + b
    <3>1. j \in a + 1 .. a + b
      BY <1>12, <1>13, <1>14, <1>15, <2>2
    <3>2. i - a = j - a
      BY <1>2, <1>10, <1>13, <2>2, <3>1 DEF IsInjective
    <3> QED
      BY <1>10, <3>2
  <2>3. CASE i \in a + b + 1 .. Len(c)
    <3>1. j \in a + b + 1 .. Len(c)
      BY <1>12, <1>13, <1>14, <1>15, <2>3
    <3> DEFINE u == i - (a + b)
               v == j - (a + b)
    <3>2. u \in 1 .. Len(z) /\ v \in 1 .. Len(z) /\ z[u] = z[v]
      BY <1>14, <2>3, <3>1
    <3> HIDE DEF u, v
    <3>3. z[u].id = z[v].id /\ u \in DOMAIN z /\ v \in DOMAIN z
      BY <1>10, <3>2
    <3>4. u = v
      BY <1>3, <3>3 DEF Distinct
    <3> QED
      BY <1>10, <3>1, <3>4, <2>3 DEF u, v
  <2> QED
    BY <1>15, <2>1, <2>2, <2>3
<1>17. \A i \in 1 .. Len(c) : c[i] \in Range(z) <=> c[i].type = "kb"
  <2>1. \A m \in Range(z) : m.type = "kb"
    BY <1>3, <1>6, InRange DEF Distinct
  <2> QED
    BY <1>12, <1>13, <1>14, <1>15, <2>1
<1>18. \A m \in Range(x) : m.type = "fact"
  BY <1>1, <1>10 DEF Range, a
<1>19. \A i \in 1 .. Len(c) : Rank(store, c[i]) = IF i <= a THEN 1 ELSE IF i <= a + b THEN 2 ELSE 3
  <2> SUFFICES ASSUME NEW i \in 1 .. Len(c)
               PROVE  Rank(store, c[i]) = IF i <= a THEN 1 ELSE IF i <= a + b THEN 2 ELSE 3
    OBVIOUS
  <2>1. Rank(store, c[i]) = IF c[i] \in Range(x) THEN 1 ELSE IF c[i] \in E THEN 2 ELSE 3
    BY DEF Rank, x, E
  <2>2. CASE i \in 1 .. a
    BY <1>10, <1>12, <2>1, <2>2
  <2>3. CASE i \in a + 1 .. a + b
    BY <1>10, <1>13, <1>18, <2>1, <2>3
  <2>4. CASE i \in a + b + 1 .. Len(c)
    <3>1. c[i] \notin Range(x) /\ c[i] \notin E
      BY <1>4, <1>5, <1>14, <1>18, <2>4
    <3> QED
      BY <1>10, <2>1, <2>4, <3>1
  <2> QED
    BY <1>15, <2>2, <2>3, <2>4
<1>20. a + b <= Len(c)
  BY <1>10, <1>11
<1> QED
  BY <1>2, <1>9, <1>10, <1>12, <1>16, <1>17, <1>19, <1>20 DEF Recallables, a, b, c, x, y, z

LEMMA FewInRange ==
  ASSUME NEW S, NEW p \in Seq(S), NEW T \in SUBSET Range(p)
  PROVE  IsFiniteSet(T) /\ Cardinality(T) <= Len(p)
<1>1. Len(p) \in Nat /\ DOMAIN p = 1 .. Len(p) /\ p = [i \in 1 .. Len(p) |-> p[i]] /\ Range(p) = {p[i] : i \in 1 .. Len(p)}
  BY LenProperties DEF Range
<1>2. p \in Surjection(1 .. Len(p), Range(p))
  <2>1. \A i \in 1 .. Len(p) : p[i] \in Range(p)
    BY <1>1
  <2>2. p \in [1 .. Len(p) -> Range(p)]
    BY <1>1, <2>1, Zenon
  <2>3. \A m \in Range(p) : \E i \in 1 .. Len(p) : p[i] = m
    BY <1>1
  <2> QED
    BY <2>2, <2>3 DEF Surjection
<1>3. IsFiniteSet(1 .. Len(p)) /\ Cardinality(1 .. Len(p)) = Len(p)
  <2>1. 1 \in Int /\ Len(p) \in Int /\ Len(p) \in Nat
    BY <1>1
  <2>2. /\ IsFiniteSet(1 .. Len(p))
        /\ Cardinality(1 .. Len(p)) = IF 1 > Len(p) THEN 0 ELSE Len(p) - 1 + 1
    BY <2>1, FS_Interval
  <2> QED
    BY <2>1, <2>2
<1>4. IsFiniteSet(Range(p)) /\ Cardinality(Range(p)) <= Len(p)
  BY <1>2, <1>3, FS_Surjection
<1>5. IsFiniteSet(T) /\ Cardinality(T) <= Cardinality(Range(p))
  BY <1>4, FS_Subset
<1>6. Cardinality(T) \in Nat /\ Cardinality(Range(p)) \in Nat
  BY <1>4, <1>5, FS_CardinalityType
<1> QED
  BY <1>1, <1>4, <1>5, <1>6

LEMMA BeginningOf ==
  ASSUME NEW S, NEW c \in Seq(S), IsInjective(c), NEW k \in 0 .. Len(c)
  PROVE  LET r == SubSeq(c, 1, k)
         IN  /\ r \in Seq(S) /\ DOMAIN r = 1 .. k /\ IsInjective(r)
             /\ \A i \in 1 .. k : r[i] = c[i] /\ i \in 1 .. Len(c)
             /\ \A i \in 1 .. Len(c) : c[i] \in Range(r) <=> i <= k
<1> DEFINE r == SubSeq(c, 1, k)
<1>1. r \in Seq(S) /\ DOMAIN r = 1 .. k /\ \A i \in 1 .. k : r[i] = c[i]
  BY Beginning
<1>2. Len(c) \in Nat /\ k \in Nat /\ k <= Len(c) /\ DOMAIN c = 1 .. Len(c)
  BY LenProperties
<1> HIDE DEF r
<1>3. \A i \in 1 .. k : i \in 1 .. Len(c)
  BY <1>2
<1>4. IsInjective(r)
  BY <1>1, <1>2, <1>3 DEF IsInjective
<1>5. ASSUME NEW i \in 1 .. Len(c) PROVE c[i] \in Range(r) <=> i <= k
  <2>1. ASSUME i <= k PROVE c[i] \in Range(r)
    BY <1>1, <1>2, <2>1 DEF Range
  <2>2. ASSUME c[i] \in Range(r) PROVE i <= k
    <3>1. PICK j \in 1 .. k : r[j] = c[i]
      BY <1>1, <2>2 DEF Range
    <3>2. j = i
      BY <1>1, <1>2, <1>3, <3>1 DEF IsInjective
    <3> QED
      BY <1>2, <3>1, <3>2
  <2> QED
    BY <2>1, <2>2
<1> QED
  BY <1>1, <1>3, <1>4, <1>5 DEF r

\* What is recalled is a recall of what there is.
LEMMA RecallIs ==
  ASSUME NEW store, IsStore(store), NEW embedder \in BOOLEAN, NEW budget \in Nat,
         NEW kb, IsAnswer(kb.concepts), IsAnswer(kb.observations)
  PROVE  IsRecallOf(UnifiedRecall(store, kb, embedder, budget), store, kb, budget)
<1> DEFINE c == Recallables(store, kb, embedder)
           r == UnifiedRecall(store, kb, embedder, budget)
           a == Len(store.facts)
           e == Experiential(store, embedder)
           b == Len(e)
           S == Memory \cup KBRow
           pos(m) == CHOOSE i \in DOMAIN r : r[i] = m
           lacking == {i \in DOMAIN store.facts : store.facts[i] \notin Range(r)}
<1>1. /\ c \in Seq(S) /\ a \in Nat /\ b \in Nat /\ a + b <= Len(c) /\ b <= TopK
      /\ IsInjective(c) /\ \A i \in 1 .. a : c[i] = store.facts[i]
      /\ \A i \in 1 .. Len(c) : Rank(store, c[i]) = IF i <= a THEN 1 ELSE IF i <= a + b THEN 2 ELSE 3
  BY CandidatesAre
<1>2. \A m \in S : m.tokens \in Nat
  BY DEF Memory, KBRow
<1>3. r = Recalled(c, budget)
  BY DEF UnifiedRecall, Recallables
<1>4. e \in Seq(Range(store.words) \cup Range(store.alike))
  BY ExperientialIs
<1>5. c = store.facts \o e \o RecallKB(kb).rows
  BY DEF Recallables
<1>6. DOMAIN store.facts = 1 .. a
  BY LenProperties DEF IsStore
<1> HIDE DEF c, r, S, e
<1>7. PICK k : Reaches(c, k, budget) /\ r = SubSeq(c, 1, k)
  BY <1>1, <1>2, <1>3, RecalledReaches
<1> HIDE DEF a, b
<1>8. k \in 0 .. Len(c) /\ Len(c) \in Nat /\ k \in Nat
  BY <1>1, <1>7, LenProperties DEF Reaches
<1>9. /\ r \in Seq(S) /\ DOMAIN r = 1 .. k /\ IsInjective(r)
      /\ \A i \in 1 .. k : r[i] = c[i] /\ i \in 1 .. Len(c)
      /\ \A i \in 1 .. Len(c) : c[i] \in Range(r) <=> i <= k
  BY <1>1, <1>7, <1>8, BeginningOf
<1>10. budget > 0 => Tokens(r) <= budget
  BY <1>7 DEF Reaches
<1>11. ASSUME NEW m \in Range(r) PROVE pos(m) \in 1 .. k /\ r[pos(m)] = m /\ c[pos(m)] = m
  <2>1. \E i \in DOMAIN r : r[i] = m
    BY DEF Range
  <2>2. pos(m) \in DOMAIN r /\ r[pos(m)] = m
    BY <2>1, Zenon
  <2> HIDE DEF pos
  <2> QED
    BY <1>9, <2>2
<1>12. ASSUME NEW m \in Range(r), NEW n \in Range(r), Rank(store, m) < Rank(store, n) PROVE pos(m) < pos(n)
  <2>1. /\ pos(m) \in 1 .. k /\ c[pos(m)] = m /\ pos(n) \in 1 .. k /\ c[pos(n)] = n
        /\ pos(m) \in 1 .. Len(c) /\ pos(n) \in 1 .. Len(c)
    BY <1>9, <1>11
  <2> HIDE DEF pos
  <2>2. /\ Rank(store, m) = IF pos(m) <= a THEN 1 ELSE IF pos(m) <= a + b THEN 2 ELSE 3
        /\ Rank(store, n) = IF pos(n) <= a THEN 1 ELSE IF pos(n) <= a + b THEN 2 ELSE 3
    BY <1>1, <2>1
  <2> QED
    BY <1>1, <1>8, <1>12, <2>1, <2>2
<1>13. Cardinality({m \in Range(r) : Rank(store, m) = 2}) <= TopK
  <2> DEFINE T == {m \in Range(r) : Rank(store, m) = 2}
  <2>1. ASSUME NEW m \in T PROVE m \in Range(e)
    <3>1. pos(m) \in 1 .. Len(c) /\ c[pos(m)] = m
      BY <1>9, <1>11
    <3> DEFINE i == pos(m)
    <3> HIDE DEF i, pos
    <3>2. i \in 1 .. Len(c) /\ c[i] = m
      BY <3>1 DEF i
    <3>3. i \in a + 1 .. a + b
      BY <1>1, <1>8, <3>2
    <3>4. InThree(c, store.facts, e, RecallKB(kb).rows)
      <4>1. store.facts \in Seq(Memory) /\ RecallKB(kb).rows \in Seq(KBRow)
        BY KBIsDistinct DEF IsStore, Distinct
      <4>2. e \in Seq(Memory)
        <5>1. Range(store.words) \subseteq Memory /\ Range(store.alike) \subseteq Memory
          BY InRange DEF IsStore
        <5> QED
          BY <1>4, <5>1
      <4>3. store.facts \in Seq(S) /\ e \in Seq(S) /\ RecallKB(kb).rows \in Seq(S)
        BY <4>1, <4>2 DEF S
      <4> QED
        BY <1>5, <4>3, ThreeParts
    <3>5. i - a \in 1 .. b /\ c[i] = e[i - a]
      BY <3>3, <3>4 DEF InThree, a, b
    <3>6. DOMAIN e = 1 .. b
      BY <1>4, LenProperties DEF b
    <3> QED
      BY <3>2, <3>5, <3>6 DEF Range
  <2> HIDE DEF T
  <2>2. T \in SUBSET Range(e)
    BY <2>1
  <2>3. IsFiniteSet(T) /\ Cardinality(T) <= b
    BY <1>4, <2>2, FewInRange DEF b
  <2>4. Cardinality(T) \in Nat /\ TopK \in Nat
    BY <2>3, FS_CardinalityType, RecallAssumption
  <2> QED
    BY <1>1, <2>3, <2>4 DEF T
<1>14. ASSUME lacking # {}
       PROVE  /\ Range(r) \subseteq Range(store.facts)
              /\ budget > 0 /\ Tokens(r) + store.facts[Min(lacking)].tokens > budget
  <2>1. \A i \in 1 .. a : i \in 1 .. Len(c) /\ (i \in lacking <=> k < i)
    <3>1. \A i \in 1 .. a : i \in 1 .. Len(c)
      BY <1>1, <1>8
    <3> QED
      BY <1>1, <1>6, <1>8, <1>9, <3>1
  <2>2. k < a
    BY <1>1, <1>6, <1>8, <1>14, <2>1
  <2>3. k + 1 \in lacking /\ \A i \in lacking : k + 1 <= i
    BY <1>1, <1>6, <1>8, <2>1, <2>2
  <2>4. Min(lacking) = k + 1
    <3>1. \E x \in lacking : \A y \in lacking : x <= y
      BY <2>3
    <3> HIDE DEF lacking
    <3>2. Min(lacking) \in lacking /\ \A y \in lacking : Min(lacking) <= y
      BY <3>1, Zenon DEF Min
    <3>3. \A i \in lacking : i \in Nat
      BY <1>6 DEF lacking
    <3> QED
      BY <1>8, <2>3, <3>2, <3>3
  <2>5. Range(r) \subseteq Range(store.facts)
    <3> SUFFICES ASSUME NEW m \in Range(r) PROVE m \in Range(store.facts)
      OBVIOUS
    <3>1. pos(m) \in 1 .. k /\ c[pos(m)] = m
      BY <1>11
    <3> HIDE DEF pos
    <3>2. pos(m) \in 1 .. a
      BY <1>1, <1>8, <2>2, <3>1
    <3> QED
      BY <1>1, <1>6, <3>1, <3>2 DEF Range
  <2>6. k < Len(c) /\ k + 1 \in 1 .. a
    BY <1>1, <1>8, <2>2
  <2>7. budget > 0 /\ Tokens(r) + c[k + 1].tokens > budget
    BY <1>7, <2>6 DEF Reaches
  <2>8. c[k + 1] = store.facts[k + 1]
    BY <1>1, <2>6
  <2> HIDE DEF lacking
  <2> QED
    BY <2>4, <2>5, <2>7, <2>8
<1> QED
  BY <1>9, <1>10, <1>12, <1>13, <1>14, Zenon DEF IsRecallOf, Rank, r

\* What the log says of a recall: the rows that entered the prompt, and no other.
Logged(results, kb, told) ==
  LET entered == Only(results, Range(RecallKB(kb).rows))
  IN  /\ Len(told.items) = Len(entered) /\ Len(told.injections) = Len(entered)
      /\ \A i \in DOMAIN entered :
           /\ told.items[i].id = entered[i].id /\ told.injections[i].ref = entered[i].id
           /\ entered[i].retracted = "yes" <=> told.items[i].retracted = "yes" /\ told.injections[i].retracted

LEMMA LogIsOfRecall ==
  ASSUME NEW store, IsStore(store), NEW embedder \in BOOLEAN, NEW budget \in Nat,
         NEW kb, IsAnswer(kb.concepts), IsAnswer(kb.observations)
  PROVE  LET results == UnifiedRecall(store, kb, embedder, budget)
         IN  Logged(results, kb, LogRecall(results, kb))
<1> DEFINE c == Recallables(store, kb, embedder)
           r == UnifiedRecall(store, kb, embedder, budget)
           S == Memory \cup KBRow
           K == {m \in Range(r) : m.type = "kb"}
           L == Range(RecallKB(kb).rows)
           entered == Only(r, L)
<1>1. /\ c \in Seq(S) /\ IsInjective(c)
      /\ \A i \in 1 .. Len(c) : c[i] \in L <=> c[i].type = "kb"
  BY CandidatesAre
<1>2. \A m \in S : m.tokens \in Nat
  BY DEF Memory, KBRow
<1>3. r = Recalled(c, budget)
  BY DEF UnifiedRecall, Recallables
<1> HIDE DEF c, r, S, L
<1>4. PICK k : Reaches(c, k, budget) /\ r = SubSeq(c, 1, k)
  BY <1>1, <1>2, <1>3, RecalledReaches
<1>5. k \in 0 .. Len(c)
  BY <1>4 DEF Reaches
<1>6. r \in Seq(S) /\ DOMAIN r = 1 .. k /\ \A i \in 1 .. k : r[i] = c[i] /\ i \in 1 .. Len(c)
  BY <1>1, <1>4, <1>5, BeginningOf
<1>7. \A i \in DOMAIN r : r[i] \in K <=> r[i] \in L
  <2> SUFFICES ASSUME NEW i \in DOMAIN r PROVE r[i] \in K <=> r[i] \in L
    OBVIOUS
  <2>1. r[i] \in Range(r)
    BY DEF Range
  <2> QED
    BY <1>1, <1>6, <2>1
<1> HIDE DEF K
<1>8. Only(r, K) = entered
  BY <1>6, <1>7, OnlySame
<1>9. entered \in Seq(S)
  BY <1>6, OnlyIsKept
<1>10. KBRowsOf(r) = entered
  BY <1>8 DEF KBRowsOf, K
<1>11. LogRecall(r, kb) = [status |-> "ok", items |-> entered,
                           injections |-> [i \in DOMAIN entered |->
                             [ref |-> entered[i].id, retracted |-> entered[i].retracted = "yes"]]]
  BY <1>10, Zenon DEF LogRecall
<1> HIDE DEF entered
<1> DEFINE told == LogRecall(r, kb)
           marks == [i \in DOMAIN entered |-> [ref |-> entered[i].id, retracted |-> entered[i].retracted = "yes"]]
<1>12. told.items = entered /\ told.injections = marks
  BY <1>11
<1> HIDE DEF told
<1>13. DOMAIN entered = 1 .. Len(entered) /\ Len(entered) \in Nat
  BY <1>9, LenProperties
<1>14. \A i \in DOMAIN entered : marks[i].ref = entered[i].id /\ (marks[i].retracted <=> entered[i].retracted = "yes")
  OBVIOUS
<1>15. Len(marks) = Len(entered)
  BY <1>13
<1> HIDE DEF marks
<1>16. Logged(r, kb, told)
  BY <1>12, <1>14, <1>15 DEF Logged, entered, L
<1> QED
  BY <1>16 DEF r, told

-----------------------------------------------------------------------------
(* The folds of Chunks: paragraphs are put into units, and units into      *)
(* chunks.                                                                 *)

AddParagraph(document, units, p) ==
  IF document.source /\ p.closes /\ units # <<>>
  THEN [units EXCEPT ![Len(units)] = Append(@, p)]
  ELSE Append(units, <<p>>)

UnitsAt(f, P, document, p) ==
  /\ f \in [0 .. Len(p) -> Seq(Seq(P))]
  /\ f[0] = <<>> /\ Units(document) = f[Len(p)]
  /\ \A i \in 1 .. Len(p) : f[i] = AddParagraph(document, f[i - 1], p[i])

LEMMA ParagraphAdded ==
  ASSUME NEW P, NEW document, NEW units \in Seq(Seq(P)), NEW p \in P
  PROVE  AddParagraph(document, units, p) \in Seq(Seq(P))
<1> DEFINE U == Seq(P)
           n == Len(units)
<1>1. n \in Nat /\ DOMAIN units = 1 .. n /\ \A i \in 1 .. n : units[i] \in U
  BY LenProperties
<1>2. <<p>> \in U /\ \A u \in U : Append(u, p) \in U
  BY AppendProperties
<1> HIDE DEF U, n
<1>3. Append(units, <<p>>) \in Seq(U)
  BY <1>2, AppendProperties DEF U
<1>4. ASSUME units # <<>> PROVE [units EXCEPT ![n] = Append(@, p)] \in Seq(U)
  <2>1. n \in 1 .. n
    <3>1. n # 0
      BY <1>4, EmptySeq DEF n, U
    <3> QED
      BY <1>1, <3>1
  <2>2. Append(units[n], p) \in U
    BY <1>1, <1>2, <2>1
  <2>3. units \in Seq(U) /\ n = Len(units)
    BY DEF U, n
  <2>4. [units EXCEPT ![n] = Append(units[n], p)] \in Seq(U)
    BY <2>1, <2>2, <2>3, ExceptSeq
  <2> QED
    BY <2>4
<1> QED
  BY <1>3, <1>4 DEF AddParagraph, U, n

LEMMA UnitsFold ==
  ASSUME NEW P, NEW document, NEW p \in Seq(P), p = document.paragraphs
  PROVE  \E f : UnitsAt(f, P, document, p)
<1> DEFINE A == Seq(Seq(P))
           st == [x \in A \X P |-> AddParagraph(document, x[1], x[2])]
           Folds(g) == g = [s \in SUBSET (DOMAIN p) |->
                              IF s = {} THEN <<>> ELSE AddParagraph(document, g[s \ {Max(s)}], p[Max(s)])]
           fold == CHOOSE g : Folds(g)
<1>1. Units(document) = fold[DOMAIN p]
  BY Zenon DEF Units, AddParagraph, FoldLeft, MapThenFoldSet
<1>2. DOMAIN p = 1 .. Len(p) /\ Len(p) \in Nat /\ \A i \in 1 .. Len(p) : p[i] \in P
  BY LenProperties
<1>3. <<>> \in A /\ \A a \in A, m \in P : AddParagraph(document, a, m) \in A
  BY ParagraphAdded
<1> HIDE DEF A
<1>4. st \in [A \X P -> A] /\ \A a \in A, m \in P : st[<<a, m>>] = AddParagraph(document, a, m)
  BY <1>3
<1>5. Folds(fold)
  <2> HIDE DEF st
  <2>1. PICK g : Steps(g, A, P, st, <<>>, p)
    BY <1>3, <1>4, FoldSteps
  <2>2. \A s \in SUBSET (DOMAIN p) : g[s] = IF s = {} THEN <<>> ELSE AddParagraph(document, g[s \ {Max(s)}], p[Max(s)])
    BY <1>4, <2>1 DEF Steps
  <2>3. Folds(g)
    BY <2>1, <2>2 DEF Steps
  <2> HIDE DEF Folds
  <2> QED BY <2>3, Zenon
<1>6. FoldsIn(fold, A, st, <<>>, p, Len(p))
  <2> HIDE DEF fold, st
  <2>1. \A s \in SUBSET (1 .. Len(p)) : fold[s] = IF s = {} THEN <<>> ELSE AddParagraph(document, fold[s \ {Max(s)}], p[Max(s)])
    BY <1>2, <1>5
  <2>2. \A s \in SUBSET (1 .. Len(p)) : s # {} => Max(s) \in 1 .. Len(p)
    BY <1>2, GreatestIn
  <2> QED
    BY <1>2, <1>4, <2>1, <2>2 DEF FoldsIn
<1>7. PICK f : ValuesOf(f, A, st, <<>>, p)
  <2> HIDE DEF st
  <2> QED BY <1>3, <1>4, Folding
<1>8. ASSUME NEW i \in 1 .. Len(p) PROVE f[i] = AddParagraph(document, f[i - 1], p[i])
  <2>1. i - 1 \in 0 .. Len(p)
    BY <1>2
  <2> HIDE DEF st
  <2> QED
    BY <1>2, <1>4, <1>7, <2>1 DEF Folded, ValuesOf
<1> HIDE DEF st, fold, Folds
<1>9. /\ f \in [0 .. Len(p) -> A] /\ f[0] = <<>> /\ Units(document) = f[Len(p)]
  BY <1>1, <1>2, <1>6, <1>7 DEF Folded, ValuesOf
<1> QED
  BY <1>8, <1>9 DEF A, UnitsAt

Split(units) == FoldLeft(AddUnit, [done |-> <<>>, current |-> <<Head(units)>>], Tail(units))

\* Chunks are not empty.
Chunky(U) == Seq(U) \ {<<>>}

SplitType(U) == [done : Seq(Chunky(U)), current : Chunky(U)]

LEMMA UnitAdded ==
  ASSUME NEW U, NEW split \in SplitType(U), NEW unit \in U
  PROVE  AddUnit(split, unit) \in SplitType(U)
<1>1. split.done \in Seq(Chunky(U)) /\ split.current \in Chunky(U)
  BY DEF SplitType
<1>2. split.current \in Seq(U) /\ split.current # <<>>
  BY <1>1 DEF Chunky
<1>3. Append(split.current, unit) \in Chunky(U)
  BY <1>2, AppendProperties DEF Chunky
<1>4. Last(split.current) \in U
  BY <1>2, LenProperties, EmptySeq DEF Last
<1>5. NextChunk(split.current, unit) \in Chunky(U)
  BY <1>4 DEF NextChunk, Chunky
<1>6. Append(split.done, split.current) \in Seq(Chunky(U))
  <2> DEFINE C == Chunky(U)
  <2> HIDE DEF C
  <2>1. split.done \in Seq(C) /\ split.current \in C
    BY <1>1 DEF C
  <2> QED
    BY <2>1, AppendProperties DEF C
<1>7. [done |-> Append(split.done, split.current), current |-> NextChunk(split.current, unit)] \in SplitType(U)
  BY <1>5, <1>6 DEF SplitType
<1>8. [split EXCEPT !.current = Append(@, unit)] \in SplitType(U)
  BY <1>1, <1>3 DEF SplitType
<1> QED
  BY <1>7, <1>8 DEF AddUnit

SplitAt(f, U, units, first, p) ==
  /\ f \in [0 .. Len(p) -> SplitType(U)]
  /\ f[0] = [done |-> <<>>, current |-> <<first>>] /\ Split(units) = f[Len(p)]
  /\ \A i \in 1 .. Len(p) : f[i] = AddUnit(f[i - 1], p[i])

LEMMA SplitFold ==
  ASSUME NEW U, NEW units, NEW first \in U, NEW p \in Seq(U), first = Head(units), p = Tail(units)
  PROVE  \E f : SplitAt(f, U, units, first, p)
<1> DEFINE A == SplitType(U)
           st == [x \in A \X U |-> AddUnit(x[1], x[2])]
           Folds(g) == g = [s \in SUBSET (DOMAIN p) |->
                              IF s = {} THEN [done |-> <<>>, current |-> <<first>>] ELSE AddUnit(g[s \ {Max(s)}], p[Max(s)])]
           fold == CHOOSE g : Folds(g)
<1>1. Split(units) = fold[DOMAIN p]
  BY Zenon DEF Split, FoldLeft, MapThenFoldSet
<1>2. DOMAIN p = 1 .. Len(p) /\ Len(p) \in Nat /\ \A i \in 1 .. Len(p) : p[i] \in U
  BY LenProperties
<1>3. [done |-> <<>>, current |-> <<first>>] \in A /\ \A a \in A, m \in U : AddUnit(a, m) \in A
  <2>1. [done |-> <<>>, current |-> <<first>>] \in A
    BY DEF SplitType, Chunky
  <2> QED
    BY <2>1, UnitAdded
<1> HIDE DEF A
<1>4. st \in [A \X U -> A] /\ \A a \in A, m \in U : st[<<a, m>>] = AddUnit(a, m)
  BY <1>3
<1>5. Folds(fold)
  <2> HIDE DEF st
  <2>1. PICK g : Steps(g, A, U, st, [done |-> <<>>, current |-> <<first>>], p)
    BY <1>3, <1>4, FoldSteps
  <2>2. \A s \in SUBSET (DOMAIN p) : g[s] = IF s = {} THEN [done |-> <<>>, current |-> <<first>>] ELSE AddUnit(g[s \ {Max(s)}], p[Max(s)])
    BY <1>4, <2>1 DEF Steps
  <2>3. Folds(g)
    BY <2>1, <2>2 DEF Steps
  <2> HIDE DEF Folds
  <2> QED BY <2>3, Zenon
<1>6. FoldsIn(fold, A, st, [done |-> <<>>, current |-> <<first>>], p, Len(p))
  <2> HIDE DEF fold, st
  <2>1. \A s \in SUBSET (1 .. Len(p)) : fold[s] = IF s = {} THEN [done |-> <<>>, current |-> <<first>>] ELSE AddUnit(fold[s \ {Max(s)}], p[Max(s)])
    BY <1>2, <1>5
  <2>2. \A s \in SUBSET (1 .. Len(p)) : s # {} => Max(s) \in 1 .. Len(p)
    BY <1>2, GreatestIn
  <2> QED
    BY <1>2, <1>4, <2>1, <2>2 DEF FoldsIn
<1>7. PICK f : ValuesOf(f, A, st, [done |-> <<>>, current |-> <<first>>], p)
  <2> HIDE DEF st
  <2> QED BY <1>3, <1>4, Folding
<1>8. ASSUME NEW i \in 1 .. Len(p) PROVE f[i] = AddUnit(f[i - 1], p[i])
  <2>1. i - 1 \in 0 .. Len(p)
    BY <1>2
  <2> HIDE DEF st
  <2> QED
    BY <1>2, <1>4, <1>7, <2>1 DEF Folded, ValuesOf
<1> HIDE DEF st, fold, Folds
<1>9. /\ f \in [0 .. Len(p) -> A] /\ f[0] = [done |-> <<>>, current |-> <<first>>] /\ Split(units) = f[Len(p)]
  BY <1>1, <1>2, <1>6, <1>7 DEF Folded, ValuesOf
<1> QED
  BY <1>8, <1>9 DEF A, SplitAt

-----------------------------------------------------------------------------
(* FlattenSeq, by the same argument, and what it does of one sequence more.*)

FlatAt(f, U, s) ==
  /\ f \in [0 .. Len(s) -> Seq(U)]
  /\ f[0] = <<>> /\ FlattenSeq(s) = f[Len(s)]
  /\ \A i \in 1 .. Len(s) : f[i] = f[i - 1] \o s[i]

LEMMA FlattenFold ==
  ASSUME NEW U, NEW s \in Seq(Seq(U))
  PROVE  \E f : FlatAt(f, U, s)
<1> DEFINE A == Seq(U)
           st == [x \in A \X A |-> x[1] \o x[2]]
           n == Len(s)
           Flat(g) == g = [i \in 1 .. n |-> IF i = 1 THEN s[i] ELSE g[i - 1] \o s[i]]
           flatten == CHOOSE g : Flat(g)
<1>1. n \in Nat /\ DOMAIN s = 1 .. n /\ \A i \in 1 .. n : s[i] \in A
  BY LenProperties
<1>2. n # 0 => FlattenSeq(s) = flatten[n]
  BY Zenon DEF FlattenSeq
<1>3. n = 0 => FlattenSeq(s) = <<>>
  <2>1. n = 0 => FlattenSeq(s) = s
    BY Zenon DEF FlattenSeq
  <2>2. n = 0 => s = <<>>
    BY EmptySeq
  <2> QED
    BY <2>1, <2>2
<1>4. <<>> \in A /\ \A a, c \in A : a \o c \in A
  BY ConcatProperties
<1>5. \A c \in A : <<>> \o c = c
  BY ConcatEmptySeq
<1> HIDE DEF A
<1>6. st \in [A \X A -> A] /\ \A a, c \in A : st[<<a, c>>] = a \o c
  BY <1>4
<1>7. PICK f : ValuesOf(f, A, st, <<>>, s)
  <2> HIDE DEF st, n
  <2>1. s \in Seq(A)
    BY DEF A
  <2> QED
    BY <1>4, <1>6, <2>1, Folding
<1> HIDE DEF st
<1>8. f \in [0 .. n -> A] /\ f[0] = <<>> /\ \A i \in 1 .. n : f[i] = st[<<f[i - 1], s[i]>>]
  BY <1>7 DEF ValuesOf, Folded
<1> HIDE DEF n
<1>9. \A i \in 1 .. n : i - 1 \in 0 .. n /\ f[i - 1] \in A /\ f[i] = f[i - 1] \o s[i]
  <2> SUFFICES ASSUME NEW i \in 1 .. n PROVE i - 1 \in 0 .. n /\ f[i - 1] \in A /\ f[i] = f[i - 1] \o s[i]
    OBVIOUS
  <2>1. i - 1 \in 0 .. n
    BY <1>1
  <2>2. f[i - 1] \in A /\ s[i] \in A
    BY <1>1, <1>8, <2>1
  <2> QED
    BY <1>6, <1>8, <2>1, <2>2
<1>10. Flat([i \in 1 .. n |-> f[i]])
  <2> DEFINE g == [i \in 1 .. n |-> f[i]]
  <2>1. ASSUME NEW i \in 1 .. n PROVE g[i] = IF i = 1 THEN s[i] ELSE g[i - 1] \o s[i]
    <3>1. CASE i = 1
      <4>0. 1 \in 1 .. n /\ 1 - 1 = 0
        BY <3>1
      <4>1. f[1] = <<>> \o s[1] /\ s[1] \in A
        BY <1>1, <1>8, <1>9, <4>0
      <4>2. f[1] = s[1]
        BY <1>5, <4>1
      <4> QED
        BY <3>1, <4>2
    <3>2. CASE i # 1
      <4>1. i - 1 \in 1 .. n
        BY <1>1, <3>2
      <4>2. g[i - 1] = f[i - 1] /\ g[i] = f[i]
        BY <4>1
      <4> HIDE DEF g
      <4> QED
        BY <1>9, <3>2, <4>2
    <3> QED
      BY <3>1, <3>2
  <2>2. g = [i \in 1 .. n |-> g[i]]
    OBVIOUS
  <2> HIDE DEF g
  <2>3. Flat(g)
    BY <2>1, <2>2
  <2> QED
    BY <2>3 DEF g
<1>11. Flat(flatten)
  BY <1>10, Zenon
<1> HIDE DEF flatten
<1>12. \A i \in 1 .. n : flatten[i] = IF i = 1 THEN s[i] ELSE flatten[i - 1] \o s[i]
  BY <1>11
<1> DEFINE T == {i \in 0 .. n : i # 0 => flatten[i] = f[i]}
<1>13. 0 \in T
  BY <1>1
<1>14. ASSUME NEW i \in 1 .. n, i - 1 \in T PROVE i \in T
  <2>1. i \in 0 .. n /\ f[i] = f[i - 1] \o s[i] /\ i - 1 \in 0 .. n
    BY <1>1, <1>9
  <2>2. CASE i = 1
    <3>1. f[i] = <<>> \o s[i] /\ s[i] \in A
      BY <1>1, <1>8, <2>1, <2>2
    <3>2. f[i] = s[i]
      BY <1>5, <3>1
    <3> QED
      BY <1>12, <2>1, <2>2, <3>2
  <2>3. CASE i # 1
    <3>1. i - 1 # 0
      BY <2>3
    <3>2. flatten[i - 1] = f[i - 1]
      BY <1>14, <3>1
    <3> QED
      BY <1>12, <2>1, <2>3, <3>2
  <2> QED
    BY <2>2, <2>3
<1>15. n \in 0 .. n
  BY <1>1
<1> HIDE DEF T
<1>16. n \in T
  BY <1>1, <1>13, <1>14, <1>15, UpTo
<1>17. FlattenSeq(s) = f[n]
  BY <1>2, <1>3, <1>8, <1>16 DEF T
<1> QED
  BY <1>8, <1>9, <1>17 DEF FlatAt, A, n

LEMMA FlattenMore ==
  ASSUME NEW U, NEW s \in Seq(Seq(U)), NEW c \in Seq(U)
  PROVE  FlattenSeq(s) \in Seq(U) /\ FlattenSeq(Append(s, c)) = FlattenSeq(s) \o c
<1> DEFINE A == Seq(U)
           q == Append(s, c)
           n == Len(s)
<1>1. /\ q \in Seq(Seq(U)) /\ Len(q) = n + 1 /\ n \in Nat /\ q[n + 1] = c
      /\ \A i \in 1 .. n : q[i] = s[i]
  <2>1. s \in Seq(A) /\ c \in A
    OBVIOUS
  <2> HIDE DEF A
  <2>2. q \in Seq(A) /\ Len(q) = n + 1 /\ n \in Nat /\ q[n + 1] = c /\ \A i \in 1 .. n : q[i] = s[i]
    BY <2>1, AppendProperties, LenProperties
  <2> QED
    BY <2>2 DEF A
<1> HIDE DEF q, A
<1>2. PICK f : FlatAt(f, U, s)
  BY FlattenFold
<1>3. PICK h : FlatAt(h, U, q)
  BY <1>1, FlattenFold
<1> USE DEF FlatAt
<1> DEFINE T == {i \in 0 .. n : h[i] = f[i]}
<1>4. 0 \in T
  BY <1>1, <1>2, <1>3
<1>5. ASSUME NEW i \in 1 .. n, i - 1 \in T PROVE i \in T
  <2>1. i \in 1 .. Len(q) /\ i \in 0 .. n
    BY <1>1
  <2>2. h[i] = h[i - 1] \o q[i] /\ f[i] = f[i - 1] \o s[i] /\ h[i - 1] = f[i - 1] /\ q[i] = s[i]
    BY <1>1, <1>2, <1>3, <1>5, <2>1
  <2> QED
    BY <2>1, <2>2
<1>6. n \in 0 .. n /\ n + 1 \in 1 .. Len(q) /\ (n + 1) - 1 = n
  BY <1>1
<1> HIDE DEF T
<1>7. n \in T
  BY <1>1, <1>4, <1>5, <1>6, UpTo
<1>8. h[n] = f[n] /\ f[n] = FlattenSeq(s) /\ f[n] \in Seq(U)
  BY <1>2, <1>6, <1>7 DEF T
<1>9. FlattenSeq(q) = h[n + 1]
  BY <1>1, <1>3
<1>10. h[n + 1] = h[n] \o q[n + 1]
  <2>1. \A i \in 1 .. Len(q) : h[i] = h[i - 1] \o q[i]
    BY <1>3
  <2>2. h[n + 1] = h[(n + 1) - 1] \o q[n + 1]
    BY <1>6, <2>1, Zenon
  <2> QED
    BY <1>6, <2>2, Zenon
<1>11. FlattenSeq(q) = f[n] \o c
  BY <1>1, <1>6, <1>8, <1>9, <1>10
<1> QED
  BY <1>8, <1>11 DEF q

-----------------------------------------------------------------------------
(* The chunks of a document cover it.                                      *)

FreshOf(chunks) == [i \in DOMAIN chunks |-> Fresh(chunks, i)]

\* What chunk c adds to those that are done.
News(done, c) == IF done = <<>> \/ Overlap = "none" THEN c ELSE Tail(c)

LEMMA FreshMore ==
  ASSUME NEW U, NEW done \in Seq(Chunky(U)), NEW c \in Chunky(U)
  PROVE  /\ FreshOf(done) \in Seq(Seq(U)) /\ News(done, c) \in Seq(U)
         /\ FreshOf(Append(done, c)) = Append(FreshOf(done), News(done, c))
<1> DEFINE n == Len(done)
           q == Append(done, c)
           C == Chunky(U)
           A == Seq(U)
<1>1. \A x \in C : x \in A /\ Tail(x) \in A
  BY HeadTailProperties DEF Chunky
<1>2. c \in C /\ done \in Seq(C)
  OBVIOUS
<1> HIDE DEF C, A
<1>3. /\ n \in Nat /\ DOMAIN done = 1 .. n /\ q \in Seq(C) /\ Len(q) = n + 1 /\ q[n + 1] = c
      /\ \A i \in 1 .. n : q[i] = done[i] /\ done[i] \in C
  BY <1>2, AppendProperties, LenProperties
<1>4. DOMAIN q = 1 .. n + 1
  BY <1>3, LenProperties
<1>5. done = <<>> <=> n = 0
  BY EmptySeq, <1>2
<1> HIDE DEF q, n
<1>6. News(done, c) \in A
  BY <1>1, <1>2 DEF News
<1> DEFINE F == FreshOf(done)
           G == FreshOf(q)
<1>7. DOMAIN F = 1 .. n /\ \A i \in 1 .. n : F[i] = Fresh(done, i)
  BY <1>3 DEF FreshOf
<1>8. DOMAIN G = 1 .. n + 1 /\ \A i \in 1 .. n + 1 : G[i] = Fresh(q, i)
  BY <1>4 DEF FreshOf
<1>9. \A i \in 1 .. n : Fresh(done, i) \in A /\ Fresh(q, i) = Fresh(done, i)
  BY <1>1, <1>3 DEF Fresh
<1>10. F \in Seq(A) /\ Len(F) = n
  <2>1. F = [i \in 1 .. n |-> F[i]]
    BY <1>3 DEF FreshOf
  <2> HIDE DEF F
  <2> QED
    BY SMTT(30), <1>3, <1>7, <1>9, <2>1
<1>11. Fresh(q, n + 1) = News(done, c)
  BY <1>3, <1>5 DEF Fresh, News
<1>12. G \in Seq(A) /\ Len(G) = n + 1
  <2>1. G = [i \in 1 .. n + 1 |-> G[i]]
    BY <1>4 DEF FreshOf
  <2>2. \A i \in 1 .. n + 1 : i \in 1 .. n \/ i = n + 1
    BY <1>3
  <2>3. \A i \in 1 .. n + 1 : G[i] \in A
    BY <1>6, <1>8, <1>9, <1>11, <2>2
  <2> HIDE DEF G
  <2> QED
    BY <1>3, <2>1, <2>3
<1> HIDE DEF F, G
<1> DEFINE R == Append(F, News(done, c))
<1>13. R \in Seq(A) /\ Len(R) = n + 1 /\ R[n + 1] = News(done, c) /\ \A i \in 1 .. n : R[i] = F[i]
  BY <1>6, <1>10, AppendProperties
<1> HIDE DEF R
<1>14. \A i \in 1 .. n + 1 : G[i] = R[i]
  <2>1. \A i \in 1 .. n + 1 : i \in 1 .. n \/ i = n + 1
    BY <1>3
  <2>2. n + 1 \in 1 .. n + 1 /\ \A i \in 1 .. n : i \in 1 .. n + 1
    BY <1>3
  <2> QED
    BY <1>7, <1>8, <1>9, <1>11, <1>13, <2>1, <2>2
<1>15. G = R
  BY <1>12, <1>13, <1>14, SeqEqual
<1> QED
  BY <1>6, <1>10, <1>15 DEF F, G, R, q, A

\* Of the chunks done: a neighbour begins with the unit the one before it ended with, and
\* each was closed as soon as it was three quarters full.
ClosedWell(chunks, i) ==
  /\ Overlap # "none" => Head(chunks[i + 1]) = Last(chunks[i])
  /\ Bytes(chunks[i]) >= Threshold
  /\ Len(chunks[i]) > 2 => Bytes(Front(chunks[i])) < Threshold

OpenWell(c) == Len(c) > 2 => Bytes(Front(c)) < Threshold

\* What is done and the open chunk are the first n units.
CoversTo(units, split, n) ==
  /\ FlattenSeq(FreshOf(Append(split.done, split.current))) = SubSeq(units, 1, n)
  /\ \A i \in 1 .. Len(split.done) : ClosedWell(Append(split.done, split.current), i)
  /\ OpenWell(split.current)

SumOf(p) == FoldLeft(+, 0, p)

LEMMA SumIs ==
  ASSUME NEW p \in Seq(Int)
  PROVE  SumOf(p) \in Int
<1> DEFINE A == Int
           st == [x \in A \X Int |-> x[1] + x[2]]
           Folds(g) == g = [s \in SUBSET (DOMAIN p) |->
                              IF s = {} THEN 0 ELSE g[s \ {Max(s)}] + p[Max(s)]]
           fold == CHOOSE g : Folds(g)
<1>1. SumOf(p) = fold[DOMAIN p]
  BY Zenon DEF SumOf, FoldLeft, MapThenFoldSet
<1>2. DOMAIN p = 1 .. Len(p) /\ Len(p) \in Nat /\ \A i \in 1 .. Len(p) : p[i] \in Int
  BY LenProperties
<1>3. 0 \in A /\ \A a \in A, m \in Int : a + m \in A
  OBVIOUS
<1> HIDE DEF A
<1>4. st \in [A \X Int -> A] /\ \A a \in A, m \in Int : st[<<a, m>>] = a + m
  BY <1>3
<1>5. Folds(fold)
  <2> HIDE DEF st
  <2>1. PICK g : Steps(g, A, Int, st, 0, p)
    BY <1>3, <1>4, FoldSteps
  <2>2. \A s \in SUBSET (DOMAIN p) : g[s] = IF s = {} THEN 0 ELSE g[s \ {Max(s)}] + p[Max(s)]
    BY <1>4, <2>1 DEF Steps
  <2>3. Folds(g)
    BY <2>1, <2>2 DEF Steps
  <2> HIDE DEF Folds
  <2> QED BY <2>3, Zenon
<1>6. FoldsIn(fold, A, st, 0, p, Len(p))
  <2> HIDE DEF fold, st
  <2>1. \A s \in SUBSET (1 .. Len(p)) : fold[s] = IF s = {} THEN 0 ELSE fold[s \ {Max(s)}] + p[Max(s)]
    BY <1>2, <1>5
  <2>2. \A s \in SUBSET (1 .. Len(p)) : s # {} => Max(s) \in 1 .. Len(p)
    BY <1>2, GreatestIn
  <2> QED
    BY <1>2, <1>4, <2>1, <2>2 DEF FoldsIn
<1>7. PICK f : ValuesOf(f, A, st, 0, p)
  <2> HIDE DEF st
  <2> QED BY <1>3, <1>4, Folding
<1> HIDE DEF st, fold, Folds
<1> QED
  BY <1>1, <1>2, <1>6, <1>7 DEF Folded, ValuesOf, A

LEMMA BytesAre ==
  ASSUME NEW P, \A p \in P : p.bytes \in Int, NEW units \in Seq(Seq(P))
  PROVE  Bytes(units) \in Int
<1>1. ASSUME NEW sizes \in Seq(Int) PROVE Joined(sizes) \in Int
  <2>1. SumOf(sizes) \in Int
    BY SumIs
  <2>2. Len(sizes) - 1 \in Int /\ Separator \in Int
    BY LenProperties, ChunksAssumption
  <2>3. Separator * (Len(sizes) - 1) \in Int
    BY <2>2
  <2>4. Joined(sizes) = SumOf(sizes) + Separator * (Len(sizes) - 1)
    BY Zenon DEF Joined, SumOf
  <2> QED
    BY <2>1, <2>3, <2>4
<1>2. ASSUME NEW unit \in Seq(P) PROVE UnitBytes(unit) \in Int
  <2> DEFINE sizes == [i \in DOMAIN unit |-> unit[i].bytes]
  <2>1. DOMAIN unit = 1 .. Len(unit) /\ Len(unit) \in Nat /\ \A i \in 1 .. Len(unit) : unit[i].bytes \in Int
    BY LenProperties
  <2>2. sizes \in Seq(Int)
    BY <2>1
  <2> HIDE DEF sizes
  <2>3. Joined(sizes) \in Int
    BY <1>1, <2>2
  <2> QED
    BY <2>3 DEF UnitBytes, sizes
<1> DEFINE sizes == [i \in DOMAIN units |-> UnitBytes(units[i])]
<1>3. DOMAIN units = 1 .. Len(units) /\ Len(units) \in Nat /\ \A i \in 1 .. Len(units) : UnitBytes(units[i]) \in Int
  BY <1>2, LenProperties
<1>4. sizes \in Seq(Int)
  BY <1>3
<1> HIDE DEF sizes
<1>5. Joined(sizes) \in Int
  BY <1>1, <1>4
<1> QED
  BY <1>5 DEF Bytes, sizes

LEMMA ClosedAlike ==
  ASSUME NEW chunks, NEW others, NEW i, ClosedWell(chunks, i),
         chunks[i] = others[i], Head(chunks[i + 1]) = Head(others[i + 1])
  PROVE  ClosedWell(others, i)
BY Zenon DEF ClosedWell

\* A unit more.
LEMMA UnitCovers ==
  ASSUME NEW P, \A p \in P : p.bytes \in Int, NEW U, U = Seq(P), NEW units \in Seq(U),
         NEW n \in Nat, n < Len(units), NEW split \in SplitType(U), CoversTo(units, split, n)
  PROVE  CoversTo(units, AddUnit(split, units[n + 1]), n + 1)
<1> DEFINE d == split.done
           c == split.current
           u == units[n + 1]
           q == Append(d, c)
           F == FlattenSeq(FreshOf(q))
           new == AddUnit(split, u)
<1>1. n + 1 \in 1 .. Len(units) /\ n \in 0 .. Len(units) /\ n + 1 - n = 1
  BY LenProperties
<1>2. u \in U /\ Append(SubSeq(units, 1, n), u) = SubSeq(units, 1, n + 1)
  BY <1>1, Beginning, LenProperties
<1>3. /\ F = SubSeq(units, 1, n) /\ OpenWell(c)
      /\ \A i \in 1 .. Len(d) : ClosedWell(q, i)
  BY DEF CoversTo
<1>4. d \in Seq(Chunky(U)) /\ c \in Chunky(U) /\ c \in Seq(U) /\ c # <<>>
  BY DEF SplitType, Chunky
<1>5. Bytes(c) \in Int /\ Threshold \in Int
  <2>1. c \in Seq(Seq(P))
    BY <1>4
  <2>2. Bytes(c) \in Int
    BY <2>1, BytesAre
  <2> QED
    BY <2>2, ChunksAssumption DEF Threshold
<1> HIDE DEF u, F
<1>6. AddUnit(split, u) = IF Bytes(c) >= Threshold
                          THEN [done |-> q, current |-> NextChunk(c, u)]
                          ELSE [split EXCEPT !.current = Append(@, u)]
  BY Zenon DEF AddUnit
<1> HIDE DEF d, c
<1>7. /\ FreshOf(d) \in Seq(Seq(U)) /\ News(d, c) \in Seq(U)
      /\ FreshOf(q) = Append(FreshOf(d), News(d, c))
  BY <1>4, FreshMore
<1>8. /\ q \in Seq(Chunky(U)) /\ Len(q) = Len(d) + 1 /\ Len(d) \in Nat /\ q[Len(d) + 1] = c /\ q # <<>>
      /\ \A i \in 1 .. Len(d) : q[i] = d[i]
  <2> DEFINE C == Chunky(U)
  <2> HIDE DEF C
  <2>1. d \in Seq(C) /\ c \in C
    BY <1>4 DEF C
  <2> QED
    BY <2>1, AppendProperties, LenProperties DEF C
<1>9. F = FlattenSeq(FreshOf(d)) \o News(d, c) /\ FlattenSeq(FreshOf(d)) \in Seq(U)
  BY <1>7, FlattenMore DEF F
<1> HIDE DEF q
<1>10. CASE Bytes(c) >= Threshold
  <2> DEFINE e == NextChunk(c, u)
             r == Append(q, e)
  <2>1. AddUnit(split, u) = [done |-> q, current |-> e]
    BY <1>6, <1>10
  <2>2. Last(c) \in U
    BY <1>4, LenProperties, EmptySeq DEF Last
  <2>3. e \in Chunky(U)
    BY <1>2, <2>2 DEF NextChunk, Chunky
  <2>4. News(q, e) = <<u>>
    BY <1>8 DEF News, NextChunk
  <2>5. Overlap # "none" => Head(e) = Last(c)
    BY DEF NextChunk
  <2>6. OpenWell(e)
    <3>1. ~(Len(e) > 2)
      BY DEF NextChunk
    <3> QED
      BY <3>1 DEF OpenWell
  <2> HIDE DEF e
  <2>7. FreshOf(r) = Append(FreshOf(q), <<u>>) /\ FreshOf(q) \in Seq(Seq(U))
    BY <1>8, <2>3, <2>4, FreshMore
  <2>8. FlattenSeq(FreshOf(r)) = F \o <<u>> /\ F \in Seq(U)
    <3>1. <<u>> \in Seq(U)
      BY <1>2
    <3>2. FlattenSeq(Append(FreshOf(q), <<u>>)) = F \o <<u>> /\ F \in Seq(U)
      BY <2>7, <3>1, FlattenMore DEF F
    <3> QED
      BY <2>7, <3>2
  <2>9. FlattenSeq(FreshOf(r)) = SubSeq(units, 1, n + 1)
    BY <1>2, <1>3, <2>8, AppendIsConcat
  <2>10. /\ Len(r) = Len(q) + 1 /\ r[Len(q) + 1] = e
         /\ \A i \in 1 .. Len(q) : r[i] = q[i]
    <3> DEFINE C == Chunky(U)
    <3> HIDE DEF C
    <3>1. q \in Seq(C) /\ e \in C
      BY <1>8, <2>3 DEF C
    <3> QED
      BY <3>1, AppendProperties
  <2> HIDE DEF r
  <2>11. ASSUME NEW i \in 1 .. Len(q) PROVE ClosedWell(r, i)
    <3>1. CASE i \in 1 .. Len(d)
      <4>1. i \in 1 .. Len(q) /\ i + 1 \in 1 .. Len(q)
        BY <1>8, <3>1
      <4>2. r[i] = q[i] /\ r[i + 1] = q[i + 1]
        BY <2>10, <4>1
      <4>3. ClosedWell(q, i)
        BY <1>3, <3>1 DEF q
      <4> QED
        BY <4>2, <4>3, ClosedAlike
    <3>2. CASE i = Len(q)
      <4>1. r[i] = c /\ r[i + 1] = e
        BY <1>8, <2>10, <3>2
      <4> QED
        BY <1>3, <1>10, <2>5, <4>1, Zenon DEF ClosedWell, OpenWell
    <3>3. i \in 1 .. Len(d) \/ i = Len(q)
      BY <1>8
    <3> QED
      BY <3>1, <3>2, <3>3
  <2> DEFINE new2 == [done |-> q, current |-> e]
  <2>12. new2.done = q /\ new2.current = e
    OBVIOUS
  <2>13. CoversTo(units, new2, n + 1)
    <3> HIDE DEF new2
    <3> QED
      BY <2>6, <2>9, <2>11, <2>12 DEF CoversTo, r
  <2> QED
    BY <2>1, <2>13 DEF u
<1>11. CASE ~(Bytes(c) >= Threshold)
  <2> DEFINE e == Append(c, u)
             r == Append(d, e)
             new2 == [split EXCEPT !.current = Append(@, u)]
  <2>1. AddUnit(split, u) = new2
    BY <1>6, <1>11
  <2>2. new2.done = d /\ new2.current = e
    BY DEF SplitType, d, c
  <2> HIDE DEF new2
  <2>3. e \in Chunky(U) /\ Len(e) = Len(c) + 1 /\ Len(c) \in Nat
    <3>1. c \in Seq(U) /\ u \in U
      BY <1>2, <1>4
    <3>2. e \in Seq(U) /\ e # <<>> /\ Len(e) = Len(c) + 1 /\ Len(c) \in Nat
      BY <3>1, AppendProperties, LenProperties
    <3> QED
      BY <3>2 DEF Chunky
  <2>4. Head(e) = Head(c) /\ Tail(e) = Append(Tail(c), u)
    BY <1>4, HeadTailAppend
  <2>5. News(d, e) = Append(News(d, c), u)
    BY <2>4 DEF News
  <2>6. Front(e) = c
    <3>1. e \in Seq(U) /\ Len(c) \in 0 .. Len(e) /\ \A i \in 1 .. Len(c) : e[i] = c[i]
      BY <1>2, <1>4, <2>3, AppendProperties
    <3> HIDE DEF e
    <3>2. /\ SubSeq(e, 1, Len(c)) \in Seq(U) /\ Len(SubSeq(e, 1, Len(c))) = Len(c)
          /\ \A i \in 1 .. Len(c) : SubSeq(e, 1, Len(c))[i] = e[i]
      BY <3>1, Beginning
    <3>3. SubSeq(e, 1, Len(c)) = c
      BY <1>4, <3>1, <3>2, SeqEqual
    <3>4. Len(e) - 1 = Len(c)
      BY <2>3
    <3> QED
      BY <3>3, <3>4, Zenon DEF Front
  <2>7. OpenWell(e)
    <3>1. Bytes(c) < Threshold
      BY <1>5, <1>11
    <3> QED
      BY <2>6, <3>1, Zenon DEF OpenWell
  <2> HIDE DEF e
  <2>8. FreshOf(r) = Append(FreshOf(d), Append(News(d, c), u))
    BY <1>4, <2>3, <2>5, FreshMore
  <2>9. FlattenSeq(FreshOf(r)) = Append(F, u)
    <3> DEFINE a == FlattenSeq(FreshOf(d))
               b == News(d, c)
    <3>1. Append(b, u) \in Seq(U) /\ Append(b, u) = b \o <<u>> /\ <<u>> \in Seq(U) /\ b \in Seq(U) /\ a \in Seq(U)
      BY <1>2, <1>7, <1>9, AppendProperties, AppendIsConcat
    <3>2. FlattenSeq(FreshOf(r)) = a \o Append(b, u)
      BY <1>7, <2>8, <3>1, FlattenMore
    <3> HIDE DEF a, b
    <3>3. a \o (b \o <<u>>) = (a \o b) \o <<u>>
      BY <3>1, ConcatAssociative
    <3>4. F = a \o b /\ F \in Seq(U)
      BY <1>9, <3>1, ConcatProperties DEF a, b
    <3>5. Append(F, u) = F \o <<u>>
      BY <1>2, <3>4, AppendIsConcat
    <3> QED
      BY <3>1, <3>2, <3>3, <3>4, <3>5
  <2>10. /\ Len(r) = Len(d) + 1 /\ r[Len(d) + 1] = e
         /\ \A i \in 1 .. Len(d) : r[i] = d[i]
    <3> DEFINE C == Chunky(U)
    <3> HIDE DEF C
    <3>1. d \in Seq(C) /\ e \in C
      BY <1>4, <2>3 DEF C
    <3> QED
      BY <3>1, AppendProperties
  <2> HIDE DEF r
  <2>11. ASSUME NEW i \in 1 .. Len(d) PROVE ClosedWell(r, i)
    <3>1. r[i] = q[i]
      BY <1>8, <2>10
    <3>2. Head(r[i + 1]) = Head(q[i + 1])
      <4>1. i + 1 \in 1 .. Len(d) \/ i + 1 = Len(d) + 1
        BY <1>8
      <4>2. CASE i + 1 \in 1 .. Len(d)
        BY <1>8, <2>10, <4>2
      <4>3. CASE i + 1 = Len(d) + 1
        BY <1>8, <2>4, <2>10, <4>3
      <4> QED
        BY <4>1, <4>2, <4>3
    <3>3. ClosedWell(q, i)
      BY <1>3 DEF q
    <3> QED
      BY <3>1, <3>2, <3>3, ClosedAlike
  <2>12. FlattenSeq(FreshOf(r)) = SubSeq(units, 1, n + 1)
    BY <1>2, <1>3, <2>9
  <2>13. CoversTo(units, new2, n + 1)
    BY <2>2, <2>7, <2>11, <2>12 DEF CoversTo, r
  <2> QED
    BY <2>1, <2>13 DEF u
<1> QED
  BY <1>10, <1>11

Paragraph == [bytes : Nat \ {0}, closes : BOOLEAN]

\* The chunks of any document are a sequence, and are the document.
LEMMA DocumentCovered ==
  ASSUME NEW d, IsDocument(d)
  PROVE  ChunkDocument(d) \in Seq(Seq(Seq(Paragraph))) /\ Covers(d)
<1> DEFINE P == Paragraph
           U == Seq(P)
           units == Units(d)
           chunks == ChunkDocument(d)
<1>1. \A p \in P : p.bytes \in Int
  BY DEF Paragraph
<1>2. units \in Seq(U)
  <2>1. d.paragraphs \in Seq(P)
    BY DEF IsDocument, Paragraph
  <2> HIDE DEF P
  <2>2. PICK f : UnitsAt(f, P, d, d.paragraphs)
    BY <2>1, UnitsFold
  <2>3. Len(d.paragraphs) \in 0 .. Len(d.paragraphs)
    BY <2>1, LenProperties
  <2> QED
    BY <2>2, <2>3 DEF UnitsAt
<1>3. FlattenSeq(<<>>) = <<>> /\ FreshOf(<<>>) = <<>>
  <2>1. FlattenSeq(<<>>) = <<>>
    BY Zenon, EmptySeq DEF FlattenSeq
  <2>2. FreshOf(<<>>) = <<>>
    BY DEF FreshOf
  <2> QED
    BY <2>1, <2>2
<1>4. Covers(d) <=> /\ FlattenSeq(FreshOf(chunks)) = units
                    /\ \A i \in 1 .. Len(chunks) - 1 : ClosedWell(chunks, i)
  BY Zenon DEF Covers, FreshOf, ClosedWell
<1>5. chunks = IF units = <<>> THEN << <<>> >> ELSE Append(Split(units).done, Split(units).current)
  BY Zenon DEF ChunkDocument, Split
<1> HIDE DEF units, chunks, P
<1>6. CASE units = <<>>
  <2>1. chunks = << <<>> >>
    BY <1>5, <1>6
  <2>2. chunks \in Seq(Seq(U)) /\ Len(chunks) = 1 /\ 1 .. Len(chunks) - 1 = {}
    BY <2>1
  <2>3. FreshOf(chunks) = Append(<<>>, <<>>)
    <3>1. DOMAIN chunks = {1} /\ chunks[1] = <<>>
      BY <2>1
    <3>2. FreshOf(chunks) = [i \in {1} |-> <<>>]
      BY <3>1 DEF FreshOf, Fresh
    <3>3. [i \in {1} |-> <<>>] = << <<>> >>
      OBVIOUS
    <3> QED
      BY <3>2, <3>3
  <2>4. FlattenSeq(Append(<<>>, <<>>)) = <<>> \o <<>>
    <3>1. <<>> \in Seq(Seq(U)) /\ <<>> \in Seq(U)
      OBVIOUS
    <3>2. FlattenSeq(Append(<<>>, <<>>)) = FlattenSeq(<<>>) \o <<>>
      BY <3>1, FlattenMore
    <3> QED
      BY <1>3, <3>2
  <2>5. FlattenSeq(FreshOf(chunks)) = units
    BY <1>6, <2>3, <2>4
  <2>6. Covers(d)
    BY <1>4, <2>2, <2>5
  <2> QED
    BY <2>2, <2>6 DEF chunks, P
<1>7. CASE units # <<>>
  <2> DEFINE first == Head(units)
             p == Tail(units)
  <2>1. /\ first \in U /\ p \in Seq(U) /\ Len(p) = Len(units) - 1 /\ \A i \in 1 .. Len(p) : p[i] = units[i + 1]
        /\ Len(units) \in Nat \ {0} /\ first = units[1]
    <3> HIDE DEF U
    <3>1. Len(units) \in Nat \ {0}
      BY <1>2, <1>7, EmptySeq, LenProperties
    <3> QED
      BY <1>2, <1>7, <3>1, HeadTailProperties
  <2>2. PICK f : SplitAt(f, U, units, first, p)
    <3> HIDE DEF U
    <3> QED
      BY <2>1, SplitFold
  <2> HIDE DEF first, p
  <2>3. Len(p) \in Nat /\ Len(p) + 1 = Len(units)
    BY <2>1
  <2>4. /\ f \in [0 .. Len(p) -> SplitType(U)]
        /\ f[0] = [done |-> <<>>, current |-> <<first>>] /\ Split(units) = f[Len(p)]
        /\ \A i \in 1 .. Len(p) : f[i] = AddUnit(f[i - 1], p[i])
    BY <2>2 DEF SplitAt
  <2> DEFINE T == {i \in 0 .. Len(p) : CoversTo(units, f[i], i + 1)}
  <2>5. 0 \in T
    <3> DEFINE s == [done |-> <<>>, current |-> <<first>>]
               q == Append(<<>>, <<first>>)
    <3>1. s.done = <<>> /\ s.current = <<first>>
      OBVIOUS
    <3>2. <<>> \in Seq(Chunky(U)) /\ <<first>> \in Chunky(U) /\ <<first>> \in Seq(U)
      BY <2>1 DEF Chunky
    <3>3. FreshOf(q) = Append(<<>>, <<first>>)
      <4>1. FreshOf(q) = Append(FreshOf(<<>>), News(<<>>, <<first>>))
        BY <3>2, FreshMore
      <4>2. News(<<>>, <<first>>) = <<first>>
        BY DEF News
      <4> QED
        BY <1>3, <4>1, <4>2
    <3>4. FlattenSeq(FreshOf(q)) = <<>> \o <<first>>
      <4>1. <<>> \in Seq(Seq(U))
        OBVIOUS
      <4>2. FlattenSeq(Append(<<>>, <<first>>)) = FlattenSeq(<<>>) \o <<first>>
        BY <3>2, <4>1, FlattenMore
      <4> QED
        BY <1>3, <3>3, <4>2
    <3>5. <<>> \o <<first>> = <<first>>
      BY <3>2, ConcatEmptySeq
    <3>6. SubSeq(units, 1, 1) = <<first>>
      <4>1. 0 \in 0 .. Len(units) /\ 0 < Len(units) /\ 0 + 1 = 1
        BY <2>1
      <4>2. Append(SubSeq(units, 1, 0), units[0 + 1]) = SubSeq(units, 1, 0 + 1)
        BY <1>2, <4>1, Beginning
      <4>3. SubSeq(units, 1, 0) = <<>>
        OBVIOUS
      <4>4. Append(<<>>, first) = SubSeq(units, 1, 1)
        BY <2>1, <4>1, <4>2, <4>3
      <4>5. Append(<<>>, first) = <<first>>
        OBVIOUS
      <4> QED
        BY <4>4, <4>5
    <3>7. OpenWell(<<first>>)
      <4>1. Len(<<first>>) = 1
        OBVIOUS
      <4> QED
        BY <4>1 DEF OpenWell
    <3>8. 1 .. Len(<<>>) = {}
      OBVIOUS
    <3> HIDE DEF s
    <3>9. CoversTo(units, s, 1)
      BY <3>1, <3>4, <3>5, <3>6, <3>7, <3>8 DEF CoversTo
    <3>10. 0 \in 0 .. Len(p) /\ f[0] = s /\ 0 + 1 = 1
      BY <2>3, <2>4 DEF s
    <3>11. CoversTo(units, f[0], 0 + 1)
      BY <3>9, <3>10
    <3> QED
      BY <3>10, <3>11
  <2>6. ASSUME NEW i \in 1 .. Len(p), i - 1 \in T PROVE i \in T
    <3>1. i \in 0 .. Len(p) /\ i - 1 \in 0 .. Len(p) /\ (i - 1) + 1 = i /\ i \in Nat /\ i < Len(units)
      BY <2>3
    <3>2. CoversTo(units, f[i - 1], i) /\ f[i - 1] \in SplitType(U) /\ p[i] = units[i + 1]
      BY <2>1, <2>4, <2>6, <3>1
    <3>3. CoversTo(units, AddUnit(f[i - 1], units[i + 1]), i + 1)
      BY <1>1, <1>2, <3>1, <3>2, UnitCovers
    <3>4. f[i] = AddUnit(f[i - 1], units[i + 1])
      BY <2>4, <3>2
    <3>5. CoversTo(units, f[i], i + 1)
      BY <3>3, <3>4
    <3> QED
      BY <3>1, <3>5
  <2>7. Len(p) \in 0 .. Len(p)
    BY <2>3
  <2> HIDE DEF T
  <2>8. Len(p) \in T
    BY <2>3, <2>5, <2>6, <2>7, UpTo
  <2> DEFINE split == Split(units)
  <2>9. CoversTo(units, split, Len(units)) /\ split \in SplitType(U)
    <3>1. CoversTo(units, f[Len(p)], Len(p) + 1)
      BY <2>8 DEF T
    <3>2. split = f[Len(p)] /\ split \in SplitType(U)
      BY <2>4, <2>7
    <3> HIDE DEF split
    <3> QED
      BY <2>3, <3>1, <3>2
  <2> HIDE DEF split
  <2>10. chunks = Append(split.done, split.current)
    BY <1>5, <1>7 DEF split
  <2>11. chunks \in Seq(Chunky(U)) /\ Len(chunks) - 1 = Len(split.done)
    <3> DEFINE C == Chunky(U)
    <3> HIDE DEF C
    <3>1. split.done \in Seq(C) /\ split.current \in C
      BY <2>9 DEF SplitType, C
    <3>2. chunks \in Seq(C) /\ Len(chunks) = Len(split.done) + 1 /\ Len(split.done) \in Nat
      BY <2>10, <3>1, AppendProperties, LenProperties
    <3> QED
      BY <3>2 DEF C
  <2>12. FlattenSeq(FreshOf(chunks)) = SubSeq(units, 1, Len(units)) /\ \A i \in 1 .. Len(split.done) : ClosedWell(chunks, i)
    BY <2>9, <2>10 DEF CoversTo
  <2>13. SubSeq(units, 1, Len(units)) = units
    BY <1>2, SubSeqFull
  <2>14. Covers(d)
    BY <1>4, <2>11, <2>12, <2>13
  <2>15. chunks \in Seq(Seq(U))
    BY <2>11 DEF Chunky
  <2> QED
    BY <2>14, <2>15 DEF chunks, P
<1> QED
  BY <1>6, <1>7

-----------------------------------------------------------------------------
(* What is true of a message being put together. *)

Named == DOMAIN Files \cup {"none"}

PartOf == [file : Named \cup Seq(DOMAIN Files), as : {"whole", "analysis", "note"}]

TurnType ==
  [stage : {"idle", "begun", "files", "asking", "told", "chunks", "sent"}, unattended : BOOLEAN,
   todo : Seq(DOMAIN Files), seen : SUBSET DOMAIN Files, total : Nat, taken : Nat,
   parts : Seq(PartOf), skipped : Seq(DOMAIN Files)]

ChunksOf == Seq(Seq(Seq(Paragraph)))

AnalysisType ==
  [by : {"none", "turn", "command", "tool"}, file : Named, todo : ChunksOf,
   results : Nat, lent : BOOLEAN]

ModelNames == {mention.name : mention \in NamedModels} \cup {"own"}

ContextTypes ==
  /\ used \in Int /\ pending \in BOOLEAN /\ model \in ModelNames /\ turns \in 0 .. MaxTurns
  /\ turn \in TurnType /\ analysis \in AnalysisType

\* Who an analysis is for, by where the message is.
AnalysedFor ==
  /\ turn.stage \in {"idle", "begun", "files", "sent"} => analysis.by = "none"
  /\ turn.stage = "asking" => analysis.by \in {"turn", "tool"}
  /\ turn.stage = "told" => analysis.by = "command"
  /\ turn.stage = "chunks" => analysis.by # "none"
  /\ turn.stage \in {"asking", "told", "chunks"} => analysis.file \in DOMAIN Files
  /\ turn.stage \in {"asking", "told"} => analysis.results = 0

\* Files are taken from what was left when the message was begun, and the conversation does
\* not grow while it is put together.
RoomKept ==
  /\ turn.stage = "files" \/ analysis.by = "turn" => turn.total = TurnBudget(used) /\ turn.taken <= turn.total
  /\ turn.stage = "told" \/ analysis.by = "command" => turn.taken = 0

RecalledFrom ==
  recalled # NoRecall =>
    \E store \in Stores, kb \in KBs, embedder \in BOOLEAN :
      recalled = [results |-> UnifiedRecall(store, kb, embedder, MemoryBudget), store |-> store, kb |-> kb,
                  budget |-> MemoryBudget, told |-> LogRecall(UnifiedRecall(store, kb, embedder, MemoryBudget), kb)]

ContextInv ==
  ContextTypes /\ AnalysedFor /\ RoomKept /\ RecalledFrom /\ LentForAnalysis /\ AnalysedWhole

-----------------------------------------------------------------------------
(* What the constants and the operators of the model give. *)

LEMMA Constants ==
  /\ \A f \in DOMAIN Files :
       /\ f \in Named /\ Files[f].tokens \in Nat /\ IsDocument(Files[f].document)
       /\ ChunkDocument(Files[f].document) \in ChunksOf /\ Covers(Files[f].document)
  /\ Prompts \subseteq Seq(DOMAIN Files) /\ MaxTurns \in Nat /\ Window \in Nat
  /\ MemoryBudget \in Nat /\ Margin \in Nat /\ \A n \in Int : TurnBudget(n) \in Nat
  /\ \A mention \in NamedModels : mention.name \in ModelNames
<1>1. /\ \A f \in DOMAIN Files : Files[f].tokens \in Nat /\ IsDocument(Files[f].document)
      /\ Prompts \subseteq Seq(DOMAIN Files) /\ MaxTurns \in Nat /\ Window \in Nat
      /\ MemoryShare \in Nat \ {0} /\ DefaultBudget \in Nat /\ DefaultRemaining \in Nat
      /\ NamedModels \subseteq [name : STRING, found : {"lent", "route", "no"}]
  BY TurnContextAssumption
<1>2. MemoryBudget \in Nat /\ Margin \in Nat
  BY <1>1 DEF MemoryBudget, Margin
<1>3. \A n \in Int : TurnBudget(n) \in Nat
  BY <1>1, <1>2 DEF TurnBudget, RemainingOf
<1>4. \A f \in DOMAIN Files : ChunkDocument(Files[f].document) \in ChunksOf /\ Covers(Files[f].document)
  BY <1>1, DocumentCovered DEF ChunksOf
<1>5. \A mention \in NamedModels : mention.name \in ModelNames
  BY DEF ModelNames
<1> QED
  BY <1>1, <1>2, <1>3, <1>4, <1>5 DEF Named

LEMMA TokensAre ==
  ASSUME NEW S, \A m \in S : m.tokens \in Nat, NEW p \in Seq(S)
  PROVE  Tokens(p) \in Nat
<1>1. PICK f : TokensAt(f, p)
  BY TokensFold
<1>2. Len(p) \in 0 .. Len(p)
  BY LenProperties
<1> QED
  BY <1>1, <1>2 DEF TokensAt

LEMMA RecallTokens ==
  ASSUME NEW store \in Stores, NEW kb \in KBs, NEW embedder \in BOOLEAN
  PROVE  Tokens(UnifiedRecall(store, kb, embedder, MemoryBudget)) \in Nat
<1> DEFINE c == Recallables(store, kb, embedder)
           r == UnifiedRecall(store, kb, embedder, MemoryBudget)
           S == Memory \cup KBRow
<1>1. IsStore(store) /\ IsAnswer(kb.concepts) /\ IsAnswer(kb.observations)
  BY TurnContextAssumption
<1>2. c \in Seq(S) /\ IsInjective(c)
  BY <1>1, CandidatesAre
<1>3. r = Recalled(c, MemoryBudget)
  BY DEF UnifiedRecall, Recallables
<1>4. \A m \in S : m.tokens \in Nat
  BY DEF Memory, KBRow
<1>5. MemoryBudget \in Nat
  BY Constants
<1> HIDE DEF c, r, S
<1>6. PICK k : Reaches(c, k, MemoryBudget) /\ r = SubSeq(c, 1, k)
  BY <1>2, <1>3, <1>4, <1>5, RecalledReaches
<1>7. r \in Seq(S)
  BY <1>2, <1>6, BeginningOf DEF Reaches
<1>8. Tokens(r) \in Nat
  BY <1>4, <1>7, TokensAre
<1> QED
  BY <1>8 DEF r

LEMMA MessageTokensAre ==
  ASSUME NEW t \in TurnType
  PROVE  MessageTokens(t) \in Nat
<1> DEFINE T == {i \in DOMAIN t.parts : t.parts[i].as # "whole"}
<1>1. t.taken \in Nat /\ t.parts \in Seq(PartOf)
  BY DEF TurnType
<1>2. DOMAIN t.parts = 1 .. Len(t.parts) /\ Len(t.parts) \in Nat
  BY <1>1, LenProperties
<1>3. IsFiniteSet(1 .. Len(t.parts))
  <2>1. 1 \in Int /\ Len(t.parts) \in Int
    BY <1>2
  <2> QED
    BY <2>1, FS_Interval
<1>4. T \in SUBSET (1 .. Len(t.parts))
  BY <1>2
<1> HIDE DEF T
<1>5. Cardinality(T) \in Nat
  <2>1. IsFiniteSet(T)
    BY <1>3, <1>4, FS_Subset
  <2> QED
    BY <2>1, FS_CardinalityType
<1>6. MessageTokens(t) = 1 + t.taken + Cardinality(T)
  BY DEF MessageTokens, T
<1> QED
  BY <1>1, <1>5, <1>6

-----------------------------------------------------------------------------
(* The types, and who an analysis is for.                                  *)

LEMMA Blanks ==
  /\ NoTurn \in TurnType /\ NoTurn.stage = "idle" /\ NoTurn.taken = 0 /\ NoTurn.parts = <<>>
  /\ NoAnalysis \in AnalysisType /\ NoAnalysis.by = "none" /\ NoAnalysis.results = 0
<1>1. <<>> \in Seq(DOMAIN Files) /\ <<>> \in Seq(PartOf)
  OBVIOUS
<1>6. <<>> \in ChunksOf
  <2> DEFINE C == Seq(Seq(Paragraph))
  <2> HIDE DEF C
  <2>1. <<>> \in Seq(C)
    OBVIOUS
  <2> QED
    BY <2>1 DEF C, ChunksOf
<1>2. NoTurn \in TurnType
  BY <1>1 DEF NoTurn, TurnType
<1>3. NoAnalysis \in AnalysisType
  BY <1>6 DEF NoAnalysis, AnalysisType, Named
<1>4. NoTurn.stage = "idle" /\ NoTurn.taken = 0 /\ NoTurn.parts = <<>>
  BY DEF NoTurn
<1>5. NoAnalysis.by = "none" /\ NoAnalysis.results = 0
  BY DEF NoAnalysis
<1> QED
  BY <1>2, <1>3, <1>4, <1>5

LEMMA PartAdded ==
  ASSUME NEW t \in TurnType, NEW part \in PartOf
  PROVE  Append(t.parts, part) \in Seq(PartOf)
<1>1. t.parts \in Seq(PartOf)
  BY DEF TurnType
<1> QED
  BY <1>1, AppendProperties

LEMMA FileNext ==
  ASSUME NEW t \in TurnType, turn \in TurnType, t.todo = turn.todo, turn.todo # <<>>
  PROVE  /\ Nexts(t) \in TurnType /\ Nexts(t).stage = t.stage
         /\ Nexts(t).taken = t.taken /\ Nexts(t).total = t.total
<1>1. Head(turn.todo) \in DOMAIN Files /\ Tail(t.todo) \in Seq(DOMAIN Files)
  <2>1. t.todo \in Seq(DOMAIN Files)
    BY DEF TurnType
  <2> QED
    BY <2>1, HeadTailProperties
<1>2. t.seen \cup {Head(turn.todo)} \in SUBSET DOMAIN Files
  BY <1>1 DEF TurnType
<1> QED
  BY <1>1, <1>2 DEF Nexts, TurnType

\* An analysis that ends gives the turn back its stage.
LEMMA ConcludedTypes ==
  ASSUME ContextTypes, AnalysedFor, turn.stage \in {"asking", "told", "chunks"},
         NEW result \in {"synthesis", "none"}, Concluded(result)
  PROVE  /\ ContextTypes' /\ AnalysedFor' /\ turn'.stage \in {"files", "sent", "idle"}
         /\ turn'.stage = "files" => analysis.by = "turn" /\ used' = used /\ turn'.taken = turn.taken /\ turn'.total = turn.total
<1> DEFINE n == IF result = "none" THEN 0 ELSE 1
           ended == CASE analysis.by = "turn" ->
                           [turn EXCEPT !.stage = "files",
                              !.parts = IF n = 0 THEN @ ELSE Append(@, Part(analysis.file, "analysis"))]
                      [] analysis.by = "tool" -> [turn EXCEPT !.stage = "sent"]
                      [] OTHER -> NoTurn
<1>1. /\ analysis' = NoAnalysis /\ model' = "own" /\ turn' = ended
      /\ used' = (IF analysis.by = "turn" THEN used ELSE used + n) /\ UNCHANGED <<pending, recalled, turns>>
  BY DEF Concluded, Restored
<1>2. n \in Nat
  OBVIOUS
<1> HIDE DEF n
<1>3. used' \in Int /\ model' \in ModelNames /\ analysis' \in AnalysisType /\ analysis'.by = "none"
  <2>1. used' = used \/ used' = used + n
    BY <1>1
  <2>2. "own" \in ModelNames
    BY DEF ModelNames
  <2> QED
    BY <1>1, <1>2, <2>1, <2>2, Blanks DEF ContextTypes
<1>4. Append(turn.parts, Part(analysis.file, "analysis")) \in Seq(PartOf)
  <2>1. Part(analysis.file, "analysis") \in PartOf
    BY DEF Part, PartOf, ContextTypes, AnalysisType
  <2> QED
    BY <2>1, PartAdded DEF ContextTypes
<1>5. analysis.by \in {"turn", "command", "tool"}
  BY DEF AnalysedFor, ContextTypes, AnalysisType
<1>6. CASE analysis.by = "turn"
  <2>1. turn' = [turn EXCEPT !.stage = "files",
                   !.parts = IF n = 0 THEN @ ELSE Append(@, Part(analysis.file, "analysis"))]
    BY <1>1, <1>6
  <2>2. (IF n = 0 THEN turn.parts ELSE Append(turn.parts, Part(analysis.file, "analysis"))) \in Seq(PartOf)
    BY <1>4 DEF ContextTypes, TurnType
  <2>3. turn' \in TurnType /\ turn'.stage = "files" /\ turn'.taken = turn.taken /\ turn'.total = turn.total
    BY <2>1, <2>2 DEF ContextTypes, TurnType
  <2> QED
    BY <1>1, <1>3, <1>6, <2>3 DEF ContextTypes, AnalysedFor
<1>7. CASE analysis.by = "tool"
  <2>1. turn' = [turn EXCEPT !.stage = "sent"]
    BY <1>1, <1>7
  <2>2. turn' \in TurnType /\ turn'.stage = "sent"
    BY <2>1 DEF ContextTypes, TurnType
  <2> QED
    BY <1>1, <1>3, <2>2 DEF ContextTypes, AnalysedFor
<1>8. CASE analysis.by = "command"
  <2>1. turn' = NoTurn
    BY <1>1, <1>8
  <2>2. turn' \in TurnType /\ turn'.stage = "idle"
    BY <2>1, Blanks
  <2> QED
    BY <1>1, <1>3, <2>2 DEF ContextTypes, AnalysedFor
<1> QED
  BY <1>5, <1>6, <1>7, <1>8

LEMMA TurnCounted ==
  ASSUME NEW n \in Nat, NEW m \in 0 .. n, m < n
  PROVE  m + 1 \in 0 .. n
  OBVIOUS

LEMMA TypesKept ==
  ASSUME ContextTypes, AnalysedFor, ContextNext
  PROVE  ContextTypes' /\ AnalysedFor'
<1> USE DEF ContextTypes, AnalysedFor
<1>1. CASE Begin
  <2>1. turn' = [NoTurn EXCEPT !.stage = "begun"] /\ pending' \in BOOLEAN
        /\ UNCHANGED <<model, analysis>> /\ analysis.by = "none"
    BY <1>1 DEF Begin
  <2>2. turn' \in TurnType /\ turn'.stage = "begun"
    BY <2>1, Blanks DEF TurnType
  <2>4. turns' \in 0 .. MaxTurns
    BY <1>1, Constants, TurnCounted DEF Begin
  <2>3. used' \in Int
    <3>1. CASE pending
      <4>1. PICK store \in Stores, kb \in KBs, embedder \in BOOLEAN :
              used' = used + Tokens(UnifiedRecall(store, kb, embedder, MemoryBudget))
        BY <1>1, <3>1 DEF Begin
      <4>2. Tokens(UnifiedRecall(store, kb, embedder, MemoryBudget)) \in Nat
        BY RecallTokens
      <4> QED
        BY <4>1, <4>2
    <3>2. CASE ~pending
      BY <1>1, <3>2 DEF Begin
    <3> QED
      BY <3>1, <3>2
  <2> QED
    BY <2>1, <2>2, <2>3, <2>4
<1>2. CASE Mention
  <2>1. PICK p \in Prompts, unattended \in BOOLEAN, reliable \in BOOLEAN :
          turn' = [NoTurn EXCEPT !.stage = "files", !.unattended = unattended,
                     !.todo = IF reliable THEN <<>> ELSE p, !.total = TurnBudget(used)]
    BY <1>2 DEF Mention
  <2>2. p \in Seq(DOMAIN Files) /\ TurnBudget(used) \in Nat
    BY Constants
  <2> DEFINE todo == IF reliable THEN <<>> ELSE p
  <2>4. todo \in Seq(DOMAIN Files)
    <3>1. <<>> \in Seq(DOMAIN Files)
      OBVIOUS
    <3>2. CASE reliable
      BY <3>1, <3>2
    <3>3. CASE ~reliable
      BY <2>2, <3>3
    <3> QED
      BY <3>2, <3>3
  <2>5. turn' = [NoTurn EXCEPT !.stage = "files", !.unattended = unattended,
                   !.todo = todo, !.total = TurnBudget(used)]
    BY <2>1
  <2> HIDE DEF todo
  <2>3. turn' \in TurnType /\ turn'.stage = "files"
    BY <2>2, <2>4, <2>5, Blanks DEF TurnType
  <2> QED
    BY <1>2, <2>3 DEF Mention
<1>3. ASSUME NEW f \in DOMAIN Files, AsksFor(f) PROVE turn \in TurnType /\ turn.todo # <<>> /\ turn.stage = "files" /\ f \in Named
  BY <1>3, Constants DEF AsksFor
<1>4. CASE PassOver
  <2>1. PICK f \in DOMAIN Files : AsksFor(f) /\ turn' = Nexts(turn) /\ UNCHANGED <<model, analysis>>
    BY <1>4 DEF PassOver
  <2>2. turn' \in TurnType /\ turn'.stage = "files"
    BY <1>3, <2>1, FileNext
  <2> QED
    BY <2>1, <2>2 DEF AsksFor
<1>5. CASE TakeWhole
  <2> DEFINE whole(f) == [turn EXCEPT !.taken = @ + Files[f].tokens, !.parts = Append(@, Part(f, "whole"))]
             without(f) == [turn EXCEPT !.skipped = Append(@, f)]
  <2>1. PICK f \in DOMAIN Files :
          AsksFor(f) /\ turn' = (IF Reserve(Files[f].tokens) THEN Nexts(whole(f)) ELSE Nexts(without(f)))
          /\ UNCHANGED <<model, analysis>>
    BY <1>5 DEF TakeWhole
  <2>2. whole(f) \in TurnType /\ whole(f).todo = turn.todo /\ whole(f).stage = turn.stage
    <3>1. Append(turn.parts, Part(f, "whole")) \in Seq(PartOf)
      <4>1. Part(f, "whole") \in PartOf
        BY Constants DEF Part, PartOf
      <4> QED
        BY <4>1, PartAdded
    <3>2. turn.taken + Files[f].tokens \in Nat
      <4>1. Files[f].tokens \in Nat
        BY Constants
      <4>2. turn.taken \in Nat
        BY DEF TurnType
      <4> QED
        BY <4>1, <4>2
    <3> QED
      BY <3>1, <3>2 DEF TurnType
  <2>3. without(f) \in TurnType /\ without(f).todo = turn.todo /\ without(f).stage = turn.stage
    <3>1. Append(turn.skipped, f) \in Seq(DOMAIN Files)
      BY AppendProperties DEF TurnType
    <3> QED
      BY <3>1 DEF TurnType
  <2> HIDE DEF whole, without
  <2>4. turn' \in TurnType /\ turn'.stage = "files"
    BY <1>3, <2>1, <2>2, <2>3, FileNext
  <2> QED
    BY <2>1, <2>4 DEF AsksFor
<1>6. CASE ContextFull
  <2>1. PICK f \in DOMAIN Files : AsksFor(f) /\ turn' = Nexts(turn) /\ UNCHANGED <<model, analysis>>
    BY <1>6 DEF ContextFull
  <2>2. turn' \in TurnType /\ turn'.stage = "files"
    BY <1>3, <2>1, FileNext
  <2> QED
    BY <2>1, <2>2 DEF AsksFor
<1>7. CASE AskHow
  <2>1. PICK f \in DOMAIN Files :
          /\ AsksFor(f) /\ turn' = [Nexts(turn) EXCEPT !.stage = "asking"]
          /\ analysis' = [NoAnalysis EXCEPT !.by = "turn", !.file = f] /\ UNCHANGED model
    BY <1>7 DEF AskHow
  <2>2. Nexts(turn) \in TurnType
    BY <1>3, <2>1, FileNext
  <2>3. turn' \in TurnType /\ turn'.stage = "asking"
    BY <2>1, <2>2 DEF TurnType
  <2>4. analysis' \in AnalysisType /\ analysis'.by = "turn" /\ analysis'.file = f /\ analysis'.results = 0
    BY <1>3, <2>1, Blanks DEF AnalysisType
  <2> QED
    BY <2>1, <2>3, <2>4 DEF AsksFor
<1>8. CASE FilesDone
  <2>1. turn' = [turn EXCEPT !.stage = "sent",
                   !.parts = IF turn.skipped = <<>> THEN @ ELSE Append(@, Part(turn.skipped, "note"))]
        /\ used' = used + MessageTokens(turn') /\ UNCHANGED <<pending, recalled, model, analysis, turns>>
    BY <1>8 DEF FilesDone
  <2>2. Append(turn.parts, Part(turn.skipped, "note")) \in Seq(PartOf)
    <3>1. Part(turn.skipped, "note") \in PartOf
      BY DEF Part, PartOf, TurnType
    <3> QED
      BY <3>1, PartAdded
  <2>3. (IF turn.skipped = <<>> THEN turn.parts ELSE Append(turn.parts, Part(turn.skipped, "note"))) \in Seq(PartOf)
    BY <2>2 DEF TurnType
  <2>4. turn' \in TurnType /\ turn'.stage = "sent"
    BY <2>1, <2>3 DEF TurnType
  <2>5. MessageTokens(turn') \in Nat
    BY <2>4, MessageTokensAre
  <2> QED
    BY <1>8, <2>1, <2>4, <2>5 DEF FilesDone
<1>9. CASE ReadChunks
  <2>1. PICK f \in DOMAIN Files : analysis' = [NoAnalysis EXCEPT !.by = "command", !.file = f]
    BY <1>9 DEF ReadChunks
  <2>2. analysis' \in AnalysisType /\ analysis'.by = "command" /\ analysis'.file = f /\ analysis'.results = 0
    <3>1. f \in Named
      BY Constants
    <3> QED
      BY <2>1, <3>1, Blanks DEF AnalysisType
  <2>3. turn' \in TurnType /\ turn'.stage = "told"
    BY <1>9, Blanks DEF ReadChunks, TurnType
  <2>4. turns' \in 0 .. MaxTurns
    BY <1>9, Constants, TurnCounted DEF ReadChunks
  <2> QED
    BY <1>9, <2>2, <2>3, <2>4 DEF ReadChunks
<1>10. CASE ReadFile
  <2>1. PICK f \in DOMAIN Files : analysis' = [NoAnalysis EXCEPT !.by = "tool", !.file = f]
    BY <1>10 DEF ReadFile
  <2>2. analysis' \in AnalysisType /\ analysis'.by = "tool" /\ analysis'.file = f /\ analysis'.results = 0
    <3>1. f \in Named
      BY Constants
    <3> QED
      BY <2>1, <3>1, Blanks DEF AnalysisType
  <2>3. turn' \in TurnType /\ turn'.stage = "asking"
    BY <1>10 DEF ReadFile, TurnType
  <2>4. turns' \in 0 .. MaxTurns
    BY <1>10, Constants, TurnCounted DEF ReadFile
  <2> QED
    BY <1>10, <2>2, <2>3, <2>4 DEF ReadFile
<1>11. CASE Cancel
  BY <1>11, ConcludedTypes DEF Cancel
<1>12. CASE Instruct
  <2>1. PICK mention \in NamedModels \cup {[name |-> "own", found |-> "no"]}, there \in BOOLEAN :
          IF there
          THEN /\ model' = IF mention.found = "lent" THEN mention.name ELSE model
               /\ analysis' = [analysis EXCEPT !.todo = ChunkDocument(Files[analysis.file].document),
                                 !.lent = mention.found = "lent"]
               /\ turn' = [turn EXCEPT !.stage = "chunks"]
               /\ UNCHANGED <<used, pending, recalled, turns>>
          ELSE Concluded("none")
    BY <1>12 DEF Instruct
  <2>2. CASE there
    <3>1. model' \in ModelNames
      BY <2>1, <2>2, Constants
    <3>2. analysis' \in AnalysisType /\ analysis'.by = analysis.by /\ analysis'.file = analysis.file
      <4>1. ChunkDocument(Files[analysis.file].document) \in ChunksOf
        BY <1>12, Constants DEF Instruct
      <4> QED
        BY <2>1, <2>2, <4>1 DEF AnalysisType
    <3>3. turn' \in TurnType /\ turn'.stage = "chunks"
      BY <2>1, <2>2 DEF TurnType
    <3> QED
      BY <1>12, <2>1, <2>2, <3>1, <3>2, <3>3 DEF Instruct
  <2>3. CASE ~there
    BY <1>12, <2>1, <2>3, ConcludedTypes DEF Instruct
  <2> QED
    BY <2>2, <2>3
<1>13. CASE Chunk
  <2>1. Tail(analysis.todo) \in ChunksOf
    <3> DEFINE C == Seq(Seq(Paragraph))
    <3> HIDE DEF C
    <3>1. analysis.todo \in Seq(C) /\ analysis.todo # <<>>
      BY <1>13 DEF Chunk, AnalysisType, ChunksOf, C
    <3>2. Tail(analysis.todo) \in Seq(C)
      BY <3>1, HeadTailProperties
    <3> QED
      BY <3>2 DEF C, ChunksOf
  <2>3. analysis.results \in Nat
    BY DEF AnalysisType
  <2>4. analysis.results + 1 \in Nat
    BY <2>3
  <2>2. analysis' \in AnalysisType /\ analysis'.by = analysis.by /\ analysis'.file = analysis.file
    BY <1>13, <2>1, <2>4 DEF Chunk, AnalysisType
  <2> QED
    BY <1>13, <2>2 DEF Chunk
<1>14. CASE Synthesis
  BY <1>14, ConcludedTypes DEF Synthesis
<1>15. CASE Unreachable
  BY <1>15, ConcludedTypes DEF Unreachable
<1>16. CASE Over
  <2>1. MessageTokens(turn) \in Nat
    BY MessageTokensAre
  <2>2. used' \in Int
    BY <1>16, <2>1 DEF Over
  <2> QED
    BY <1>16, <2>2, Blanks DEF Over
<1>17. CASE Clear
  <2>1. turns' \in 0 .. MaxTurns
    BY <1>17, Constants, TurnCounted DEF Clear
  <2> QED
    BY <1>17, <2>1 DEF Clear
<1> QED
  BY <1>1, <1>2, <1>4, <1>5, <1>6, <1>7, <1>8, <1>9, <1>10, <1>11, <1>12, <1>13, <1>14, <1>15, <1>16, <1>17
     DEF ContextNext, Injects, Analyses

-----------------------------------------------------------------------------
(* The room there is for the files.                                        *)

\* The end of an analysis: the room is as it was when the author asked for it.
LEMMA RoomAfter ==
  ASSUME ContextTypes, AnalysedFor, RoomKept, turn.stage \in {"asking", "told", "chunks"},
         NEW result \in {"synthesis", "none"}, Concluded(result)
  PROVE  RoomKept'
<1>1. /\ turn'.stage \in {"files", "sent", "idle"}
      /\ turn'.stage = "files" =>
           analysis.by = "turn" /\ used' = used /\ turn'.taken = turn.taken /\ turn'.total = turn.total
  BY ConcludedTypes
<1>2. analysis'.by = "none"
  BY Blanks DEF Concluded
<1> QED
  BY <1>1, <1>2 DEF RoomKept, TurnBudget, RemainingOf

LEMMA RoomStep ==
  ASSUME ContextTypes, AnalysedFor, RoomKept, ContextNext
  PROVE  RoomKept'
<1> USE DEF ContextTypes
<1>1. CASE Begin
  <2>1. turn'.stage = "begun" /\ analysis'.by = "none"
    BY <1>1, Blanks DEF Begin, AnalysedFor, TurnType
  <2> QED
    BY <2>1 DEF RoomKept
<1>2. CASE Mention
  <2>1. used' = used /\ turn'.taken = 0 /\ turn'.total = TurnBudget(used) /\ turn'.stage = "files" /\ analysis'.by = "none"
    BY <1>2, Blanks DEF Mention, AnalysedFor, TurnType
  <2>2. TurnBudget(used) \in Nat
    BY Constants
  <2> QED
    BY <2>1, <2>2 DEF RoomKept, TurnBudget, RemainingOf
\* A file is passed, with what it takes of the room, if it takes any.
<1>3. ASSUME NEW t \in TurnType, NEW f \in DOMAIN Files, AsksFor(f), t.todo = turn.todo, turn' = Nexts(t),
             t.stage = turn.stage, t.total = turn.total, t.taken <= turn.total, UNCHANGED analysis
      PROVE  RoomKept'
  <2>1. turn'.taken = t.taken /\ turn'.total = turn.total /\ used' = used
    BY <1>3, FileNext DEF AsksFor
  <2>2. turn.stage = "files" /\ analysis.by = "none"
    BY <1>3 DEF AsksFor, AnalysedFor
  <2>3. turn.total = TurnBudget(used)
    BY <2>2 DEF RoomKept
  <2>4. turn'.stage = t.stage
    BY <1>3, FileNext DEF AsksFor
  <2>5. turn'.total = TurnBudget(used') /\ turn'.taken <= turn'.total
    BY <1>3, <2>1, <2>3
  <2>6. TurnBudget(used)' = TurnBudget(used')
    BY DEF TurnBudget, RemainingOf
  <2> QED
    BY <1>3, <2>2, <2>4, <2>5, <2>6 DEF RoomKept
<1>4. CASE PassOver
  <2>1. PICK f \in DOMAIN Files : AsksFor(f) /\ turn' = Nexts(turn) /\ UNCHANGED <<model, analysis>>
    BY <1>4 DEF PassOver
  <2>2. turn.taken <= turn.total
    BY <2>1 DEF AsksFor, RoomKept
  <2> QED
    BY <1>3, <2>1, <2>2

<1>5. CASE TakeWhole
  <2> DEFINE whole(f) == [turn EXCEPT !.taken = @ + Files[f].tokens, !.parts = Append(@, Part(f, "whole"))]
             without(f) == [turn EXCEPT !.skipped = Append(@, f)]
  <2>1. PICK f \in DOMAIN Files :
          AsksFor(f) /\ turn' = (IF Reserve(Files[f].tokens) THEN Nexts(whole(f)) ELSE Nexts(without(f)))
          /\ UNCHANGED analysis
    BY <1>5 DEF TakeWhole
  <2>2. Append(turn.parts, Part(f, "whole")) \in Seq(PartOf)
    <3>1. Part(f, "whole") \in PartOf
      BY Constants DEF Part, PartOf
    <3> QED
      BY <3>1, PartAdded
  <2>3. Files[f].tokens \in Nat /\ turn.taken \in Nat
    BY Constants DEF TurnType
  <2>4. turn.taken + Files[f].tokens \in Nat
    BY <2>3
  <2>5. whole(f) \in TurnType /\ whole(f).todo = turn.todo /\ whole(f).taken = turn.taken + Files[f].tokens
        /\ whole(f).total = turn.total /\ whole(f).stage = turn.stage
    BY <2>2, <2>4 DEF TurnType
  <2>6. without(f) \in TurnType /\ without(f).todo = turn.todo /\ without(f).taken = turn.taken
        /\ without(f).total = turn.total /\ without(f).stage = turn.stage
    <3>1. Append(turn.skipped, f) \in Seq(DOMAIN Files)
      BY AppendProperties DEF TurnType
    <3> QED
      BY <3>1 DEF TurnType
  <2> HIDE DEF whole, without
  <2>7. CASE ~Reserve(Files[f].tokens)
    <3>1. turn.taken <= turn.total
      BY <2>1 DEF AsksFor, RoomKept
    <3> QED
      BY <1>3, <2>1, <2>6, <2>7, <3>1
  <2>8. CASE Reserve(Files[f].tokens)
    <3>1. whole(f).taken <= turn.total
      BY <2>5, <2>8 DEF Reserve
    <3> QED
      BY <1>3, <2>1, <2>5, <2>8, <3>1
  <2> QED
    BY <2>7, <2>8
<1>6. CASE ContextFull
  <2>1. PICK f \in DOMAIN Files : AsksFor(f) /\ turn' = Nexts(turn) /\ UNCHANGED <<model, analysis>>
    BY <1>6 DEF ContextFull
  <2>2. turn.taken <= turn.total
    BY <2>1 DEF AsksFor, RoomKept
  <2> QED
    BY <1>3, <2>1, <2>2
<1>7. CASE AskHow
  <2>1. PICK f \in DOMAIN Files :
          /\ AsksFor(f) /\ turn' = [Nexts(turn) EXCEPT !.stage = "asking"]
          /\ analysis' = [NoAnalysis EXCEPT !.by = "turn", !.file = f]
    BY <1>7 DEF AskHow
  <2>2. Nexts(turn) \in TurnType /\ Nexts(turn).taken = turn.taken /\ Nexts(turn).total = turn.total
    BY <2>1, FileNext DEF AsksFor
  <2>3. turn'.taken = turn.taken /\ turn'.total = turn.total /\ turn'.stage = "asking"
    BY <2>1, <2>2 DEF TurnType
  <2>4. used' = used /\ turn.stage = "files"
    BY <2>1 DEF AsksFor
  <2>5. analysis'.by = "turn"
    BY <2>1, Blanks DEF AnalysisType
  <2> QED
    BY <2>3, <2>4, <2>5 DEF RoomKept
<1>8. CASE FilesDone
  <2>1. turn'.stage = "sent" /\ analysis'.by = "none"
    BY <1>8 DEF FilesDone, TurnType, AnalysedFor
  <2> QED
    BY <2>1 DEF RoomKept
<1>9. CASE ReadChunks
  <2>1. turn'.stage = "told" /\ turn'.taken = 0
    BY <1>9, Blanks DEF ReadChunks, TurnType
  <2>2. analysis'.by = "command"
    BY <1>9, Blanks DEF ReadChunks, AnalysisType
  <2> QED
    BY <2>1, <2>2 DEF RoomKept
<1>10. CASE ReadFile
  <2>1. turn'.stage = "asking"
    BY <1>10 DEF ReadFile, TurnType
  <2>2. analysis'.by = "tool"
    BY <1>10, Blanks DEF ReadFile, AnalysisType
  <2> QED
    BY <2>1, <2>2 DEF RoomKept
<1>11. CASE Cancel
  BY <1>11, RoomAfter DEF Cancel
<1>12. CASE Instruct
  <2>1. PICK there \in BOOLEAN, mention \in NamedModels \cup {[name |-> "own", found |-> "no"]} :
          IF there
          THEN /\ analysis' = [analysis EXCEPT !.todo = ChunkDocument(Files[analysis.file].document),
                                 !.lent = mention.found = "lent"]
               /\ turn' = [turn EXCEPT !.stage = "chunks"] /\ used' = used
          ELSE Concluded("none")
    BY <1>12 DEF Instruct
  <2>2. CASE there
    <3>1. turn'.stage = "chunks" /\ turn'.taken = turn.taken /\ turn'.total = turn.total
      BY <2>1, <2>2 DEF TurnType
    <3>2. analysis'.by = analysis.by
      BY <2>1, <2>2 DEF AnalysisType
    <3> QED
      BY <1>12, <2>1, <2>2, <3>1, <3>2 DEF RoomKept
  <2>3. CASE ~there
    BY <1>12, <2>1, <2>3, RoomAfter DEF Instruct
  <2> QED
    BY <2>2, <2>3
<1>13. CASE Chunk
  <2>1. analysis'.by = analysis.by
    BY <1>13 DEF Chunk, AnalysisType
  <2> QED
    BY <1>13, <2>1 DEF Chunk, RoomKept
<1>14. CASE Synthesis
  BY <1>14, RoomAfter DEF Synthesis
<1>15. CASE Unreachable
  BY <1>15, RoomAfter DEF Unreachable
<1>16. CASE Over
  BY <1>16, Blanks DEF Over, RoomKept, AnalysedFor
<1>17. CASE Clear
  BY <1>17 DEF Clear, RoomKept, AnalysedFor
<1> QED
  BY <1>1, <1>2, <1>4, <1>5, <1>6, <1>7, <1>8, <1>9, <1>10, <1>11, <1>12, <1>13, <1>14, <1>15, <1>16, <1>17
     DEF ContextNext, Injects, Analyses

-----------------------------------------------------------------------------
(* What is recalled, lent and analysed.                                    *)

LEMMA RecallStep ==
  ASSUME RecalledFrom, ContextNext
  PROVE  RecalledFrom'
<1>1. CASE UNCHANGED recalled
  BY <1>1 DEF RecalledFrom
<1>2. CASE recalled' = NoRecall
  BY <1>2 DEF RecalledFrom
<1>3. CASE Begin
  <2>1. CASE pending
    BY <1>3, <2>1 DEF Begin, RecalledFrom
  <2>2. CASE ~pending
    BY <1>1, <1>3, <2>2 DEF Begin
  <2> QED
    BY <2>1, <2>2
<1>4. CASE Mention
  BY <1>2, <1>4 DEF Mention
<1>5. CASE Injects
  BY <1>1, <1>5 DEF Injects, PassOver, TakeWhole, ContextFull, AskHow, FilesDone, AsksFor
<1>6. CASE ReadChunks \/ ReadFile \/ Cancel \/ Instruct \/ Analyses \/ Over \/ Clear
  BY <1>1, <1>6 DEF ReadChunks, ReadFile, Cancel, Instruct, Analyses, Chunk, Synthesis, Unreachable, Concluded, Over, Clear
<1> QED
  BY <1>3, <1>4, <1>5, <1>6 DEF ContextNext

LEMMA LentStep ==
  ASSUME ContextTypes, LentForAnalysis, ContextNext
  PROVE  LentForAnalysis'
<1>1. CASE model' = "own"
  BY <1>1 DEF LentForAnalysis
<1>2. CASE model' = model /\ turn.stage # "chunks"
  BY <1>1, <1>2 DEF LentForAnalysis
<1>3. CASE Begin \/ Mention \/ Injects \/ ReadChunks \/ ReadFile \/ Over \/ Clear
  BY <1>2, <1>3
     DEF Begin, Mention, Injects, PassOver, TakeWhole, ContextFull, AskHow, FilesDone, AsksFor, ReadChunks, ReadFile, Over, Clear
<1>4. CASE Cancel \/ Synthesis \/ Unreachable
  BY <1>1, <1>4 DEF Cancel, Synthesis, Unreachable, Concluded, Restored
<1>5. CASE Instruct
  <2>1. PICK mention \in NamedModels \cup {[name |-> "own", found |-> "no"]}, there \in BOOLEAN :
          IF there
          THEN /\ model' = IF mention.found = "lent" THEN mention.name ELSE model
               /\ analysis' = [analysis EXCEPT !.todo = ChunkDocument(Files[analysis.file].document),
                                 !.lent = mention.found = "lent"]
               /\ turn' = [turn EXCEPT !.stage = "chunks"]
          ELSE Concluded("none")
    BY <1>5 DEF Instruct
  <2>2. CASE ~there
    BY <1>1, <2>1, <2>2 DEF Concluded, Restored
  <2>3. CASE there /\ mention.found = "lent"
    <3>1. turn'.stage = "chunks" /\ analysis'.lent
      BY <2>1, <2>3 DEF ContextTypes, TurnType, AnalysisType
    <3> QED
      BY <3>1 DEF LentForAnalysis
  <2>4. CASE there /\ mention.found # "lent"
    BY <1>2, <1>5, <2>1, <2>4 DEF Instruct
  <2> QED
    BY <2>2, <2>3, <2>4
<1>6. CASE Chunk
  <2>1. analysis'.lent = analysis.lent /\ UNCHANGED <<model, turn>>
    BY <1>6 DEF Chunk, ContextTypes, AnalysisType
  <2> QED
    BY <2>1 DEF LentForAnalysis
<1> QED
  BY <1>3, <1>4, <1>5, <1>6 DEF ContextNext, Analyses

LEMMA AnalysedStep ==
  ASSUME ContextTypes, AnalysedFor, AnalysedWhole, ContextNext
  PROVE  AnalysedWhole'
<1> USE DEF ContextTypes
<1>1. CASE turn'.stage # "chunks"
  BY <1>1 DEF AnalysedWhole
<1>2. CASE Begin \/ Mention \/ ReadChunks \/ ReadFile \/ Over \/ Clear \/ FilesDone
  <2>1. CASE Begin \/ Mention \/ ReadChunks
    BY <1>1, <2>1, Blanks DEF Begin, Mention, ReadChunks, TurnType
  <2>2. CASE ReadFile \/ FilesDone
    BY <1>1, <2>2 DEF ReadFile, FilesDone, TurnType
  <2>3. CASE Over
    BY <1>1, <2>3, Blanks DEF Over
  <2>4. CASE Clear
    BY <1>1, <2>4 DEF Clear
  <2> QED
    BY <1>2, <2>1, <2>2, <2>3, <2>4
<1>3. CASE PassOver \/ TakeWhole \/ ContextFull \/ AskHow
  <2>1. \E f \in DOMAIN Files : AsksFor(f)
    BY <1>3 DEF PassOver, TakeWhole, ContextFull, AskHow
  <2>2. turn.stage = "files" /\ turn.todo # <<>>
    BY <2>1 DEF AsksFor
  <2>3. CASE PassOver \/ ContextFull
    BY <1>1, <2>2, <2>3, FileNext DEF PassOver, ContextFull
  <2>4. CASE AskHow
    BY <1>1, <2>2, <2>4, FileNext DEF AskHow, TurnType
  <2>5. CASE TakeWhole
    BY <1>1, <2>2, <2>5 DEF TakeWhole, Nexts, TurnType
  <2> QED
    BY <1>3, <2>3, <2>4, <2>5
<1>4. ASSUME NEW result \in {"synthesis", "none"}, Concluded(result), turn.stage \in {"asking", "told", "chunks"}
      PROVE  AnalysedWhole'
  BY <1>1, <1>4, ConcludedTypes
<1>5. CASE Cancel \/ Synthesis \/ Unreachable
  BY <1>4, <1>5 DEF Cancel, Synthesis, Unreachable
<1>6. CASE Instruct
  <2>1. PICK mention \in NamedModels \cup {[name |-> "own", found |-> "no"]}, there \in BOOLEAN :
          IF there
          THEN analysis' = [analysis EXCEPT !.todo = ChunkDocument(Files[analysis.file].document),
                              !.lent = mention.found = "lent"]
          ELSE Concluded("none")
    BY <1>6 DEF Instruct
  <2>2. turn.stage \in {"asking", "told"} /\ analysis.results = 0 /\ analysis.file \in DOMAIN Files
    BY <1>6 DEF Instruct, AnalysedFor
  <2>3. CASE ~there
    BY <1>4, <2>1, <2>2, <2>3
  <2>4. CASE there
    <3> DEFINE document == Files[analysis.file].document
    <3>1. Covers(document) /\ ChunkDocument(document) \in ChunksOf
      BY <2>2, Constants
    <3>2. analysis'.file = analysis.file /\ analysis'.results = 0 /\ analysis'.todo = ChunkDocument(document)
      BY <2>1, <2>2, <2>4 DEF AnalysisType
    <3>3. Len(ChunkDocument(document)) \in Nat
      <4> DEFINE C == Seq(Seq(Paragraph))
      <4> HIDE DEF C
      <4>1. ChunkDocument(document) \in Seq(C)
        BY <3>1 DEF C, ChunksOf
      <4> QED
        BY <4>1, LenProperties
    <3>4. analysis'.results + Len(analysis'.todo) = Len(ChunkDocument(document))
      BY <3>2, <3>3
    <3> QED
      BY <3>1, <3>2, <3>4 DEF AnalysedWhole
  <2> QED
    BY <2>3, <2>4
<1>7. CASE Chunk
  <2> DEFINE C == Seq(Seq(Paragraph))
  <2> HIDE DEF C
  <2>1. /\ turn.stage = "chunks" /\ analysis.todo # <<>> /\ turn' = turn
        /\ analysis.todo \in Seq(C) /\ analysis.results \in Nat
    BY <1>7 DEF Chunk, AnalysisType, ChunksOf, C
  <2>2. /\ analysis'.file = analysis.file /\ analysis'.todo = Tail(analysis.todo)
        /\ analysis'.results = analysis.results + 1
    BY <1>7 DEF Chunk, AnalysisType
  <2>3. Len(Tail(analysis.todo)) = Len(analysis.todo) - 1 /\ Len(analysis.todo) \in Nat
    BY <2>1, HeadTailProperties, LenProperties
  <2>4. analysis'.results + Len(analysis'.todo) = analysis.results + Len(analysis.todo)
    BY <2>1, <2>2, <2>3
  <2> QED
    BY <2>1, <2>2, <2>4 DEF AnalysedWhole
<1> QED
  BY <1>2, <1>3, <1>5, <1>6, <1>7 DEF ContextNext, Injects, Analyses

-----------------------------------------------------------------------------
(* The invariant, and what is recalled, put in a prompt, lent and analysed. *)

\* ContextInv holds initially and every step of a message being put together keeps it.
THEOREM ContextInvariance == ContextSpec => []ContextInv
<1>1. ContextInit => ContextInv
  <2> SUFFICES ASSUME ContextInit PROVE ContextInv
    OBVIOUS
  <2>1. ContextTypes
    <3>1. turns \in 0 .. MaxTurns /\ "own" \in ModelNames
      BY Constants DEF ContextInit, ModelNames
    <3> QED
      BY <3>1, Blanks DEF ContextInit, ContextTypes
  <2>2. AnalysedFor /\ RoomKept /\ LentForAnalysis /\ AnalysedWhole
    BY Blanks DEF ContextInit, AnalysedFor, RoomKept, LentForAnalysis, AnalysedWhole
  <2>3. RecalledFrom
    BY DEF ContextInit, RecalledFrom
  <2> QED
    BY <2>1, <2>2, <2>3 DEF ContextInv
<1>2. ContextInv /\ [ContextNext]_contextVars => ContextInv'
  <2> SUFFICES ASSUME ContextInv, [ContextNext]_contextVars PROVE ContextInv'
    OBVIOUS
  <2>1. CASE ContextNext
    BY <2>1, TypesKept, RoomStep, RecallStep, LentStep, AnalysedStep DEF ContextInv
  <2>2. CASE UNCHANGED contextVars
    BY <2>2 DEF contextVars, ContextInv, ContextTypes, AnalysedFor, RoomKept, RecalledFrom, LentForAnalysis, AnalysedWhole
  <2> QED
    BY <2>1, <2>2
<1> QED
  BY <1>1, <1>2, PTL DEF ContextSpec

\* What is put in a prompt unasked, memories and whole files together, is kept to the room
\* there is for it, whatever is found, named or typed (memory_unified.go, injectOrChunk).
THEOREM PromptIsFitted == ContextSpec => []PromptFits
<1>1. ContextInv => RecallFits
  <2> SUFFICES ASSUME ContextInv, recalled # NoRecall
               PROVE  IsRecallOf(recalled.results, recalled.store, recalled.kb, recalled.budget)
    BY DEF RecallFits
  <2>1. PICK store \in Stores, kb \in KBs, embedder \in BOOLEAN :
          recalled = [results |-> UnifiedRecall(store, kb, embedder, MemoryBudget), store |-> store, kb |-> kb,
                      budget |-> MemoryBudget, told |-> LogRecall(UnifiedRecall(store, kb, embedder, MemoryBudget), kb)]
    BY DEF ContextInv, RecalledFrom
  <2>2. IsStore(store) /\ IsAnswer(kb.concepts) /\ IsAnswer(kb.observations)
    BY TurnContextAssumption
  <2>3. IsRecallOf(UnifiedRecall(store, kb, embedder, MemoryBudget), store, kb, MemoryBudget)
    BY <2>2, Constants, RecallIs
  <2> QED
    BY <2>1, <2>3
<1>2. ContextInv => InjectedFits
  <2> SUFFICES ASSUME ContextInv, turn.stage \in {"files", "asking", "chunks"}, analysis.by # "tool",
                      Window > 0, turn.taken > 0
               PROVE  used + turn.taken + Margin <= Window
    BY DEF InjectedFits
  <2>1. turn.taken <= TurnBudget(used)
    BY DEF ContextInv, RoomKept, AnalysedFor, ContextTypes, AnalysisType
  <2>2. used \in Int /\ turn.taken \in Nat /\ Window \in Nat /\ Margin \in Nat
    BY Constants DEF ContextInv, ContextTypes, TurnType
  <2> QED
    BY <2>1, <2>2 DEF TurnBudget, RemainingOf
<1>3. ContextInv => PromptFits
  BY <1>1, <1>2 DEF PromptFits
<1> QED
  BY <1>3, ContextInvariance, PTL

\* The log names each row of the knowledge base that entered the prompt, in its order and
\* no other, and marks the works kb said were retracted (sessionlog_kb.go).
THEOREM RecallIsToldOf == ContextSpec => []RecallIsLogged
<1>1. ContextInv => RecallIsLogged
  <2> SUFFICES ASSUME ContextInv, recalled # NoRecall PROVE RecallIsLogged
    BY DEF RecallIsLogged
  <2>1. PICK store \in Stores, kb \in KBs, embedder \in BOOLEAN :
          recalled = [results |-> UnifiedRecall(store, kb, embedder, MemoryBudget), store |-> store, kb |-> kb,
                      budget |-> MemoryBudget, told |-> LogRecall(UnifiedRecall(store, kb, embedder, MemoryBudget), kb)]
    BY DEF ContextInv, RecalledFrom
  <2> DEFINE results == UnifiedRecall(store, kb, embedder, MemoryBudget)
  <2>2. Logged(results, kb, LogRecall(results, kb))
    BY Constants, TurnContextAssumption, LogIsOfRecall
  <2>3. recalled.results = results /\ recalled.kb = kb /\ recalled.told = LogRecall(results, kb)
    BY <2>1
  <2> HIDE DEF results
  <2> QED
    BY <2>2, <2>3 DEF RecallIsLogged, Logged, results
<1> QED
  BY <1>1, ContextInvariance, PTL

\* A model lent for an analysis is given back, however the analysis ends (chunk_analyzer.go).
THEOREM LentIsGivenBack == ContextSpec => []LentForAnalysis
<1>1. ContextInv => LentForAnalysis
  BY DEF ContextInv
<1> QED
  BY <1>1, ContextInvariance, PTL

\* What is analysed is all of the file, in order, whatever the document (chunker.go).
THEOREM FilesAreAnalysedWhole == ContextSpec => []AnalysedWhole
<1>1. ContextInv => AnalysedWhole
  BY DEF ContextInv
<1> QED
  BY <1>1, ContextInvariance, PTL

=============================================================================
