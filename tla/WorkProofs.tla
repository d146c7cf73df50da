----------------------------- MODULE WorkProofs -----------------------------
(***************************************************************************)
(* Proofs about Work, for every set of plans, pipelines and models and     *)
(* every length of the run: a model a step borrowed is given back, what a  *)
(* loop says is what it did, and /plan keeps the promise of Checklist.     *)
(*                                                                         *)
(* Every operation waits (Await) or is over (Ends), typed or in a loop, so *)
(* what becomes of the loop is proved of these two.                        *)
(***************************************************************************)
EXTENDS Work, SequenceTheorems, TLAPS

Kinds == {"none", "planning", "step", "unsaved", "chat", "pipeline", "rating"}
Named == Models \cup {NoModel}
Answered == [file : Files, score : Nat]
Jobs == [kind : Kinds, plan : Seq(Steps) \cup {NoPlan}, at : Nat, gives : Named,
         tools : BOOLEAN, rounds : Nat, seen : BOOLEAN,
         files : Seq(Files), passed : Seq(Answered), cut : BOOLEAN]
Repeats == [phase : {"off", "begin", "running", "ended", "pause"},
            what : Operations \cup {"none"}, i : Nat, begun : Nat, ended : Nat,
            completed : Nat, interrupted : BOOLEAN, failed : BOOLEAN, failures : Nat]
Reports == [how : {"none", "stopped", "cancelled", "finished"}, completed : Nat,
            begun : Nat, ended : Nat, failed : BOOLEAN, failures : Nat]
Agents == [model : Named, chosen : Named, history : Seq(Seq(Answered))]

\* The counts of a loop at each of its places: an iteration counts as completed only
\* when the pause after it begins, and as ended unless Ctrl-C came before its end.
Counted(r) ==
  /\ r.phase = "begin" =>
       r.i \in 1 .. Count /\ r.begun = r.i - 1 /\ r.ended = r.i - 1 /\ r.completed = r.i - 1
  /\ r.phase = "running" =>
       r.i \in 1 .. Count /\ r.begun = r.i /\ r.ended = r.i - 1 /\ r.completed = r.i - 1
  /\ r.phase = "ended" =>
       /\ r.i \in 1 .. Count /\ r.begun = r.i /\ r.completed = r.i - 1
       /\ r.ended \in {r.i - 1, r.i} /\ (~r.interrupted => r.ended = r.i)
  /\ r.phase = "pause" =>
       r.i \in 1 .. Count - 1 /\ r.begun = r.i /\ r.ended = r.i /\ r.completed = r.i
  /\ r.failed <=> r.failures > 0

\* A loop waits for a job only while an iteration runs.
LoopInv ==
  /\ loop \in Repeats /\ Counted(loop)
  /\ loop.phase \in {"begin", "ended", "pause"} => job = Idle

\* An operation may go on: no loop, or one that has begun or begins an iteration.
CanAct == \/ loop.phase \in {"off", "running"}
          \/ loop.phase = "begin" /\ ~loop.interrupted

LEMMA IdleIsJob == Idle \in Jobs /\ Idle.kind = "none" /\ Idle.gives = NoModel
BY DEF Idle, Jobs, Kinds, Named

LEMMA NoLoopCounts == NoLoop \in Repeats /\ NoLoop.phase = "off" /\ Counted(NoLoop)
BY DEF NoLoop, Repeats, Operations, Counted

LEMMA AwaitLoop ==
  ASSUME LoopInv, CanAct, NEW j \in Jobs, Await(j)
  PROVE  job' = j /\ LoopInv'
<1> DEFINE p == IF loop.phase = "off" THEN "off" ELSE "running"
           b == IF loop.phase = "begin" THEN loop.begun + 1 ELSE loop.begun
           one == [loop EXCEPT !.phase = p]
           r == [one EXCEPT !.begun = b]
<1>1. job' = j /\ loop' = r
  BY DEF Await, LoopInv, Repeats
<1>2. one \in Repeats /\ one.phase = p /\ one.begun = loop.begun /\ one.i = loop.i
        /\ one.ended = loop.ended /\ one.completed = loop.completed
        /\ one.failed = loop.failed /\ one.failures = loop.failures
  BY DEF LoopInv, Repeats
<1>3. b \in Nat
  BY DEF LoopInv, Repeats
<1> HIDE DEF one, b
<1>4. r \in Repeats /\ r.begun = b /\ r.phase = p /\ r.i = loop.i /\ r.ended = loop.ended
        /\ r.completed = loop.completed /\ r.failed = loop.failed /\ r.failures = loop.failures
  BY <1>2, <1>3 DEF Repeats
<1> HIDE DEF r
<1>5. Counted(r)
  BY <1>4 DEF CanAct, LoopInv, Counted, Repeats, b
<1>6. r.phase \notin {"begin", "ended", "pause"}
  BY <1>4
<1> QED
  BY <1>1, <1>4, <1>5, <1>6 DEF LoopInv

LEMMA EndsLoop ==
  ASSUME LoopInv, CanAct, NEW err \in BOOLEAN, Ends(err)
  PROVE  job' = Idle /\ LoopInv'
<1>1. job' = Idle
  BY DEF Ends
<1>2. CASE loop.phase = "off"
  <2>1. loop' = loop
    BY <1>2 DEF Ends
  <2> QED
    BY <1>1, <1>2, <2>1 DEF LoopInv
<1>3. CASE loop.phase # "off"
  <2> DEFINE one == [loop EXCEPT !.phase = "ended"]
             two == [one EXCEPT !.begun = IF loop.phase = "begin" THEN loop.begun + 1 ELSE loop.begun]
             three == [two EXCEPT !.ended = IF loop.interrupted THEN loop.ended ELSE loop.ended + 1]
             four == [three EXCEPT !.failed = loop.failed \/ err]
             r == [four EXCEPT !.failures = IF err THEN loop.failures + 1 ELSE loop.failures]
  <2>1. loop' = r
    BY <1>3 DEF Ends, LoopInv, Repeats
  <2>2. one \in Repeats /\ one.phase = "ended" /\ one.i = loop.i /\ one.interrupted = loop.interrupted
        /\ one.completed = loop.completed
    BY DEF LoopInv, Repeats
  <2> HIDE DEF one
  <2>3. /\ two \in Repeats /\ two.phase = "ended" /\ two.i = loop.i
        /\ two.interrupted = loop.interrupted /\ two.completed = loop.completed
        /\ two.begun = IF loop.phase = "begin" THEN loop.begun + 1 ELSE loop.begun
    BY <2>2 DEF LoopInv, Repeats
  <2> HIDE DEF two
  <2>4. /\ three \in Repeats /\ three.phase = "ended" /\ three.i = loop.i
        /\ three.interrupted = loop.interrupted /\ three.completed = loop.completed
        /\ three.begun = two.begun
        /\ three.ended = IF loop.interrupted THEN loop.ended ELSE loop.ended + 1
    BY <2>3 DEF LoopInv, Repeats
  <2> HIDE DEF three
  <2>5. /\ four \in Repeats /\ four.phase = "ended" /\ four.i = loop.i
        /\ four.interrupted = loop.interrupted /\ four.completed = loop.completed
        /\ four.begun = two.begun /\ four.ended = three.ended
        /\ four.failed = (loop.failed \/ err)
    BY <2>4 DEF LoopInv, Repeats
  <2> HIDE DEF four
  <2>6. /\ r \in Repeats /\ r.phase = "ended" /\ r.i = loop.i
        /\ r.interrupted = loop.interrupted /\ r.completed = loop.completed
        /\ r.begun = two.begun /\ r.ended = three.ended
        /\ r.failed = (loop.failed \/ err)
        /\ r.failures = IF err THEN loop.failures + 1 ELSE loop.failures
    BY <2>5 DEF LoopInv, Repeats
  <2> HIDE DEF r
  <2>7. Counted(r)
    <3>1. r.failed <=> r.failures > 0
      BY <2>6 DEF LoopInv, Counted, Repeats
    <3> QED
      BY <1>3, <2>3, <2>4, <2>6, <3>1 DEF CanAct, LoopInv, Counted, Repeats
  <2> QED
    BY <1>1, <2>1, <2>6, <2>7 DEF LoopInv
<1> QED
  BY <1>2, <1>3

-----------------------------------------------------------------------------
(* What holds of the job and the models.                                   *)

TypeInv ==
  /\ file \in Seq(Steps) \cup {NoPlan} /\ job \in Jobs /\ agent \in Agents /\ report \in Reports

\* The step a job runs or is to save is the first open one of its plan.
StepInv ==
  /\ job.kind \in {"step", "unsaved"} =>
       job.plan \in Seq(Steps) /\ job.at \in DOMAIN job.plan /\ FirstOpen(job.plan, job.at)
  /\ job.kind = "unsaved" => ~job.seen
  /\ job.kind \in {"pipeline", "rating"} => Len(job.passed) < Len(job.files)

\* A step that borrowed a model gives back the one the author chose, and otherwise
\* that one is in use.
LentInv ==
  IF job.kind = "step" /\ job.gives # NoModel THEN agent.chosen = job.gives
  ELSE agent.model = agent.chosen

WorkInv == TypeInv /\ StepInv /\ LentInv /\ LoopInv /\ LoopSaysWhatItDid

\* What /plan may do, and what most operations leave as it is.
Promised == [Tasks!Next]_(Tasks!vars)
Kept == TypeInv' /\ StepInv' /\ LentInv' /\ LoopInv' /\ Promised

LEMMA TitlesOf ==
  ASSUME NEW p \in Seq(Steps)
  PROVE  /\ Titles(p) = [i \in DOMAIN p |-> [title |-> p[i].title, done |-> p[i].done]]
         /\ DOMAIN Titles(p) = DOMAIN p
         /\ p # <<>> => Titles(p) # <<>>
         /\ \A i \in DOMAIN p : Titles(p)[i].done = p[i].done
<1>1. p # NoPlan
  BY WorkAssumption
<1>2. Titles(p) = [i \in DOMAIN p |-> [title |-> p[i].title, done |-> p[i].done]]
  BY <1>1 DEF Titles
<1>3. p # <<>> => 1 \in DOMAIN p
  OBVIOUS
<1> QED
  BY <1>2, <1>3

LEMMA WholeIsCut ==
  ASSUME NEW p \in Seq(Steps)
  PROVE  p \in CutShort(p)
<1>1. SubSeq(p, 1, Len(p)) = p /\ Len(p) \in 0 .. Len(p)
  OBVIOUS
<1>2. \E n \in 0 .. Len(p) : p = SubSeq(p, 1, n)
  BY <1>1, Zenon
<1>3. p \in {SubSeq(p, 1, n) : n \in 0 .. Len(p)}
  BY <1>2, Zenon
<1> QED
  BY <1>3, Zenon DEF CutShort

\* A plan cut short is a plan, and reads as the beginning of what the whole reads as.
LEMMA CutIsPlan ==
  ASSUME NEW p \in Seq(Steps), NEW c \in CutShort(p)
  PROVE  c \in Seq(Steps) /\ Titles(c) \in Tasks!Beginnings(Titles(p))
<1> DEFINE Read == [title : STRING, done : BOOLEAN]
           read(s) == [title |-> s.title, done |-> s.done]
           a == Titles(p)
<1>1. \A s \in Steps : read(s) \in Read
  BY DEF Steps
<1>2. a = [i \in DOMAIN p |-> read(p[i])]
  BY TitlesOf
<1>3. a \in Seq(Read) /\ Len(a) = Len(p) /\ DOMAIN a = DOMAIN p
  <2>1. \A i \in DOMAIN p : read(p[i]) \in Read
    BY <1>1
  <2> HIDE DEF read, a, Read
  <2>2. DOMAIN p = 1 .. Len(p) /\ Len(p) \in Nat
    OBVIOUS
  <2>3. a \in [1 .. Len(p) -> Read]
    BY <1>2, <2>1, <2>2
  <2> QED
    BY <2>2, <2>3
<1>4. \A q \in Seq(Steps) : Titles(q) = [i \in DOMAIN q |-> read(q[i])]
  BY TitlesOf
<1> HIDE DEF read, a, Read
<1>5. ASSUME NEW n \in 0 .. Len(p)
      PROVE  /\ SubSeq(p, 1, n) \in Seq(Steps) /\ Len(SubSeq(p, 1, n)) = n
             /\ SubSeq(a, 1, n) \in Seq(Read) /\ Len(SubSeq(a, 1, n)) = n
             /\ \A i \in 1 .. n : SubSeq(p, 1, n)[i] = p[i] /\ SubSeq(a, 1, n)[i] = read(p[i])
  <2>1. SubSeq(p, 1, n) \in Seq(Steps) /\ Len(SubSeq(p, 1, n)) = n
          /\ \A i \in 1 .. n : SubSeq(p, 1, n)[i] = p[i]
    OBVIOUS
  <2>2. SubSeq(a, 1, n) \in Seq(Read) /\ Len(SubSeq(a, 1, n)) = n
          /\ \A i \in 1 .. n : SubSeq(a, 1, n)[i] = a[i]
    BY <1>3
  <2>3. \A i \in 1 .. n : a[i] = read(p[i])
    BY <1>2
  <2> QED
    BY <2>1, <2>2, <2>3
<1>6. ASSUME NEW n \in 0 .. Len(p)
      PROVE  Titles(SubSeq(p, 1, n)) = SubSeq(a, 1, n)
  <2> DEFINE b == SubSeq(p, 1, n)
             d == SubSeq(a, 1, n)
  <2>1. b \in Seq(Steps) /\ DOMAIN b = 1 .. n /\ d \in Seq(Read) /\ Len(d) = n
          /\ \A i \in 1 .. n : b[i] = p[i] /\ d[i] = read(p[i])
    BY <1>5
  <2> HIDE DEF b, d
  <2>2. d = [i \in 1 .. n |-> d[i]]
    BY <2>1
  <2>3. Titles(b) = [i \in 1 .. n |-> read(b[i])]
    BY <1>4, <2>1
  <2>4. Titles(b) = d
    BY <2>1, <2>2, <2>3
  <2> QED
    BY <2>4 DEF b, d
<1>7. CASE \E n \in 0 .. Len(p) : c = SubSeq(p, 1, n)
  <2> PICK n \in 0 .. Len(p) : c = SubSeq(p, 1, n)
    BY <1>7
  <2>1. Titles(c) = SubSeq(a, 1, n) /\ n \in 0 .. Len(a)
    BY <1>3, <1>6
  <2>2. Titles(c) \in Tasks!Beginnings(a)
    BY <2>1 DEF Tasks!Beginnings
  <2> QED
    BY <1>5, <2>2 DEF a
<1>8. CASE \E n \in DOMAIN p : \E s \in TornStep(p[n]) : c = Append(SubSeq(p, 1, n - 1), s)
  <2> PICK n \in DOMAIN p : \E s \in TornStep(p[n]) : c = Append(SubSeq(p, 1, n - 1), s)
    BY <1>8
  <2> PICK s \in TornStep(p[n]) : c = Append(SubSeq(p, 1, n - 1), s)
    OBVIOUS
  <2> DEFINE b == SubSeq(p, 1, n - 1)
             d == SubSeq(a, 1, n - 1)
  <2>1. p[n] \in Steps /\ n - 1 \in 0 .. Len(p) /\ n \in Nat
    OBVIOUS
  <2>2. s \in Steps /\ s.title \in Pieces /\ s.done = p[n].done
    BY <2>1, WorkAssumption DEF Steps, TornStep
  <2>3. read(s) \in [title : Pieces, done : {a[n].done}]
    <3>1. a[n].done = p[n].done
      BY <1>2 DEF read
    <3> QED
      BY <2>2, <3>1 DEF read
  <2>4. /\ b \in Seq(Steps) /\ Len(b) = n - 1 /\ d \in Seq(Read) /\ Len(d) = n - 1
        /\ \A i \in 1 .. n - 1 : d[i] = read(b[i])
    BY <1>5, <2>1
  <2>5. c = Append(b, s)
    OBVIOUS
  <2> HIDE DEF b, d
  <2>6. /\ c \in Seq(Steps) /\ DOMAIN c = 1 .. n /\ c[n] = s
        /\ \A i \in 1 .. n - 1 : c[i] = b[i]
    <3>1. /\ Append(b, s) \in Seq(Steps) /\ Len(Append(b, s)) = n
          /\ Append(b, s)[n] = s /\ \A i \in 1 .. n - 1 : Append(b, s)[i] = b[i]
      <4>1. n - 1 + 1 = n
        BY <2>1
      <4> QED
        BY <2>2, <2>4, <4>1, AppendProperties
    <3>2. c \in Seq(Steps) /\ Len(c) = n /\ c[n] = s /\ \A i \in 1 .. n - 1 : c[i] = b[i]
      BY <2>5, <3>1, Zenon
    <3> QED
      BY <3>2
  <2> DEFINE e == Append(d, read(s))
  <2>7. /\ e = [i \in 1 .. n |-> e[i]] /\ e[n] = read(s)
        /\ \A i \in 1 .. n - 1 : e[i] = d[i]
    <3>1. read(s) \in Read
      BY <1>1, <2>2
    <3>2. n - 1 + 1 = n
      BY <2>1
    <3>3. /\ e \in Seq(Read) /\ Len(e) = n
          /\ e[n] = read(s) /\ \A i \in 1 .. n - 1 : e[i] = d[i]
      BY <2>4, <3>1, <3>2, AppendProperties
    <3> HIDE DEF e
    <3> QED
      BY <3>3
  <2> HIDE DEF e
  <2>8. Titles(c) = e
    <3>1. Titles(c) = [i \in 1 .. n |-> read(c[i])]
      BY <1>4, <2>6
    <3>2. \A i \in 1 .. n : read(c[i]) = e[i]
      <4> SUFFICES ASSUME NEW i \in 1 .. n PROVE read(c[i]) = e[i]
        OBVIOUS
      <4>1. CASE i = n
        BY <2>6, <2>7, <4>1
      <4>2. CASE i # n
        <5>1. i \in 1 .. n - 1
          BY <2>1, <4>2
        <5> QED
          BY <2>4, <2>6, <2>7, <5>1
      <4> QED
        BY <4>1, <4>2
    <3> QED
      BY <2>7, <3>1, <3>2
  <2>9. n \in DOMAIN a /\ e = Append(SubSeq(a, 1, n - 1), read(s))
    BY <1>3 DEF e, d
  <2>10. Titles(c) \in Tasks!Beginnings(a)
    <3> DEFINE Torn(m) == {Append(SubSeq(a, 1, m - 1), step) :
                             step \in [title : Pieces, done : {a[m].done}]}
    <3>1. Titles(c) \in Torn(n)
      BY <2>3, <2>8, <2>9
    <3> HIDE DEF Torn
    <3>2. Titles(c) \in UNION {Torn(m) : m \in DOMAIN a}
      BY <2>9, <3>1
    <3> QED
      BY <3>2 DEF Torn, Tasks!Beginnings
  <2> QED
    BY <2>6, <2>10 DEF a
<1>9. \/ \E n \in 0 .. Len(p) : c = SubSeq(p, 1, n)
      \/ \E n \in DOMAIN p : \E s \in TornStep(p[n]) : c = Append(SubSeq(p, 1, n - 1), s)
  BY DEF CutShort
<1> QED
  BY <1>7, <1>8, <1>9

LEMMA NothingBegins == <<>> \in Tasks!Beginnings(<<>>)
<1>1. SubSeq(<<>>, 1, 0) = <<>> /\ 0 \in 0 .. Len(<<>>)
  OBVIOUS
<1> QED
  BY <1>1 DEF Tasks!Beginnings

\* A plan of the author or a model is written, whole or cut short, or the file is left.
Rewritten == UNCHANGED file \/ \E p \in Plans : file' \in CutShort(p)

LEMMA RewrittenType ==
  ASSUME TypeInv, Rewritten
  PROVE  file' \in Seq(Steps) \cup {NoPlan}
BY WorkAssumption, CutIsPlan DEF TypeInv, Rewritten

LEMMA WrittenIs ==
  ASSUME NEW p \in Plans, file' \in CutShort(p)
  PROVE  Titles(file)' \in Tasks!Beginnings(Titles(p))
<1>1. Titles(file)' = Titles(file')
  BY DEF Titles
<1>2. p \in Seq(Steps)
  BY WorkAssumption
<1> QED
  BY <1>1, <1>2, CutIsPlan

\* A job that is not a step's, begun or over, is nothing to the plan.
LEMMA NoStepPromised ==
  ASSUME job.kind \notin {"step", "unsaved"}, job'.kind \notin {"step", "unsaved"},
         file' = NoPlan \/ Rewritten
  PROVE  Promised
<1>1. CASE UNCHANGED file
  BY <1>1 DEF Promised, Tasks!vars, Titles
<1>2. CASE file' = NoPlan
  <2>1. Tasks!Write(<<>>)
    BY <1>2, NothingBegins DEF Tasks!Write, Titles
  <2> QED
    BY <2>1 DEF Promised, Tasks!Next
<1>3. CASE \E p \in Plans : file' \in CutShort(p)
  <2> PICK p \in Plans : file' \in CutShort(p)
    BY <1>3
  <2>1. Tasks!Write(Titles(p))
    BY WrittenIs DEF Tasks!Write
  <2> QED
    BY <2>1 DEF Promised, Tasks!Next
<1> QED
  BY <1>1, <1>2, <1>3 DEF Rewritten

\* A step under way goes on, or is over without having been saved.
LEMMA StepPromised ==
  ASSUME job.kind \in {"step", "unsaved"}, UNCHANGED file, 
         \/ job'.kind \notin {"step", "unsaved"}
         \/ job'.kind = "step" /\ job.kind = "step" /\ job'.plan = job.plan
  PROVE  Promised
<1>1. CASE job'.kind \notin {"step", "unsaved"}
  <2>1. Tasks!GiveUp
    BY <1>1 DEF Tasks!GiveUp, Titles
  <2> QED
    BY <2>1 DEF Promised, Tasks!Next
<1>2. CASE job'.kind = "step" /\ job.kind = "step" /\ job'.plan = job.plan
  BY <1>2 DEF Promised, Tasks!vars, Titles
<1> QED
  BY <1>1, <1>2

\* While a step waits the plan may be written over.
LEMMA WrittenOver ==
  ASSUME NEW p \in Plans, file' \in CutShort(p), job'.kind = job.kind, job'.plan = job.plan,
         job'.seen = job.seen \/ job.kind = "step"
  PROVE  Promised
<1>1. Tasks!Write(Titles(p))
  BY WrittenIs DEF Tasks!Write
<1> QED
  BY <1>1 DEF Promised, Tasks!Next

\* What is over has lent nothing, and is no step.
LEMMA IdleKeeps ==
  ASSUME job' = Idle, agent'.model = agent'.chosen
  PROVE  StepInv' /\ LentInv'
BY IdleIsJob DEF StepInv, LentInv

\* An operation that is over with the author's model in use keeps what holds.
LEMMA EndsKeeps ==
  ASSUME WorkInv, CanAct, NEW err \in BOOLEAN, Ends(err),
         agent' \in Agents, agent'.model = agent'.chosen, report' \in Reports,
         UNCHANGED file \/ (Rewritten /\ job.kind \notin {"step", "unsaved"})
  PROVE  Kept
<1>1. job' = Idle /\ LoopInv'
  BY EndsLoop DEF WorkInv
<1>2. job'.kind = "none"
  BY <1>1, IdleIsJob
<1>3. Promised
  BY <1>2, NoStepPromised, StepPromised DEF Rewritten
<1>4. file' \in Seq(Steps) \cup {NoPlan}
  BY RewrittenType DEF WorkInv, TypeInv
<1> QED
  BY <1>1, <1>3, <1>4, IdleKeeps, IdleIsJob DEF Kept, TypeInv

LEMMA TickedIs ==
  ASSUME NEW s \in [title : STRING, done : BOOLEAN], NEW d \in BOOLEAN
  PROVE  [s EXCEPT !.done = d] = [title |-> s.title, done |-> d]
OBVIOUS

\* What is saved is the plan that was read, with its first open step done.
LEMMA MarkedIsPlan ==
  ASSUME WorkInv, job.kind = "unsaved"
  PROVE  LET q == Formatted(Marked) IN
         /\ q \in Seq(Steps) /\ DOMAIN q = DOMAIN job.plan
         /\ \A i \in DOMAIN job.plan : /\ q[i].title = job.plan[i].title
                                      /\ q[i].done = (job.plan[i].done \/ i = job.at)
<1> DEFINE q == Formatted(Marked)
<1>1. job.plan \in Seq(Steps) /\ job.at \in DOMAIN job.plan
  BY DEF WorkInv, StepInv
<1>2. /\ Marked \in Seq(Steps) /\ DOMAIN Marked = DOMAIN job.plan
      /\ \A i \in DOMAIN job.plan : /\ Marked[i].title = job.plan[i].title
                                   /\ Marked[i].done = (job.plan[i].done \/ i = job.at)
  <2>1. [job.plan[job.at] EXCEPT !.done = TRUE] \in Steps
    <3>1. job.plan[job.at] \in Steps
      BY <1>1
    <3> QED
      BY <3>1 DEF Steps
  <2>2. Marked = [job.plan EXCEPT ![job.at] = [job.plan[job.at] EXCEPT !.done = TRUE]]
    BY <1>1 DEF Marked
  <2>3. Marked \in Seq(Steps) /\ DOMAIN Marked = DOMAIN job.plan
    BY <1>1, <2>1, <2>2
  <2>4. ASSUME NEW i \in DOMAIN job.plan
        PROVE  /\ Marked[i].title = job.plan[i].title
               /\ Marked[i].done = (job.plan[i].done \/ i = job.at)
    <3>1. job.plan[i] \in Steps
      BY <1>1
    <3>2. CASE i = job.at
      BY <1>1, <2>2, <3>1, <3>2 DEF Steps
    <3>3. CASE i # job.at
      BY <1>1, <2>2, <3>1, <3>3 DEF Steps
    <3> QED
      BY <3>2, <3>3
  <2> QED
    BY <2>3, <2>4
<1>3. /\ q \in Seq(Steps) /\ DOMAIN q = DOMAIN job.plan
      /\ \A i \in DOMAIN job.plan : /\ q[i].title = job.plan[i].title
                                   /\ q[i].done = (job.plan[i].done \/ i = job.at)
  <2>1. \A i \in DOMAIN Marked : Marked[i] \in Steps
    BY <1>2
  <2>2. \A i \in DOMAIN Marked :
          /\ [Marked[i] EXCEPT !.model = NoModel] \in Steps
          /\ [Marked[i] EXCEPT !.model = NoModel].title = Marked[i].title
          /\ [Marked[i] EXCEPT !.model = NoModel].done = Marked[i].done
    BY <2>1 DEF Steps
  <2>3. q = [i \in DOMAIN Marked |-> [Marked[i] EXCEPT !.model = NoModel]]
    BY DEF Formatted, q
  <2>4. DOMAIN Marked = 1 .. Len(Marked) /\ Len(Marked) \in Nat
    BY <1>2
  <2>5. q \in [1 .. Len(Marked) -> Steps]
    BY <2>2, <2>3, <2>4
  <2>6. q \in Seq(Steps) /\ DOMAIN q = DOMAIN Marked
    BY <2>4, <2>5
  <2> QED
    BY <1>2, <2>2, <2>3, <2>6
<1> QED
  BY <1>3

\* The whole of it or its beginning is written.
LEMMA MarkedPromised ==
  ASSUME WorkInv, job.kind = "unsaved", job'.kind = "none", file' \in CutShort(Formatted(Marked))
  PROVE  Promised /\ file' \in Seq(Steps)
<1> DEFINE q == Formatted(Marked)
<1>1. job.plan \in Seq(Steps) /\ job.at \in DOMAIN job.plan /\ FirstOpen(job.plan, job.at)
  BY DEF WorkInv, StepInv
<1>2. job.kind = "unsaved" /\ job'.kind = "none" /\ ~job.seen
  BY DEF WorkInv, StepInv
<1>3. /\ q \in Seq(Steps) /\ DOMAIN q = DOMAIN job.plan
      /\ \A i \in DOMAIN job.plan : /\ q[i].title = job.plan[i].title
                                   /\ q[i].done = (job.plan[i].done \/ i = job.at)
  BY MarkedIsPlan
<1>5. file' \in CutShort(q)
  OBVIOUS
<1> HIDE DEF q
<1>6. file' \in Seq(Steps) /\ Titles(file)' \in Tasks!Beginnings(Titles(q))
  <2>1. Titles(file)' = Titles(file')
    BY DEF Titles
  <2> QED
    BY <1>3, <1>5, <2>1, CutIsPlan
<1>4. Tasks!MarkDone
  <2> DEFINE before == Titles(job.plan)
  <2>1. /\ before = [i \in DOMAIN job.plan |-> [title |-> job.plan[i].title, done |-> job.plan[i].done]]
        /\ DOMAIN before = DOMAIN job.plan
    BY <1>1, TitlesOf
  <2>2. Titles(q) = [i \in DOMAIN q |-> [title |-> q[i].title, done |-> q[i].done]]
    <3>1. q # NoPlan
      BY <1>3, WorkAssumption
    <3> QED
      BY <3>1 DEF Titles
  <2> HIDE DEF before
  <2>3. Titles(q) = [before EXCEPT ![job.at].done = TRUE]
    <3>1. [before EXCEPT ![job.at].done = TRUE]
            = [i \in DOMAIN job.plan |-> IF i = job.at THEN [before[i] EXCEPT !.done = TRUE] ELSE before[i]]
      BY <1>1, <2>1
    <3>2. ASSUME NEW i \in DOMAIN job.plan
          PROVE  [title |-> q[i].title, done |-> q[i].done]
                   = IF i = job.at THEN [before[i] EXCEPT !.done = TRUE] ELSE before[i]
      <4>1. before[i] = [title |-> job.plan[i].title, done |-> job.plan[i].done]
        BY <2>1
      <4>2. job.plan[i].done \in BOOLEAN
        <5>1. job.plan[i] \in Steps
          BY <1>1
        <5> QED
          BY <5>1 DEF Steps
      <4>3. /\ q[i].title = job.plan[i].title
            /\ q[i].done = (job.plan[i].done \/ i = job.at)
        BY <1>3
      <4>4. CASE i = job.at
        <5>1. job.plan[i].title \in STRING
          <6>1. job.plan[i] \in Steps
            BY <1>1
          <6> QED
            BY <6>1 DEF Steps
        <5>2. before[i] \in [title : STRING, done : BOOLEAN] /\ before[i].title = job.plan[i].title
          BY <4>1, <4>2, <5>1
        <5>3. [before[i] EXCEPT !.done = TRUE] = [title |-> job.plan[i].title, done |-> TRUE]
          BY <5>2, TickedIs
        <5> QED
          BY <4>3, <4>4, <5>3
      <4>5. CASE i # job.at
        BY <4>1, <4>2, <4>3, <4>5
      <4> QED
        BY <4>4, <4>5
    <3> QED
      BY <1>3, <2>2, <3>1, <3>2
  <2>4. Tasks!IsFirstOpen(before, job.at)
    <3>1. job.plan \in Seq(Steps) /\ \A i \in DOMAIN job.plan : before[i].done = job.plan[i].done
      BY <1>1, <2>1
    <3>2. 1 .. job.at - 1 \subseteq DOMAIN job.plan
      BY <1>1
    <3> QED
      BY <1>1, <2>1, <3>1, <3>2 DEF Tasks!IsFirstOpen, FirstOpen
  <2>5. job.at \in DOMAIN before
    BY <1>1, <2>1
  <2>6. /\ (IF job.kind \in {"step", "unsaved"} THEN Titles(job.plan) ELSE <<>>) = before
        /\ (IF job.kind \in {"step", "unsaved"} THEN Titles(job.plan) ELSE <<>>)' = <<>>
        /\ (job.kind = "unsaved" /\ ~job.seen) /\ ~(job.kind = "unsaved" /\ ~job.seen)'
    BY <1>2 DEF before
  <2> QED
    BY <1>6, <2>3, <2>4, <2>5, <2>6 DEF Tasks!MarkDone
<1> QED
  BY <1>4, <1>6 DEF Promised, Tasks!Next

\* When the process dies nothing is left to hold.
LEMMA DyingKeeps ==
  ASSUME WorkInv, Dies, report' \in Reports,
         \/ UNCHANGED file
         \/ Rewritten /\ job.kind \notin {"step", "unsaved"}
         \/ file' \in CutShort(Formatted(Marked)) /\ job.kind = "unsaved"
  PROVE  Kept
<1>1. job' = Idle /\ loop' = NoLoop
  BY DEF Dies
<1>2. agent' \in Agents /\ agent'.model = agent'.chosen
  BY DEF Dies, Agents, Named
<1>3. LoopInv'
  BY <1>1, NoLoopCounts DEF LoopInv, Counted
<1>4. job'.kind = "none"
  BY <1>1, IdleIsJob
<1>5. Promised /\ file' \in Seq(Steps) \cup {NoPlan}
  BY <1>4, NoStepPromised, StepPromised, MarkedPromised, RewrittenType DEF Rewritten, WorkInv, TypeInv
<1> QED
  BY <1>1, <1>2, <1>3, <1>5, IdleKeeps, IdleIsJob DEF Kept, TypeInv

\* An operation that waits for something other than a step.
LEMMA WaitKeeps ==
  ASSUME WorkInv, CanAct, job.kind # "step", NEW j \in Jobs, Await(j),
         j.kind \in {"planning", "chat", "pipeline", "rating"},
         j.kind \in {"pipeline", "rating"} => Len(j.passed) < Len(j.files),
         UNCHANGED <<file, agent>>, report' \in Reports
  PROVE  Kept
<1>1. job' = j /\ LoopInv'
  BY AwaitLoop DEF WorkInv
<1>2. StepInv' /\ LentInv'
  BY <1>1 DEF StepInv, LentInv, WorkInv
<1>3. Promised
  BY <1>1, NoStepPromised, StepPromised DEF Rewritten
<1> QED
  BY <1>1, <1>2, <1>3 DEF Kept, WorkInv, TypeInv

-----------------------------------------------------------------------------
(* How the operations begin.                                               *)

Beginning == WorkInv /\ CanAct /\ job = Idle /\ report' \in Reports

LEMMA AuthorsModel ==
  ASSUME Beginning
  PROVE  job.kind = "none" /\ agent \in Agents /\ agent.model = agent.chosen
BY IdleIsJob DEF Beginning, WorkInv, TypeInv, LentInv

LEMMA TaskKeeps ==
  ASSUME Beginning, PlanTask
  PROVE  Kept
<1> DEFINE j == [Idle EXCEPT !.kind = "planning"]
<1>1. j \in Jobs /\ j.kind = "planning"
  BY IdleIsJob DEF Jobs, Kinds
<1>2. CASE agent.model = NoModel
  BY <1>2, EndsKeeps, AuthorsModel DEF PlanTask, Beginning
<1>3. CASE agent.model # NoModel
  <2>1. Await(j)
    BY <1>3 DEF PlanTask
  <2> HIDE DEF j
  <2> QED
    BY <1>1, <2>1, WaitKeeps, AuthorsModel DEF PlanTask, Beginning
<1> QED
  BY <1>2, <1>3

LEMMA NextStepIsFirst ==
  ASSUME NEW p, NextStep(p) # 0
  PROVE  NextStep(p) \in DOMAIN p /\ FirstOpen(p, NextStep(p))
BY DEF NextStep

LEMMA NextKeeps ==
  ASSUME Beginning, PlanNext
  PROVE  Kept
<1>1. CASE agent.model = NoModel \/ file = NoPlan
  <2>1. Ends(TRUE) /\ UNCHANGED <<file, agent>>
    BY <1>1 DEF PlanNext
  <2> QED
    BY <2>1, EndsKeeps, AuthorsModel DEF Beginning
<1>2. CASE ~(agent.model = NoModel \/ file = NoPlan) /\ NextStep(file) = 0
  <2>1. (\E err \in BOOLEAN : Ends(err)) /\ UNCHANGED <<file, agent>>
    BY <1>2 DEF PlanNext
  <2> QED
    BY <2>1, EndsKeeps, AuthorsModel DEF Beginning
<1>3. CASE ~(agent.model = NoModel \/ file = NoPlan) /\ NextStep(file) # 0
  <2> DEFINE at == NextStep(file)
  <2>1. PICK tools \in ToolModes, given \in {NoModel, agent.model} :
          /\ Await([Idle EXCEPT !.kind = "step", !.plan = file, !.at = at,
                             !.tools = tools, !.gives = given])
          /\ agent' = IF given = NoModel THEN agent
                      ELSE [agent EXCEPT !.model = file[at].model]
    BY <1>3 DEF PlanNext
  <2> DEFINE j == [Idle EXCEPT !.kind = "step", !.plan = file, !.at = at,
                               !.tools = tools, !.gives = given]
  <2>2. file \in Seq(Steps) /\ at \in DOMAIN file /\ FirstOpen(file, at)
    BY <1>3, NextStepIsFirst DEF Beginning, WorkInv, TypeInv
  <2>3. given \in Named /\ tools \in BOOLEAN /\ at \in Nat
    <3>1. given \in Named
      BY AuthorsModel DEF Agents, Named
    <3> QED
      BY <2>2, <3>1, WorkAssumption
  <2>4. j \in Jobs /\ j.kind = "step" /\ j.plan = file /\ j.at = at /\ j.gives = given
    <3> DEFINE one == [Idle EXCEPT !.kind = "step"]
               two == [one EXCEPT !.plan = file]
               three == [two EXCEPT !.at = at]
               four == [three EXCEPT !.tools = tools]
               five == [four EXCEPT !.gives = given]
    <3>1. j = five
      OBVIOUS
    <3>2. one \in Jobs /\ one.kind = "step"
      BY IdleIsJob DEF Jobs, Kinds
    <3> HIDE DEF one
    <3>3. two \in Jobs /\ two.kind = "step" /\ two.plan = file
      BY <2>2, <3>2 DEF Jobs
    <3> HIDE DEF two, at
    <3>4. three \in Jobs /\ three.kind = "step" /\ three.plan = file /\ three.at = at
      BY <2>3, <3>3 DEF Jobs
    <3> HIDE DEF three
    <3>5. four \in Jobs /\ four.kind = "step" /\ four.plan = file /\ four.at = at
      BY <2>3, <3>4 DEF Jobs
    <3> HIDE DEF four
    <3>6. five \in Jobs /\ five.kind = "step" /\ five.plan = file /\ five.at = at
            /\ five.gives = given
      BY <2>3, <3>5 DEF Jobs
    <3> QED
      BY <3>1, <3>6
  <2> HIDE DEF j
  <2>5. job' = j /\ LoopInv' /\ UNCHANGED file
    BY <2>1, <2>4, AwaitLoop DEF Beginning, WorkInv, PlanNext, j
  <2>6. StepInv'
    BY <2>2, <2>4, <2>5 DEF StepInv
  <2>7. agent' \in Agents /\ LentInv'
    <3>1. file[at].model \in Named
      <4>1. file[at] \in Steps
        BY <2>2
      <4> QED
        BY <4>1 DEF Steps, Named
    <3>2. CASE given = NoModel
      BY <2>1, <2>4, <2>5, <3>2, AuthorsModel DEF LentInv
    <3>3. CASE given # NoModel
      <4>1. agent' = [agent EXCEPT !.model = file[at].model]
        BY <2>1, <3>3
      <4>2. agent' \in Agents /\ agent'.chosen = agent.chosen
        BY <4>1, <3>1, AuthorsModel DEF Agents
      <4> QED
        BY <4>2, <2>4, <2>5, <3>3, AuthorsModel DEF LentInv
    <3> QED
      BY <3>2, <3>3
  <2>8. Promised
    <3>1. /\ DOMAIN Titles(file) = DOMAIN file
          /\ Titles(file)[at].done = file[at].done
      BY <2>2, TitlesOf
    <3>2. Tasks!Begin
      BY <2>2, <2>4, <2>5, <3>1, AuthorsModel DEF Tasks!Begin, FirstOpen, Titles
    <3> QED
      BY <3>2 DEF Promised, Tasks!Next
  <2> QED
    BY <2>4, <2>5, <2>6, <2>7, <2>8 DEF Kept, TypeInv, Beginning, WorkInv
<1> QED
  BY <1>1, <1>2, <1>3

LEMMA ChatKeeps ==
  ASSUME Beginning, NEW skill \in BOOLEAN, Chat(skill)
  PROVE  Kept
<1>1. CASE agent.model # NoModel
  <2> DEFINE one == [Idle EXCEPT !.kind = "chat"]
             j == [one EXCEPT !.tools = skill]
  <2>1. Await([Idle EXCEPT !.kind = "chat", !.tools = skill]) /\ UNCHANGED <<file, agent>>
    BY <1>1 DEF Chat
  <2>2. Await(j)
    BY <2>1
  <2>3. one \in Jobs /\ one.kind = "chat"
    BY IdleIsJob DEF Jobs, Kinds
  <2> HIDE DEF one
  <2>4. j \in Jobs /\ j.kind = "chat"
    BY <2>3 DEF Jobs
  <2> HIDE DEF j
  <2> QED
    BY <2>1, <2>2, <2>4, WaitKeeps, AuthorsModel DEF Beginning
<1>2. CASE agent.model = NoModel /\ loop.phase = "off"
  <2>1. Ends(TRUE) /\ UNCHANGED <<file, agent>>
    BY <1>2 DEF Chat
  <2> QED
    BY <2>1, EndsKeeps, AuthorsModel DEF Beginning
<1>3. CASE agent.model = NoModel /\ loop.phase # "off"
  <2>1. Dies /\ UNCHANGED file
    BY <1>3 DEF Chat
  <2> QED
    BY <2>1, DyingKeeps DEF Beginning
<1> QED
  BY <1>1, <1>2, <1>3

\* The next file of a pipeline, from the first on.
LEMMA CallsKeep ==
  ASSUME WorkInv, CanAct, job.kind # "step", report' \in Reports,
         NEW fs \in Seq(Files), NEW passed \in Seq(Answered), Len(passed) < Len(fs),
         Calls(fs, passed)
  PROVE  Kept
<1>1. CASE Faults(fs[Len(passed) + 1])
  <2>1. Dies /\ UNCHANGED file
    BY <1>1 DEF Calls
  <2> QED
    BY <2>1, DyingKeeps
<1>2. CASE ~Faults(fs[Len(passed) + 1])
  <2> DEFINE one == [Idle EXCEPT !.kind = "pipeline"]
             two == [one EXCEPT !.files = fs]
             j == [two EXCEPT !.passed = passed]
  <2>1. Await([Idle EXCEPT !.kind = "pipeline", !.files = fs, !.passed = passed])
          /\ UNCHANGED <<file, agent>>
    BY <1>2 DEF Calls
  <2>2. Await(j)
    BY <2>1
  <2>3. one \in Jobs /\ one.kind = "pipeline"
    BY IdleIsJob DEF Jobs, Kinds
  <2> HIDE DEF one
  <2>4. two \in Jobs /\ two.kind = "pipeline" /\ two.files = fs
    BY <2>3 DEF Jobs
  <2> HIDE DEF two
  <2>5. j \in Jobs /\ j.kind = "pipeline" /\ j.files = fs /\ j.passed = passed
    BY <2>4 DEF Jobs
  <2> HIDE DEF j
  <2> QED
    BY <2>1, <2>2, <2>5, WaitKeeps
<1> QED
  BY <1>1, <1>2

LEMMA PipelineKeeps ==
  ASSUME Beginning, NEW fs \in Pipelines, Pipeline(fs)
  PROVE  Kept
<1>1. fs \in Seq(Files) /\ Len(fs) > 0
  <2>1. fs \in Seq(Files) /\ fs # <<>>
    BY WorkAssumption
  <2> QED
    BY <2>1, EmptySeq
<1>2. CASE \E i \in DOMAIN fs : ~fs[i].readable \/ ~Resolves(fs[i])
  <2>1. Ends(TRUE) /\ UNCHANGED <<file, agent>>
    BY <1>2 DEF Pipeline
  <2> QED
    BY <2>1, EndsKeeps, AuthorsModel DEF Beginning
<1>3. CASE ~\E i \in DOMAIN fs : ~fs[i].readable \/ ~Resolves(fs[i])
  <2>1. Calls(fs, <<>>)
    BY <1>3 DEF Pipeline
  <2>2. << >> \in Seq(Answered) /\ Len(<< >>) < Len(fs)
    BY <1>1
  <2> QED
    BY <1>1, <2>1, <2>2, CallsKeep, AuthorsModel DEF Beginning
<1> QED
  BY <1>2, <1>3

LEMMA BeginKeeps ==
  ASSUME Beginning, NEW op, Begin(op)
  PROVE  Kept
BY TaskKeeps, NextKeeps, ChatKeeps, PipelineKeeps DEF Begin

-----------------------------------------------------------------------------
(* How they end.                                                           *)

LEMMA WaitingCanAct ==
  ASSUME WorkInv, job.kind # "none"
  PROVE  loop.phase \in {"off", "running"} /\ CanAct
BY IdleIsJob DEF WorkInv, LoopInv, Repeats, CanAct

\* The plan in an answer is saved, or not, and the operation is over.
LEMMA SavedIs ==
  ASSUME job.kind \in {"planning", "chat"}, NEW e \in BOOLEAN, SavePlan(e)
  PROVE  Rewritten /\ \E err \in BOOLEAN : Ends(err)
<1>1. Saving \subseteq Plans
  BY DEF Saving
<1> PICK p \in Saving :
       \/ file' = p /\ Ends(FALSE)
       \/ (UNCHANGED file \/ file' \in CutShort(p)) /\ Ends(e)
  BY DEF SavePlan
<1>2. p \in Plans /\ p \in CutShort(p)
  BY <1>1, WholeIsCut, WorkAssumption
<1> QED
  BY <1>2 DEF Rewritten

LEMMA PlanAnswerKeeps ==
  ASSUME WorkInv, PlanAnswer
  PROVE  Kept
<1>1. job.kind = "planning" /\ UNCHANGED <<agent, report>>
  BY DEF PlanAnswer
<1>3. Rewritten /\ \E err \in BOOLEAN : Ends(err)
  BY <1>1, SavedIs DEF PlanAnswer, Rewritten
<1>2. agent' \in Agents /\ agent'.model = agent'.chosen /\ report' \in Reports
  BY <1>1 DEF WorkInv, TypeInv, LentInv
<1> QED
  BY <1>1, <1>2, <1>3, WaitingCanAct, EndsKeeps

LEMMA ChatAnswerKeeps ==
  ASSUME WorkInv, ChatAnswer
  PROVE  Kept
<1>1. job.kind = "chat" /\ UNCHANGED <<agent, report>>
  BY DEF ChatAnswer
<1>3. Rewritten /\ \E err \in BOOLEAN : Ends(err)
  BY <1>1, SavedIs DEF ChatAnswer, Rewritten
<1>2. agent' \in Agents /\ agent'.model = agent'.chosen /\ report' \in Reports
  BY <1>1 DEF WorkInv, TypeInv, LentInv
<1> QED
  BY <1>1, <1>2, <1>3, WaitingCanAct, EndsKeeps

\* However a step ends, what it borrowed is given back.
LEMMA GivenBack ==
  ASSUME WorkInv, job.kind = "step", agent' = Restored
  PROVE  agent' \in Agents /\ agent'.model = agent'.chosen
<1>1. agent \in Agents /\ job.gives \in Named
  BY DEF WorkInv, TypeInv, Jobs
<1>2. CASE job.gives = NoModel
  BY <1>1, <1>2 DEF Restored, WorkInv, LentInv
<1>3. CASE job.gives # NoModel
  <2>1. agent' = [agent EXCEPT !.model = job.gives] /\ agent.chosen = job.gives
    BY <1>3 DEF Restored, WorkInv, LentInv
  <2> QED
    BY <1>1, <2>1 DEF Agents
<1> QED
  BY <1>2, <1>3

LEMMA StepFailsKeeps ==
  ASSUME WorkInv, StepFails
  PROVE  Kept
<1>1. job.kind = "step" /\ agent' = Restored /\ Ends(TRUE) /\ UNCHANGED <<file, report>>
  BY DEF StepFails
<1>2. report' \in Reports
  BY <1>1 DEF WorkInv, TypeInv
<1> QED
  BY <1>1, <1>2, GivenBack, WaitingCanAct, EndsKeeps

LEMMA StepAnswerKeeps ==
  ASSUME WorkInv, StepAnswer
  PROVE  Kept
<1>1. job.kind = "step" /\ agent' = Restored /\ UNCHANGED <<file, report>>
  BY DEF StepAnswer
<1>2. report' \in Reports
  BY <1>1 DEF WorkInv, TypeInv
<1>3. CASE HadErrors
  BY <1>1, <1>2, <1>3, GivenBack, WaitingCanAct, EndsKeeps DEF StepAnswer
<1>4. CASE ~HadErrors
  <2> DEFINE one == [job EXCEPT !.kind = "unsaved"]
             j == [one EXCEPT !.gives = NoModel]
  <2>1. job' = j /\ UNCHANGED loop
    BY <1>4 DEF StepAnswer
  <2>2. one \in Jobs /\ one.kind = "unsaved" /\ one.plan = job.plan /\ one.at = job.at /\ one.seen = job.seen
    BY DEF WorkInv, TypeInv, Jobs, Kinds
  <2> HIDE DEF one
  <2>3. /\ j \in Jobs /\ j.kind = "unsaved" /\ j.plan = job.plan /\ j.at = job.at
        /\ j.seen = job.seen /\ j.gives = NoModel
    BY <2>2 DEF Jobs, Named
  <2> HIDE DEF j
  <2>4. StepInv' /\ LentInv' /\ LoopInv'
    BY <1>1, <1>4, <2>1, <2>3, GivenBack, WaitingCanAct
      DEF StepInv, LentInv, LoopInv, WorkInv, HadErrors, Counted
  <2>5. Tasks!Run
    <3>1. Titles(job.plan) # <<>>
      <4>1. job.plan \in Seq(Steps) /\ job.plan # <<>>
        BY <1>1 DEF WorkInv, StepInv
      <4> QED
        BY <4>1, TitlesOf
    <3> QED
      BY <1>1, <1>4, <2>1, <2>3, <3>1 DEF Tasks!Run, Titles, HadErrors
  <2> QED
    BY <1>1, <1>2, <2>1, <2>3, <2>4, <2>5, GivenBack DEF Kept, Promised, Tasks!Next, WorkInv, TypeInv
<1> QED
  BY <1>3, <1>4

LEMMA SaveStepKeeps ==
  ASSUME WorkInv, SaveStep
  PROVE  Kept
<1>1. job.kind = "unsaved" /\ UNCHANGED <<agent, report>> /\ SavePlan(TRUE)
  BY DEF SaveStep
<1>2. agent' \in Agents /\ agent'.model = agent'.chosen /\ report' \in Reports
  BY <1>1 DEF WorkInv, TypeInv, LentInv
<1>3. \E err \in BOOLEAN : Ends(err)
  BY <1>1 DEF SavePlan
<1>4. UNCHANGED file \/ file' \in CutShort(Formatted(Marked))
  <2>1. Saving = {Formatted(Marked)}
    BY <1>1 DEF Saving
  <2>2. Formatted(Marked) \in CutShort(Formatted(Marked))
    BY <1>1, MarkedIsPlan, WholeIsCut
  <2> QED
    BY <1>1, <2>1, <2>2 DEF SavePlan
<1>5. CASE UNCHANGED file
  BY <1>1, <1>2, <1>3, <1>5, WaitingCanAct, EndsKeeps
<1>6. CASE file' \in CutShort(Formatted(Marked))
  <2>1. job' = Idle /\ LoopInv' /\ job'.kind = "none"
    BY <1>1, <1>3, WaitingCanAct, EndsLoop, IdleIsJob DEF WorkInv
  <2> QED
    BY <1>1, <1>2, <1>6, <2>1, MarkedPromised, IdleKeeps, IdleIsJob DEF Kept, TypeInv
<1> QED
  BY <1>4, <1>5, <1>6

LEMMA JudgedKeeps ==
  ASSUME WorkInv, job.kind \in {"pipeline", "rating"}, NEW score \in Nat, Judged(score), UNCHANGED report
  PROVE  Kept
<1> DEFINE n == Len(job.passed) + 1
           passed == Append(job.passed, [file |-> job.files[n], score |-> score])
<1>1. /\ job.files \in Seq(Files) /\ job.passed \in Seq(Answered) /\ Len(job.passed) < Len(job.files)
      /\ agent \in Agents /\ agent.model = agent.chosen /\ report' \in Reports
  BY DEF WorkInv, TypeInv, StepInv, LentInv, Jobs
<1>2. CanAct
  BY WaitingCanAct
<1>3. passed \in Seq(Answered) /\ Len(passed) = n
  <2>1. job.files[n] \in Files
    BY <1>1
  <2>2. [file |-> job.files[n], score |-> score] \in Answered
    BY <2>1 DEF Answered
  <2> QED
    BY <1>1, <2>2
<1>4. CASE ~Passes(score)
  <2>1. Ends(TRUE) /\ UNCHANGED <<file, agent>>
    BY <1>4 DEF Judged
  <2> QED
    BY <1>1, <1>2, <2>1, EndsKeeps
<1>5. CASE Passes(score) /\ n < Len(job.files)
  <2>1. Calls(job.files, passed)
    BY <1>5 DEF Judged
  <2> HIDE DEF passed
  <2> QED
    BY <1>1, <1>2, <1>3, <1>5, <2>1, CallsKeep
<1>6. CASE Passes(score) /\ ~(n < Len(job.files))
  <2>1. agent' = [agent EXCEPT !.history = Append(@, passed)] /\ Ends(FALSE) /\ UNCHANGED file
    BY <1>6 DEF Judged
  <2> HIDE DEF passed
  <2>2. Append(agent.history, passed) \in Seq(Seq(Answered))
    BY <1>1, <1>3 DEF Agents
  <2>3. agent' \in Agents /\ agent'.model = agent'.chosen
    BY <1>1, <2>1, <2>2 DEF Agents
  <2> QED
    BY <1>1, <1>2, <2>1, <2>3, EndsKeeps
<1> QED
  BY <1>4, <1>5, <1>6

LEMMA PipelineAnswerKeeps ==
  ASSUME WorkInv, PipelineAnswer
  PROVE  Kept
<1>1. job.kind = "pipeline" /\ UNCHANGED report /\ report' \in Reports
  BY DEF PipelineAnswer, WorkInv, TypeInv
<1>2. CASE Ends(TRUE) /\ UNCHANGED <<file, agent>>
  <2>1. agent' \in Agents /\ agent'.model = agent'.chosen
    BY <1>1, <1>2 DEF WorkInv, TypeInv, LentInv
  <2> QED
    BY <1>1, <1>2, <2>1, WaitingCanAct, EndsKeeps
<1>3. CASE \E score \in Scores : Judged(score)
  BY SMTT(30), <1>1, <1>3, JudgedKeeps, WorkAssumption
<1>4. CASE job' = [job EXCEPT !.kind = "rating"] /\ UNCHANGED <<file, agent, loop>>
  <2>1. /\ job' \in Jobs /\ job'.kind = "rating" /\ job'.passed = job.passed
        /\ job'.files = job.files
    BY <1>4 DEF WorkInv, TypeInv, Jobs, Kinds
  <2>2. StepInv' /\ LentInv'
    BY <1>1, <1>4, <2>1 DEF StepInv, LentInv, WorkInv
  <2>3. LoopInv'
    BY <1>1, <1>4, WaitingCanAct DEF LoopInv, WorkInv, Counted
  <2>4. Promised
    BY <1>1, <1>4, <2>1, NoStepPromised DEF Rewritten
  <2> QED
    BY <1>1, <1>4, <2>1, <2>2, <2>3, <2>4 DEF Kept, WorkInv, TypeInv
<1> QED
  BY <1>2, <1>3, <1>4 DEF PipelineAnswer

LEMMA RatingAnswerKeeps ==
  ASSUME WorkInv, RatingAnswer
  PROVE  Kept
<1>1. Hedged \in 1 .. 100 /\ Unhedged \in 1 .. 100 /\ Scores \subseteq 0 .. 100
  BY WorkAssumption
<1>2. \A score \in Scores \cup {Hedged, Unhedged} : score \in Nat
  BY <1>1
<1> QED
  BY <1>2, JudgedKeeps DEF RatingAnswer

-----------------------------------------------------------------------------
(* What happens between the answers.                                       *)

LEMMA RoundJob ==
  ASSUME WorkInv, NEW fails \in BOOLEAN, NEW content \in BOOLEAN, Round(fails, content)
  PROVE  /\ job.kind = "step" /\ job' \in Jobs /\ job'.kind = "step"
         /\ job'.plan = job.plan /\ job'.at = job.at /\ job'.gives = job.gives
<1> DEFINE s == job.seen \/ (fails /\ (content \/ ~Compaction))
           one == [job EXCEPT !.rounds = job.rounds + 1]
           j == [one EXCEPT !.seen = s]
<1>1. /\ job.kind = "step"
      /\ job' = [job EXCEPT !.rounds = @ + 1,
                            !.seen = @ \/ (fails /\ (content \/ ~Compaction))]
  BY DEF Round
<1>2. job' = j
  BY <1>1 DEF WorkInv, TypeInv, Jobs
<1>3. one \in Jobs /\ one.kind = "step" /\ one.plan = job.plan /\ one.at = job.at /\ one.gives = job.gives
  <2>1. job \in Jobs /\ job.rounds \in Nat
    BY DEF WorkInv, TypeInv, Jobs
  <2>2. job.rounds + 1 \in Nat
    BY <2>1
  <2> QED
    BY <1>1, <2>1, <2>2 DEF Jobs
<1> HIDE DEF one
<1>4. s \in BOOLEAN
  OBVIOUS
<1> HIDE DEF s
<1>5. j \in Jobs /\ j.kind = "step" /\ j.plan = job.plan /\ j.at = job.at /\ j.gives = job.gives
  BY <1>3, <1>4 DEF Jobs
<1> QED
  BY <1>1, <1>2, <1>5

\* A round of a step's tool loop, in which the plan may be written over.
LEMMA RoundKeeps ==
  ASSUME WorkInv, NEW fails \in BOOLEAN, NEW content \in BOOLEAN, Round(fails, content),
         UNCHANGED <<agent, loop, report>>, Rewritten
  PROVE  Kept
<1>1. /\ job.kind = "step" /\ job' \in Jobs /\ job'.kind = "step"
      /\ job'.plan = job.plan /\ job'.at = job.at /\ job'.gives = job.gives
  BY RoundJob
<1>2. StepInv' /\ LentInv'
  BY <1>1 DEF StepInv, LentInv, WorkInv
<1>3. LoopInv'
  BY <1>1, WaitingCanAct DEF LoopInv, WorkInv, Counted
<1>4. Promised
  BY <1>1, StepPromised, WrittenOver DEF Rewritten
<1> QED
  BY <1>1, <1>2, <1>3, <1>4, RewrittenType DEF Kept, WorkInv, TypeInv

LEMMA StepEditsKeeps ==
  ASSUME WorkInv, NEW p \in Plans, StepEdits(p)
  PROVE  Kept
<1>1. p \in CutShort(p)
  BY WholeIsCut, WorkAssumption
<1> QED
  BY <1>1, RoundKeeps DEF StepEdits, Rewritten

LEMMA EditKeeps ==
  ASSUME WorkInv, NEW p \in Plans, EditPlan(p)
  PROVE  Kept
<1>1. UNCHANGED <<agent, job, loop, report>> /\ file' = p /\ p \in Seq(Steps)
  BY WorkAssumption DEF EditPlan
<1>2. Promised
  BY <1>1, WholeIsCut, WrittenOver
<1> QED
  BY <1>1, <1>2 DEF Kept, WorkInv, TypeInv, StepInv, LentInv, LoopInv, Counted, FirstOpen

\* While nothing but the loop and what is said of it changes.
LEMMA LoopOnly ==
  ASSUME WorkInv, UNCHANGED <<file, agent, job>>, LoopInv', report' \in Reports
  PROVE  Kept
<1>1. Promised
  BY DEF Promised, Tasks!vars, Titles
<1> QED
  BY <1>1 DEF Kept, WorkInv, TypeInv, StepInv, LentInv, FirstOpen

LEMMA InterruptKeeps ==
  ASSUME WorkInv, Interrupt
  PROVE  Kept
<1>1. UNCHANGED <<file, agent, report>>
  BY DEF Interrupt
<1>2. CASE loop.phase = "off"
  <2>1. job' = [job EXCEPT !.cut = TRUE] /\ UNCHANGED loop /\ job.kind = "chat"
    BY <1>2 DEF Interrupt, Watched
  <2>2. job' \in Jobs /\ job'.kind = "chat"
    BY <2>1 DEF WorkInv, TypeInv, Jobs
  <2>3. StepInv' /\ LentInv' /\ LoopInv'
    BY <1>1, <1>2, <2>1, <2>2 DEF StepInv, LentInv, WorkInv, LoopInv, Counted
  <2>4. Promised
    BY <1>1, <2>1, <2>2, NoStepPromised DEF Rewritten
  <2> QED
    BY <1>1, <2>2, <2>3, <2>4 DEF Kept, WorkInv, TypeInv
<1>3. CASE loop.phase # "off"
  <2>1. loop' = [loop EXCEPT !.interrupted = TRUE] /\ UNCHANGED job
    BY <1>3 DEF Interrupt
  <2>2. /\ loop' \in Repeats /\ loop'.phase = loop.phase /\ loop'.i = loop.i
        /\ loop'.begun = loop.begun /\ loop'.ended = loop.ended
        /\ loop'.completed = loop.completed /\ loop'.failed = loop.failed
        /\ loop'.failures = loop.failures /\ loop'.interrupted = TRUE
    BY <2>1 DEF WorkInv, LoopInv, Repeats
  <2>3. LoopInv'
    BY <2>1, <2>2 DEF WorkInv, LoopInv, Counted
  <2>4. report' \in Reports
    BY <1>1 DEF WorkInv, TypeInv
  <2> QED
    BY <1>1, <2>1, <2>3, <2>4, LoopOnly
<1> QED
  BY <1>2, <1>3

LEMMA KilledKeeps ==
  ASSUME WorkInv, Killed
  PROVE  Kept
<1>1. Dies /\ report' \in Reports /\ (UNCHANGED file \/ \E p \in Saving : file' \in CutShort(p))
  BY DEF Killed, WorkInv, TypeInv
<1>2. CASE job.kind = "unsaved"
  <2>1. Saving = {Formatted(Marked)}
    BY <1>2 DEF Saving
  <2> QED
    BY <1>1, <1>2, <2>1, DyingKeeps
<1>3. CASE job.kind # "unsaved"
  <2>1. Saving \subseteq Plans /\ (job.kind = "step" => Saving = {})
    BY <1>3 DEF Saving
  <2> QED
    BY <1>1, <1>3, <2>1, DyingKeeps DEF Rewritten
<1> QED
  BY <1>2, <1>3

-----------------------------------------------------------------------------
(* The steps of the loop itself, and what it says in the end.              *)

LEMMA LoopBeginsKeeps ==
  ASSUME WorkInv, LoopBegins
  PROVE  Kept
<1>1. Beginning /\ Begin(loop.what)
  BY DEF LoopBegins, Beginning, CanAct, WorkInv, LoopInv, TypeInv
<1> QED
  BY <1>1, BeginKeeps

\* What a loop says as it ends is true if its counts are.
LEMMA LoopSaysTruly ==
  ASSUME WorkInv, NEW how \in {"stopped", "cancelled", "finished"}, NEW completed \in Nat,
         LoopSays(how, completed), completed <= loop.ended,
         loop.begun - completed \in (IF how = "cancelled" THEN {0, 1} ELSE {0}),
         how = "finished" => loop.begun = Count
  PROVE  Kept /\ LoopSaysWhatItDid'
<1>1. /\ loop' = NoLoop /\ UNCHANGED <<file, agent, job>>
      /\ report' = [how |-> how, completed |-> completed, begun |-> loop.begun, ended |-> loop.ended,
                    failed |-> loop.failed, failures |-> loop.failures]
  BY DEF LoopSays
<1>2. report' \in Reports
  BY <1>1 DEF WorkInv, LoopInv, Repeats, Reports
<1>3. LoopInv'
  BY <1>1, NoLoopCounts DEF LoopInv, Counted
<1>4. LoopSaysWhatItDid'
  BY <1>1 DEF LoopSaysWhatItDid, WorkInv, LoopInv, Counted
<1> QED
  BY <1>1, <1>2, <1>3, <1>4, LoopOnly

LEMMA LoopEndsKeeps ==
  ASSUME WorkInv, LoopStops \/ LoopCancelled \/ LoopFinishes
  PROVE  Kept /\ LoopSaysWhatItDid'
<1>1. loop \in Repeats /\ Counted(loop)
  BY DEF WorkInv, LoopInv
<1>2. CASE LoopStops
  <2>1. loop.phase = "begin" /\ LoopSays("stopped", loop.completed)
    BY <1>2 DEF LoopStops
  <2> QED
    BY <1>1, <2>1, LoopSaysTruly DEF Counted, Repeats
<1>3. CASE LoopCancelled
  <2>1. loop.phase \in {"begin", "ended", "pause"} /\ LoopSays("cancelled", loop.completed)
    BY <1>3 DEF LoopCancelled
  <2> QED
    BY <1>1, <2>1, LoopSaysTruly DEF Counted, Repeats
<1>4. CASE LoopFinishes
  <2>1. loop.phase = "ended" /\ ~loop.interrupted /\ loop.i = Count /\ LoopSays("finished", loop.i)
    BY <1>4 DEF LoopFinishes
  <2> QED
    BY <1>1, <2>1, LoopSaysTruly DEF Counted, Repeats
<1> QED
  BY <1>2, <1>3, <1>4

LEMMA PauseKeeps ==
  ASSUME WorkInv, LoopPauses \/ TimerFires
  PROVE  Kept
<1>1. UNCHANGED <<file, agent, job, report>> /\ job = Idle
  BY DEF LoopPauses, TimerFires, WorkInv, LoopInv
<1>3. loop \in Repeats /\ loop.i \in Nat /\ Count \in Nat
  BY WorkAssumption DEF WorkInv, LoopInv, Repeats
<1>2. LoopInv'
  <2>1. CASE LoopPauses
    <3> DEFINE one == [loop EXCEPT !.phase = "pause"]
    <3>1. /\ loop.phase = "ended" /\ ~loop.interrupted /\ loop.i < Count
          /\ loop' = [one EXCEPT !.completed = loop.i]
      BY <2>1 DEF LoopPauses
    <3>2. /\ one \in Repeats /\ one.phase = "pause" /\ one.i = loop.i /\ one.begun = loop.begun
          /\ one.ended = loop.ended /\ one.failed = loop.failed /\ one.failures = loop.failures
      BY <1>3 DEF Repeats
    <3> HIDE DEF one
    <3>3. /\ loop' \in Repeats /\ loop'.phase = "pause" /\ loop'.i = loop.i
          /\ loop'.begun = loop.begun /\ loop'.ended = loop.ended /\ loop'.completed = loop.i
          /\ loop'.failed = loop.failed /\ loop'.failures = loop.failures
      BY <1>3, <3>1, <3>2 DEF Repeats
    <3>4. loop.i \in 1 .. Count - 1
      BY <1>3, <3>1 DEF WorkInv, LoopInv, Counted
    <3> QED
      BY <1>1, <3>1, <3>3, <3>4 DEF WorkInv, LoopInv, Counted
  <2>2. CASE TimerFires
    <3> DEFINE one == [loop EXCEPT !.phase = "begin"]
    <3>1. loop.phase = "pause" /\ loop' = [one EXCEPT !.i = loop.i + 1]
      BY <2>2 DEF TimerFires, WorkInv, LoopInv, Repeats
    <3>2. /\ one \in Repeats /\ one.phase = "begin" /\ one.begun = loop.begun
          /\ one.ended = loop.ended /\ one.completed = loop.completed
          /\ one.failed = loop.failed /\ one.failures = loop.failures /\ one.i = loop.i
      BY <1>3 DEF Repeats
    <3> HIDE DEF one
    <3>3. /\ loop' \in Repeats /\ loop'.phase = "begin" /\ loop'.i = loop.i + 1
          /\ loop'.begun = loop.begun /\ loop'.ended = loop.ended /\ loop'.completed = loop.completed
          /\ loop'.failed = loop.failed /\ loop'.failures = loop.failures
      <4>1. loop.i + 1 \in Nat
        BY <1>3
      <4> QED
        BY <3>1, <3>2, <4>1, SMTT(30) DEF Repeats
    <3>4. loop.i + 1 \in 1 .. Count /\ loop.i + 1 - 1 = loop.i
      BY <1>3, <3>1 DEF WorkInv, LoopInv, Counted
    <3> QED
      BY <1>1, <3>1, <3>3, <3>4 DEF WorkInv, LoopInv, Counted
  <2> QED
    BY <2>1, <2>2
<1> QED
  BY <1>1, <1>2, LoopOnly DEF WorkInv, TypeInv

-----------------------------------------------------------------------------
(* What the author types.                                                  *)

LEMMA TypedKeeps ==
  ASSUME WorkInv, Typed
  PROVE  Kept /\ LoopSaysWhatItDid'
<1>1. job = Idle /\ loop.phase = "off" /\ report' = NoReport /\ job.kind = "none"
  BY IdleIsJob DEF Typed
<1>2. report' \in Reports /\ LoopSaysWhatItDid'
  BY <1>1 DEF NoReport, Reports, LoopSaysWhatItDid
<1>3. Beginning
  BY <1>1, <1>2 DEF Beginning, CanAct
<1>4. CASE \E op \in Operations : Begin(op)
  BY <1>2, <1>3, <1>4, BeginKeeps
<1>5. CASE \E what \in Loops : LoopStart(what)
  <2> PICK what \in Loops : LoopStart(what)
    BY <1>5
  <2> DEFINE one == [NoLoop EXCEPT !.phase = "begin"]
             two == [one EXCEPT !.what = what]
  <2>1. loop' = [two EXCEPT !.i = 1] /\ UNCHANGED <<file, agent, job>>
    BY DEF LoopStart
  <2>2. /\ one \in Repeats /\ one.phase = "begin" /\ one.begun = 0 /\ one.ended = 0
        /\ one.completed = 0 /\ one.failed = FALSE /\ one.failures = 0
    <3>1. NoLoop \in Repeats
      BY NoLoopCounts
    <3>2. /\ NoLoop.begun = 0 /\ NoLoop.ended = 0 /\ NoLoop.completed = 0
          /\ NoLoop.failed = FALSE /\ NoLoop.failures = 0
      BY DEF NoLoop
    <3>3. one \in Repeats
      BY <3>1 DEF Repeats
    <3> HIDE DEF NoLoop
    <3> QED
      BY <3>1, <3>2, <3>3 DEF Repeats
  <2> HIDE DEF one
  <2>3. what \in Operations
    BY WorkAssumption
  <2>4. /\ two \in Repeats /\ two.phase = "begin" /\ two.begun = 0 /\ two.ended = 0
        /\ two.completed = 0 /\ two.failed = FALSE /\ two.failures = 0
    BY <2>2, <2>3 DEF Repeats
  <2> HIDE DEF two
  <2>5. /\ loop' \in Repeats /\ loop'.phase = "begin" /\ loop'.begun = 0 /\ loop'.ended = 0
        /\ loop'.completed = 0 /\ loop'.failed = FALSE /\ loop'.failures = 0 /\ loop'.i = 1
    BY <2>1, <2>4 DEF Repeats
  <2>6. LoopInv'
    <3>1. Count \in 1 .. 100
      BY WorkAssumption
    <3> QED
      BY <1>1, <2>1, <2>5, <3>1 DEF LoopInv, Counted
  <2> QED
    BY <1>2, <2>1, <2>6, LoopOnly
<1>6. CASE \E m \in Models : ModelUse(m)
  <2> PICK m \in Models : ModelUse(m)
    BY <1>6
  <2>1. /\ agent' = [agent EXCEPT !.model = m, !.chosen = m] /\ UNCHANGED <<file, job, loop>>
    BY DEF ModelUse
  <2>2. agent' \in Agents /\ agent'.model = agent'.chosen
    BY <2>1 DEF WorkInv, TypeInv, Agents, Named
  <2>3. StepInv' /\ LentInv' /\ LoopInv'
    BY <1>1, <2>1, <2>2, IdleKeeps DEF WorkInv, LoopInv, Counted
  <2>4. Promised
    BY <1>1, <2>1, NoStepPromised DEF Rewritten
  <2> QED
    BY <1>2, <2>1, <2>2, <2>3, <2>4 DEF Kept, WorkInv, TypeInv
<1>7. CASE PlanClear
  <2>1. file' = NoPlan /\ UNCHANGED <<agent, job, loop>>
    BY <1>7 DEF PlanClear
  <2>2. Promised
    BY <1>1, <2>1, NoStepPromised
  <2> QED
    BY <1>1, <1>2, <2>1, <2>2 DEF Kept, WorkInv, TypeInv, StepInv, LentInv, LoopInv, Counted
<1> QED
  BY <1>4, <1>5, <1>6, <1>7 DEF Typed

-----------------------------------------------------------------------------
(* The theorems.                                                           *)

LEMMA StepKeeps ==
  ASSUME WorkInv, [Next]_vars
  PROVE  WorkInv' /\ Promised
<1> USE DEF Kept
<1>1. CASE Typed
  BY <1>1, TypedKeeps DEF WorkInv
<1>2. CASE Answers
  <2>1. Kept
    BY <1>2, PlanAnswerKeeps, StepFailsKeeps, StepAnswerKeeps, SaveStepKeeps, ChatAnswerKeeps,
       PipelineAnswerKeeps, RatingAnswerKeeps DEF Answers
  <2>2. UNCHANGED report
    <3>1. SaveStep => UNCHANGED report
      BY SMT DEF SaveStep
    <3>2. PipelineAnswer \/ RatingAnswer => UNCHANGED report
      BY DEF PipelineAnswer, RatingAnswer
    <3>3. PlanAnswer \/ StepFails \/ StepAnswer \/ ChatAnswer => UNCHANGED report
      BY DEF PlanAnswer, StepFails, StepAnswer, ChatAnswer
    <3> QED
      BY <1>2, <3>1, <3>2, <3>3 DEF Answers
  <2> QED
    BY <2>1, <2>2 DEF WorkInv, LoopSaysWhatItDid
<1>3. CASE \E fails, content \in BOOLEAN : StepRound(fails, content)
  <2> PICK fails \in BOOLEAN, content \in BOOLEAN : StepRound(fails, content)
    BY <1>3
  <2>1. Kept
    BY RoundKeeps DEF StepRound, Rewritten
  <2>2. UNCHANGED report
    BY DEF StepRound
  <2> QED
    BY <2>1, <2>2 DEF WorkInv, LoopSaysWhatItDid
<1>4. CASE \E p \in Plans : StepEdits(p) \/ EditPlan(p)
  <2>1. Kept /\ UNCHANGED report
    BY <1>4, StepEditsKeeps, EditKeeps DEF StepEdits, EditPlan
  <2> QED
    BY <2>1 DEF WorkInv, LoopSaysWhatItDid
<1>5. CASE LoopSteps
  <2>1. CASE LoopStops \/ LoopCancelled \/ LoopFinishes
    BY <2>1, LoopEndsKeeps DEF WorkInv
  <2>2. CASE LoopBegins \/ LoopPauses \/ TimerFires
    <3>1. Kept /\ UNCHANGED report
      BY <2>2, LoopBeginsKeeps, PauseKeeps DEF LoopBegins, LoopPauses, TimerFires
    <3> QED
      BY <3>1 DEF WorkInv, LoopSaysWhatItDid
  <2> QED
    BY <1>5, <2>1, <2>2 DEF LoopSteps
<1>6. CASE Interrupt
  <2>1. Kept /\ UNCHANGED report
    BY <1>6, InterruptKeeps DEF Interrupt
  <2> QED
    BY <2>1 DEF WorkInv, LoopSaysWhatItDid
<1>7. CASE Killed
  <2>1. Kept /\ UNCHANGED report
    BY <1>7, KilledKeeps DEF Killed
  <2> QED
    BY <2>1 DEF WorkInv, LoopSaysWhatItDid
<1>8. CASE UNCHANGED vars
  <2>1. Kept
    BY <1>8, LoopOnly DEF vars, WorkInv, TypeInv, LoopInv, Counted
  <2> QED
    BY <1>8, <2>1 DEF vars, WorkInv, LoopSaysWhatItDid
<1> QED
  BY <1>1, <1>2, <1>3, <1>4, <1>5, <1>6, <1>7, <1>8 DEF Next

LEMMA InitKeeps ==
  ASSUME Init
  PROVE  WorkInv
<1>1. file = NoPlan /\ job = Idle /\ loop = NoLoop /\ report = NoReport
  BY DEF Init
<1>2. agent \in Agents /\ agent.model = agent.chosen
  <2>1. agent \in [model : {NoModel}, chosen : {NoModel}, history : {<<>>}]
    BY DEF Init
  <2>2. <<>> \in Seq(Seq(Answered)) /\ NoModel \in Named
    BY DEF Named
  <2> QED
    BY <2>1, <2>2 DEF Agents
<1>3. report \in Reports /\ LoopSaysWhatItDid
  BY <1>1 DEF NoReport, Reports, LoopSaysWhatItDid
<1> QED
  BY <1>1, <1>2, <1>3, IdleIsJob, NoLoopCounts DEF WorkInv, TypeInv, StepInv, LentInv, LoopInv

\* The counts of a loop, the step under way and the borrowed model hang together in
\* every state (plan_cmd.go, loop.go, pipeline.go).
THEOREM WorkInvariant == Spec => []WorkInv
<1>1. WorkInv /\ [Next]_vars => WorkInv'
  BY StepKeeps
<1> QED
  BY <1>1, InitKeeps, PTL DEF Spec

\* Whatever a step of cmdPlanNext meets, afterwards the model the author chose is in use.
THEOREM BorrowedIsGivenBack == Spec => []ModelGivenBack
<1>1. WorkInv => ModelGivenBack
  BY DEF WorkInv, LentInv, ModelGivenBack
<1> QED
  BY <1>1, WorkInvariant, PTL

\* What cmdLoop reports agrees with what it ran, for every count and every Ctrl-C.
THEOREM LoopsSayTruly == Spec => []LoopSaysWhatItDid
<1>1. WorkInv => LoopSaysWhatItDid
  BY DEF WorkInv
<1> QED
  BY <1>1, WorkInvariant, PTL

\* /plan implements Checklist: steps are marked done one at a time, the first open one
\* of the plan that was read, after it ran (cmdPlanNext).
THEOREM PlanIsAChecklist == Spec => ImplementsChecklist
<1>1. Init => Tasks!Init
  <2> SUFFICES ASSUME Init PROVE Tasks!Init
    OBVIOUS
  <2>1. file = NoPlan /\ job.kind = "none"
    BY IdleIsJob DEF Init
  <2> QED
    BY <2>1 DEF Tasks!Init, Titles
<1>2. WorkInv /\ [Next]_vars => [Tasks!Next]_Tasks!vars
  <2> SUFFICES ASSUME WorkInv, [Next]_vars PROVE [Tasks!Next]_Tasks!vars
    OBVIOUS
  <2>1. Promised
    BY StepKeeps
  <2> QED
    BY <2>1 DEF Promised
<1> QED
  BY <1>1, <1>2, WorkInvariant, PTL DEF Spec, ImplementsChecklist, Tasks!Spec
=============================================================================
