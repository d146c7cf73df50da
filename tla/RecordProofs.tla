---------------------------- MODULE RecordProofs ----------------------------
(***************************************************************************)
(* Proofs about what harvey writes down.                                   *)
(*                                                                         *)
(* About SessionLog, for every bound and every disk fault: what a reader   *)
(* gets of a log, after any failed write and any crash.                    *)
(*                                                                         *)
(* About Access, for every workspace, settings file, line the author may   *)
(* give and length of the run: /audit show is the newest of what was       *)
(* audited, however often the ring went round, the log says what was done, *)
(* what was saved is in force at the next start, and no file the rules     *)
(* forbid Harvey to write to is written.                                   *)
(***************************************************************************)
EXTENDS SessionLog, Access, FiniteSetTheorems, SequenceTheorems, WellFoundedInduction, TLAPS


-----------------------------------------------------------------------------
(* Lemmas about the operators.                                             *)

\* A line or a part of one is 1, 2 or 3 bytes long.
LEMMA LengthsType == \A g \in Parts : Lengths[g] \in {1, 2, 3}
BY DEF Parts, Lengths

LEMMA FileEndType ==
  ASSUME NEW f \in Seq(Piece)
  PROVE  FileEnd(f) \in Nat
<1>1. CASE f = <<>>
  BY <1>1 DEF FileEnd
<1>2. CASE f # <<>>
  <2>1. f[Len(f)] \in Piece
    BY <1>2, EmptySeq, ElementOfSeq
  <2>2. f[Len(f)].at \in Nat /\ Lengths[f[Len(f)].got] \in Nat
    BY <2>1, LengthsType DEF Piece
  <2> QED
    BY <1>2, <2>2 DEF FileEnd
<1> QED
  BY <1>1, <1>2

\* A write leaves one more piece, at the end of the file.
LEMMA WrittenProperties ==
  ASSUME NEW f \in Seq(Piece), NEW e \in Event, NEW got \in Parts
  PROVE  /\ Written(f, e, got) \in Seq(Piece)
         /\ Len(Written(f, e, got)) = Len(f) + 1
         /\ \A i \in 1..Len(f) : Written(f, e, got)[i] = f[i]
         /\ Written(f, e, got)[Len(f) + 1] = [ev |-> e, at |-> FileEnd(f), got |-> got]
<1> DEFINE p == [ev |-> e, at |-> FileEnd(f), got |-> got]
<1>1. p \in Piece
  BY FileEndType DEF Piece
<1> QED
  BY <1>1 DEF Written

\* A set of naturals that is not empty has a least member.
LEMMA LeastNatural ==
  ASSUME NEW T, T \subseteq Nat, T # {}
  PROVE  \E x \in T : \A y \in T : x <= y
<1>1. PICK x \in T : \A y \in T : ~ (<<y, x>> \in OpToRel(<, Nat))
  BY NatLessThanWellFounded, WFMin
<1>2. \A y \in T : ~ (y < x)
  BY <1>1 DEF OpToRel
<1> QED
  BY <1>2

\* Taking the first x out of a sequence leaves a sequence of its members.
LEMMA WithoutType ==
  ASSUME NEW S, NEW s \in Seq(S), NEW x
  PROVE  Without(s, x) \in Seq(S)
<1>1. CASE ~ \E j \in DOMAIN s : s[j] = x
  BY <1>1 DEF Without
<1>2. CASE \E j \in DOMAIN s : s[j] = x
  <2> DEFINE First(k) == s[k] = x /\ \A i \in 1..(k - 1) : s[i] # x
             j == CHOOSE k \in DOMAIN s : First(k)
             T == {k \in DOMAIN s : s[k] = x}
  <2>1. DOMAIN s = 1..Len(s) /\ Len(s) \in Nat
    BY LenProperties
  <2>a. T \subseteq Nat /\ T # {}
    BY <1>2, <2>1
  <2>2. PICK k \in T : \A y \in T : k <= y
    <3> HIDE DEF T
    <3> QED BY <2>a, LeastNatural
  <2>3. First(k) /\ k \in DOMAIN s
    BY <2>1, <2>2
  <2>4. j \in DOMAIN s
    BY <2>3
  <2> HIDE DEF j
  <2>5. SubSeq(s, 1, j - 1) \in Seq(S)
    BY <2>1, <2>4, SubSeqProperties, ElementOfSeq
  <2>6. SubSeq(s, j + 1, Len(s)) \in Seq(S)
    BY <2>1, <2>4, SubSeqProperties, ElementOfSeq
  <2>7. Without(s, x) = SubSeq(s, 1, j - 1) \o SubSeq(s, j + 1, Len(s))
    BY <1>2 DEF Without, j
  <2> QED
    BY <2>5, <2>6, <2>7, ConcatProperties
<1> QED
  BY <1>1, <1>2

-----------------------------------------------------------------------------
(* Type correctness.  The ids, the index and the acknowledgements go up    *)
(* together, and the event in flight is the last piece of the file.        *)

Entry == [id : 1..MaxSeq, kind : Kinds, turn : 0..MaxSeq, off : Nat]

InFlight ==
  status = "open" /\ pending # None =>
    /\ pending \in Event /\ pending.seq = seq + 1 /\ seq < MaxSeq
    /\ file # <<>>
    /\ file[Len(file)].ev = pending /\ file[Len(file)].got = "line"

InStep ==
  /\ Len(acked) = seq /\ Len(idx.entries) = seq /\ Len(idx.turns) <= seq
  /\ status = "absent" => pending = None

TypeInv == TypeOK /\ InFlight /\ InStep

LEMMA NewEventType ==
  ASSUME NEW kind \in Kinds, NEW level \in Levels, NEW pin \in 0..MaxSeq,
         seq \in 0..MaxSeq, seq < MaxSeq
  PROVE  NewEvent(kind, level, pin) \in Event /\ NewEvent(kind, level, pin).seq = seq + 1
BY ConstantsOK DEF NewEvent, Event

\* What an append changes when it has written its line, or failed to.
LEMMA WriteLineTypes ==
  ASSUME TypeInv, NEW e \in Event, e.seq = seq + 1, seq < MaxSeq, pending = None, WriteLine(e)
  PROVE  TypeInv'
<1> USE ConstantsOK
<1>0. None \notin Event
  BY DEF None, Event, Kinds
<1>1. CASE /\ file' = Written(file, e, "line") /\ pending' = e /\ status' = "open"
           /\ UNCHANGED <<synced, seq, size, idx, acked, errors>>
  <2>1. "line" \in Parts
    BY DEF Parts
  <2>2. /\ file' \in Seq(Piece) /\ Len(file') = Len(file) + 1
        /\ file'[Len(file')] = [ev |-> e, at |-> FileEnd(file), got |-> "line"]
    BY <1>1, <2>1, WrittenProperties DEF TypeInv, TypeOK
  <2>3. synced' \in 0..Len(file')
    BY <1>1, <2>2, LenProperties DEF TypeInv, TypeOK
  <2>4. TypeOK'
    BY <1>1, <2>2, <2>3 DEF TypeInv, TypeOK
  <2>5. InFlight'
    BY <1>1, <2>2, <1>0 DEF TypeInv, TypeOK, InFlight
  <2>6. InStep'
    BY <1>1 DEF TypeInv, InStep
  <2> QED
    BY <2>4, <2>5, <2>6 DEF TypeInv
<1>2. CASE "nowrite" \in Faults /\ Failed(e) /\ UNCHANGED <<file, synced, pending>>
  BY <1>2 DEF TypeInv, TypeOK, InFlight, InStep, Failed, AfterFailed
<1>3. CASE /\ Failed(e) /\ \E got \in {"half", "body"} : file' = Written(file, e, got)
           /\ UNCHANGED <<synced, pending>>
  <2>1. PICK got \in {"half", "body"} : file' = Written(file, e, got)
    BY <1>3
  <2>2. got \in Parts
    BY DEF Parts
  <2>3. file' \in Seq(Piece) /\ Len(file') = Len(file) + 1
    BY <2>1, <2>2, WrittenProperties DEF TypeInv, TypeOK
  <2>4. synced' \in 0..Len(file')
    BY <1>3, <2>3, LenProperties DEF TypeInv, TypeOK
  <2> QED
    BY <1>3, <2>3, <2>4 DEF TypeInv, TypeOK, InFlight, InStep, Failed, AfterFailed
<1> QED
  BY <1>1, <1>2, <1>3 DEF WriteLine

LEMMA IndexAddTypes ==
  ASSUME TypeInv, NEW e \in Event, e.seq = seq + 1, seq < MaxSeq, NEW off \in Nat
  PROVE  LET x == IndexAdd(idx, e, off) IN
         /\ DOMAIN x = {"entries", "turns", "pins"}
         /\ x.entries \in Seq(Entry) /\ Len(x.entries) = seq + 1
         /\ x.turns \in Seq(1..MaxSeq) /\ Len(x.turns) <= seq + 1
         /\ x.pins \in Seq(1..MaxSeq)
<1> USE ConstantsOK
<1> DEFINE ts == IF e.kind = "user_input" /\ e.level # "debug"
                 THEN Append(idx.turns, Len(idx.entries) + 1) ELSE idx.turns
           en == [id |-> e.seq, kind |-> e.kind, turn |-> Len(ts), off |-> off]
           ps == CASE e.kind = "pin"   -> Append(idx.pins, e.seq)
                   [] e.kind = "unpin" -> Without(idx.pins, e.pin)
                   [] OTHER            -> idx.pins
<1>1. IndexAdd(idx, e, off) = [entries |-> Append(idx.entries, en), turns |-> ts, pins |-> ps]
  BY DEF IndexAdd
<1>2. ts \in Seq(1..MaxSeq) /\ Len(ts) <= seq + 1 /\ Len(ts) \in Nat
  <2>1. idx.turns \in Seq(1..MaxSeq) /\ Len(idx.turns) <= seq /\ Len(idx.turns) \in Nat
    BY LenProperties DEF TypeInv, TypeOK, InStep
  <2>2. Len(idx.entries) + 1 \in 1..MaxSeq /\ seq \in Nat
    BY DEF TypeInv, TypeOK, InStep
  <2>3. LET longer == Append(idx.turns, Len(idx.entries) + 1)
        IN longer \in Seq(1..MaxSeq) /\ Len(longer) = Len(idx.turns) + 1
    BY <2>1, <2>2
  <2>4. CASE e.kind = "user_input" /\ e.level # "debug"
    BY <2>1, <2>2, <2>3, <2>4
  <2>5. CASE ~(e.kind = "user_input" /\ e.level # "debug")
    BY <2>1, <2>2, <2>5
  <2> QED
    BY <2>4, <2>5
<1>3. ps \in Seq(1..MaxSeq)
  <2>1. idx.pins \in Seq(1..MaxSeq) /\ e.seq \in 1..MaxSeq
    BY DEF TypeInv, TypeOK, Event
  <2>2. Without(idx.pins, e.pin) \in Seq(1..MaxSeq)
    BY <2>1, WithoutType
  <2>3. CASE e.kind = "pin"
    BY <2>1, <2>3
  <2>4. CASE e.kind = "unpin"
    BY <2>2, <2>4
  <2>5. CASE e.kind \notin {"pin", "unpin"}
    BY <2>1, <2>5
  <2> QED
    BY <2>3, <2>4, <2>5
<1>4. en \in Entry
  BY <1>2 DEF Entry, Event, TypeInv, TypeOK
<1>5. Append(idx.entries, en) \in Seq(Entry) /\ Len(Append(idx.entries, en)) = seq + 1
  BY <1>4 DEF TypeInv, TypeOK, InStep, Entry
<1> HIDE DEF ts, en, ps
<1> QED
  BY <1>1, <1>2, <1>3, <1>5

\* What a crash leaves of the file.
LEMMA CrashFile ==
  ASSUME TypeOK, Crash
  PROVE  /\ file' \in Seq(Piece)
         /\ Len(file') >= synced
         /\ \A i \in 1..synced : file'[i] = file[i]
         /\ \A i \in 1..Len(file') : i \in 1..Len(file) /\ file'[i].ev = file[i].ev
<1>0. file \in Seq(Piece) /\ Len(file) \in Nat /\ synced \in 0..Len(file)
  BY LenProperties DEF TypeOK
<1>1. PICK n \in synced..Len(file) :
        \/ file' = SubSeq(file, 1, n)
        \/ /\ n < Len(file)
           /\ \E got \in Parts : file' = Append(SubSeq(file, 1, n), [file[n + 1] EXCEPT !.got = got])
  BY DEF Crash
<1>2. n \in Nat /\ n <= Len(file) /\ synced <= n
  BY <1>0, <1>1
<1> DEFINE kept == SubSeq(file, 1, n)
<1>3. kept \in Seq(Piece) /\ Len(kept) = n /\ \A i \in 1..n : kept[i] = file[i]
  <2>1. \A i \in 1..n : file[i] \in Piece
    BY <1>0, <1>2, ElementOfSeq
  <2> QED
    BY <1>2, <2>1, SubSeqProperties
<1> HIDE DEF kept
<1>4. CASE file' = kept
  BY <1>0, <1>2, <1>3, <1>4
<1>5. CASE n < Len(file) /\ \E got \in Parts : file' = Append(kept, [file[n + 1] EXCEPT !.got = got])
  <2>1. PICK got \in Parts : file' = Append(kept, [file[n + 1] EXCEPT !.got = got])
    BY <1>5
  <2>2. file[n + 1] \in Piece
    BY <1>0, <1>2, <1>5, ElementOfSeq
  <2>3. /\ [file[n + 1] EXCEPT !.got = got] \in Piece
        /\ [file[n + 1] EXCEPT !.got = got].ev = file[n + 1].ev
    BY <2>1, <2>2 DEF Piece
  <2> DEFINE torn == [file[n + 1] EXCEPT !.got = got]
  <2> HIDE DEF Piece, torn
  <2>4. /\ file' \in Seq(Piece) /\ Len(file') = n + 1
        /\ \A i \in 1..n : file'[i] = kept[i]
        /\ file'[n + 1] = torn
    BY <1>2, <1>3, <2>1, <2>3, AppendProperties DEF torn
  <2>5. \A i \in 1..(n + 1) : i \in 1..Len(file) /\ file'[i].ev = file[i].ev
    <3> SUFFICES ASSUME NEW i \in 1..(n + 1)
                 PROVE  i \in 1..Len(file) /\ file'[i].ev = file[i].ev
      OBVIOUS
    <3>1. CASE i \in 1..n
      BY <1>2, <1>3, <1>5, <2>4, <3>1
    <3>2. CASE i = n + 1
      BY <1>2, <1>5, <2>3, <2>4, <3>2 DEF torn
    <3> QED
      BY <1>2, <3>1, <3>2
  <2> QED
    BY <1>0, <1>2, <1>3, <2>4, <2>5
<1> QED
  BY <1>1, <1>4, <1>5 DEF kept

LEMMA TypeInvariance == LogSpec => []TypeInv
<1> USE ConstantsOK
<1>1. LogInit => TypeInv
  <2> SUFFICES ASSUME LogInit PROVE TypeInv
    OBVIOUS
  <2>1. idx = [entries |-> <<>>, turns |-> <<>>, pins |-> <<>>] /\ file = <<>> /\ acked = <<>>
    BY DEF LogInit, EmptyIndex
  <2>2. Len(<<>>) = 0 /\ \A S : <<>> \in Seq(S)
    BY EmptySeq
  <2>a. /\ DOMAIN idx = {"entries", "turns", "pins"}
        /\ idx.entries = <<>> /\ idx.turns = <<>> /\ idx.pins = <<>>
    BY <2>1
  <2>b. /\ file \in Seq(Piece) /\ idx.entries \in Seq(Entry) /\ acked \in Seq(Event)
        /\ idx.turns \in Seq(1..MaxSeq) /\ idx.pins \in Seq(1..MaxSeq)
        /\ Len(file) = 0
    <3> HIDE DEF Entry, Piece, Event
    <3> QED BY <2>1, <2>2, <2>a
  <2>c. status \in {"absent", "open", "closed", "crashed"} /\ pending \in {None}
    BY DEF LogInit
  <2>d. synced \in 0..Len(file) /\ seq \in 0..MaxSeq /\ size \in Nat /\ errors \in 0..MaxErrors
    BY <2>b DEF LogInit
  <2>3. TypeOK
    BY <2>a, <2>b, <2>c, <2>d DEF TypeOK, Entry
  <2>4. InFlight /\ InStep
    BY <2>1, <2>2 DEF LogInit, InFlight, InStep
  <2> QED
    BY <2>3, <2>4 DEF TypeInv
<1>2. TypeInv /\ [LogNext]_logVars => TypeInv'
  <2> SUFFICES ASSUME TypeInv, [LogNext]_logVars PROVE TypeInv'
    OBVIOUS
  <2>1. seq \in 0..MaxSeq
    BY DEF TypeInv, TypeOK
  <2>2. CASE Open
    <3>1. NewEvent("session_start", "info", 0) \in Event /\ NewEvent("session_start", "info", 0).seq = seq + 1
      BY <2>1, <2>2, NewEventType DEF Open, Kinds, Levels
    <3>2. pending = None
      BY <2>2 DEF Open, TypeInv, InStep
    <3> QED
      BY <2>2, <3>1, <3>2, WriteLineTypes DEF Open
  <2>3. ASSUME NEW kind \in {"user_input", "injection", "pin"}, AppendEvent(kind) PROVE TypeInv'
    <3>1. NewEvent(kind, "info", 0) \in Event /\ NewEvent(kind, "info", 0).seq = seq + 1
      BY <2>1, <2>3, NewEventType DEF AppendEvent, CanAppend, Kinds, Levels
    <3> QED
      BY <2>3, <3>1, WriteLineTypes DEF AppendEvent, CanAppend
  <2>4. CASE AppendDebug
    <3>1. NewEvent("fault", "debug", 0) \in Event /\ NewEvent("fault", "debug", 0).seq = seq + 1
      BY <2>1, <2>4, NewEventType DEF AppendDebug, CanAppend, Kinds, Levels
    <3> QED
      BY <2>4, <3>1, WriteLineTypes DEF AppendDebug, CanAppend
  <2>5. ASSUME NEW p \in 1..seq, AppendUnpin(p) PROVE TypeInv'
    <3>1. p \in 0..MaxSeq
      BY <2>1
    <3>2. NewEvent("unpin", "info", p) \in Event /\ NewEvent("unpin", "info", p).seq = seq + 1
      BY <2>1, <2>5, <3>1, NewEventType DEF AppendUnpin, CanAppend, Kinds, Levels
    <3> QED
      BY <2>5, <3>2, WriteLineTypes DEF AppendUnpin, CanAppend
  <2>6. CASE Close
    <3>1. NewEvent("session_end", "info", 0) \in Event /\ NewEvent("session_end", "info", 0).seq = seq + 1
      BY <2>1, <2>6, NewEventType DEF Close, CanAppend, Kinds, Levels
    <3> QED
      BY <2>6, <3>1, WriteLineTypes DEF Close, CanAppend
  <2>7. CASE Synced
    <3>1. pending \in Event /\ pending.seq = seq + 1 /\ seq < MaxSeq
      BY <2>7 DEF Synced, TypeInv, InFlight
    <3>2. LET x == idx' IN
          /\ DOMAIN x = {"entries", "turns", "pins"}
          /\ x.entries \in Seq(Entry) /\ Len(x.entries) = seq + 1
          /\ x.turns \in Seq(1..MaxSeq) /\ Len(x.turns) <= seq + 1
          /\ x.pins \in Seq(1..MaxSeq)
      BY <2>7, <3>1, IndexAddTypes DEF Synced, TypeInv, TypeOK
    <3>3. synced' \in 0..Len(file') /\ size' \in Nat /\ seq' \in 0..MaxSeq /\ errors' \in 0..MaxErrors
      BY SMTT(30), <2>7, <3>1, LenProperties DEF Synced, TypeInv, TypeOK, Lengths
    <3>4. acked' \in Seq(Event) /\ Len(acked') = seq + 1
      BY <2>7, <3>1 DEF Synced, TypeInv, TypeOK, InStep
    <3>5. /\ status' \in {"closed", "open"}
          /\ pending' = None /\ file' = file /\ seq' = seq + 1
      BY <2>7 DEF Synced
    <3>6. TypeOK'
      BY <3>2, <3>3, <3>4, <3>5 DEF TypeInv, TypeOK, Entry
    <3> QED
      BY <3>2, <3>4, <3>5, <3>6 DEF TypeInv, InFlight, InStep
  <2>8. CASE SyncFails
    BY <2>8 DEF SyncFails, Failed, AfterFailed, TypeInv, TypeOK, InFlight, InStep
  <2>9. CASE Crash
    <3>1. file' \in Seq(Piece) /\ Len(file') >= synced
      BY <2>9, CrashFile DEF TypeInv
    <3>2. synced' \in 0..Len(file')
      BY <2>9, <3>1, LenProperties DEF Crash, TypeInv, TypeOK
    <3> QED
      BY <2>9, <3>1, <3>2 DEF Crash, TypeInv, TypeOK, InFlight, InStep
  <2>10. CASE UNCHANGED logVars
    BY <2>10 DEF logVars, TypeInv, TypeOK, InFlight, InStep
  <2> QED
    BY <2>2, <2>3, <2>4, <2>5, <2>6, <2>7, <2>8, <2>9, <2>10 DEF LogNext
<1> QED
  BY <1>1, <1>2, PTL DEF LogSpec

\* TypeCorrect: every variable keeps its type, whatever the disk does.
THEOREM TypeCorrect == LogSpec => []TypeOK
<1>1. TypeInv => TypeOK
  BY DEF TypeInv
<1> QED
  BY <1>1, TypeInvariance, PTL

-----------------------------------------------------------------------------
(* A reader never gets another event in the place of an acknowledged one.  *)
(* The invariant: every acknowledged event has its whole line somewhere in *)
(* the synced part of the file, and carries its place as its id.  A file   *)
(* that is not rejected has event i on line i, so that line is the one.    *)

AckedOnDisk ==
  \A k \in 1..Len(acked) :
    /\ acked[k].seq = k
    /\ \E i \in 1..synced : file[i].got = "line" /\ file[i].ev = acked[k]

LEMMA WriteLineKeepsFile ==
  ASSUME TypeOK, NEW e \in Event, WriteLine(e)
  PROVE  acked' = acked /\ synced' = synced /\ \A i \in 1..synced : file'[i] = file[i]
<1>0. file \in Seq(Piece) /\ Len(file) \in Nat /\ synced \in 0..Len(file)
  BY LenProperties DEF TypeOK
<1>1. ASSUME NEW got \in Parts, file' = Written(file, e, got)
      PROVE  \A i \in 1..synced : file'[i] = file[i]
  <2>1. \A i \in 1..Len(file) : file'[i] = file[i]
    BY <1>0, <1>1, WrittenProperties, ZenonT(60)
  <2>2. 1..synced \subseteq 1..Len(file)
    BY <1>0
  <2> QED
    BY <2>1, <2>2
<1>2. \/ \E got \in Parts : file' = Written(file, e, got)
      \/ file' = file
  BY DEF WriteLine, Parts
<1>3. acked' = acked /\ synced' = synced
  BY DEF WriteLine, Failed, AfterFailed
<1> QED
  BY <1>1, <1>2, <1>3

LEMMA AckedOnDiskStep ==
  ASSUME TypeInv, AckedOnDisk, [LogNext]_logVars
  PROVE  AckedOnDisk'
<1>0. Len(file) \in Nat /\ synced \in 0..Len(file) /\ Len(acked) = seq /\ seq \in 0..MaxSeq
  BY LenProperties DEF TypeInv, TypeOK, InStep
<1>1. ASSUME acked' = acked, synced' = synced, \A i \in 1..synced : file'[i] = file[i]
      PROVE  AckedOnDisk'
  BY <1>1 DEF AckedOnDisk
<1>2. ASSUME NEW kind \in Kinds, NEW level \in Levels, NEW pin \in 0..MaxSeq, seq < MaxSeq,
             WriteLine(NewEvent(kind, level, pin))
      PROVE  AckedOnDisk'
  <2>1. NewEvent(kind, level, pin) \in Event
    BY <1>0, <1>2, NewEventType
  <2> QED
    BY <1>1, <1>2, <2>1, WriteLineKeepsFile DEF TypeInv
<1>3. ASSUME NEW p \in 1..seq PROVE p \in 0..MaxSeq
  BY <1>0, ConstantsOK
<1>a. 0 \in 0..MaxSeq
  BY ConstantsOK
<1>4. CASE Open \/ Close \/ AppendDebug
  BY <1>2, <1>4, <1>a DEF Open, Close, AppendDebug, CanAppend, Kinds, Levels
<1>5. ASSUME NEW kind \in {"user_input", "injection", "pin"}, AppendEvent(kind) PROVE AckedOnDisk'
  BY <1>2, <1>5, <1>a DEF AppendEvent, CanAppend, Kinds, Levels
<1>6. ASSUME NEW p \in 1..seq, AppendUnpin(p) PROVE AckedOnDisk'
  BY <1>2, <1>3, <1>6 DEF AppendUnpin, CanAppend, Kinds, Levels
<1>7. CASE Synced
  <2>1. /\ acked' = Append(acked, pending) /\ synced' = Len(file) /\ file' = file
        /\ pending \in Event /\ pending.seq = seq + 1
        /\ file # <<>> /\ file[Len(file)].ev = pending /\ file[Len(file)].got = "line"
    BY <1>7 DEF Synced, TypeInv, InFlight
  <2>2. /\ Len(acked') = seq + 1 /\ acked'[seq + 1] = pending
        /\ \A k \in 1..seq : acked'[k] = acked[k]
    BY <1>0, <2>1 DEF TypeInv, TypeOK
  <2>3. Len(file) \in 1..synced'
    BY <1>0, <2>1, EmptySeq DEF TypeInv, TypeOK
  <2>4. ASSUME NEW k \in 1..Len(acked')
        PROVE  acked'[k].seq = k /\ \E i \in 1..synced' : file'[i].got = "line" /\ file'[i].ev = acked'[k]
    <3>1. CASE k = seq + 1
      BY <2>1, <2>2, <2>3, <3>1
    <3>2. CASE k \in 1..seq
      <4>1. PICK i \in 1..synced : file[i].got = "line" /\ file[i].ev = acked[k]
        BY <1>0, <3>2 DEF AckedOnDisk
      <4>2. i \in 1..synced' /\ acked[k].seq = k
        BY <1>0, <2>1, <3>2 DEF AckedOnDisk
      <4> QED
        BY <2>1, <2>2, <3>2, <4>1, <4>2
    <3> QED
      BY <1>0, <2>2, <2>4, <3>1, <3>2
  <2> QED
    BY <2>4 DEF AckedOnDisk
<1>8. CASE SyncFails
  BY <1>1, <1>8 DEF SyncFails, Failed
<1>9. CASE Crash
  <2>1. acked' = acked /\ synced' = synced
    BY <1>9 DEF Crash
  <2> QED
    BY <1>1, <1>9, <2>1, CrashFile DEF TypeInv
<1>10. CASE UNCHANGED logVars
  BY <1>1, <1>10 DEF logVars
<1> QED
  BY <1>4, <1>5, <1>6, <1>7, <1>8, <1>9, <1>10 DEF LogNext

LEMMA FoundOrRejected ==
  ASSUME TypeInv, AckedOnDisk
  PROVE  RejectedOrComplete
<1>0. file \in Seq(Piece) /\ Len(file) \in Nat /\ synced \in 0..Len(file)
      /\ DOMAIN file = 1..Len(file) /\ DOMAIN acked = 1..Len(acked)
  BY LenProperties DEF TypeInv, TypeOK
<1> SUFFICES ASSUME ~Rejected(file), NEW k \in 1..Len(acked)
             PROVE  k \in DOMAIN ReadSessionLog(file) /\ ReadSessionLog(file)[k] = acked[k]
  BY <1>0 DEF RejectedOrComplete, AckedRead
<1>1. PICK i \in 1..synced : file[i].got = "line" /\ file[i].ev = acked[k]
  BY DEF AckedOnDisk
<1>2. i \in Newlines(file) /\ i \in 1..i /\ i \in DOMAIN file
  BY <1>0, <1>1 DEF Newlines
<1>3. Parses(file, i)
  BY <1>2 DEF Rejected
<1>4. file[i].ev.seq = i
  BY <1>2, <1>3 DEF Rejected
<1>5. i = k
  BY <1>1, <1>4 DEF AckedOnDisk
<1> QED
  BY <1>1, <1>2, <1>3, <1>5 DEF ReadSessionLog

\* ReaderNeverMisled: at any moment of any session, whatever the disk does and
\* however it crashes, a reader either refuses the file or gets every
\* acknowledged event in its place (ReadSessionLog, appendLocked).
THEOREM ReaderNeverMisled == LogSpec => []RejectedOrComplete
<1>1. LogInit => AckedOnDisk
  <2> SUFFICES ASSUME LogInit PROVE AckedOnDisk
    OBVIOUS
  <2>1. Len(acked) = 0
    BY EmptySeq DEF LogInit
  <2> QED
    BY <2>1 DEF AckedOnDisk
<1>2. TypeInv /\ AckedOnDisk /\ [LogNext]_logVars => AckedOnDisk'
  BY AckedOnDiskStep
<1>3. TypeInv /\ AckedOnDisk => RejectedOrComplete
  BY FoundOrRejected
<1> QED
  BY <1>1, <1>2, <1>3, TypeInvariance, PTL DEF LogSpec

-----------------------------------------------------------------------------
(* On a disk that may refuse a write but leaves no part of one, the file   *)
(* is the acknowledged events, line by line, and then at most the event in *)
(* flight; a reader gets just that, and the log implements DurableLog.     *)

LineByLine ==
  /\ synced = seq /\ Len(file) \in seq..(seq + 1)
  /\ \A k \in 1..seq : file[k].got = "line" /\ file[k].ev = acked[k] /\ acked[k].seq = k
  /\ Len(file) = seq + 1 =>
       pending # None /\ file[seq + 1].ev = pending /\ pending \in Event /\ pending.seq = seq + 1
  /\ pending # None /\ status # "crashed" => Len(file) = seq + 1
  /\ file # <<>> => file[1].ev.kind = "session_start"
  /\ status = "open" /\ pending = None => seq # 0
  /\ status = "absent" => seq = 0
  /\ status = "closed" => pending = None

LEMMA LineByLineWrite ==
  ASSUME CleanWrites, TypeInv, LineByLine, pending = None, status # "crashed", seq < MaxSeq,
         NEW e \in Event, e.seq = seq + 1, seq = 0 => e.kind = "session_start",
         status \in {"absent", "open"}, status = "absent" => e.kind = "session_start", WriteLine(e)
  PROVE  LineByLine'
<1>0. /\ file \in Seq(Piece) /\ Len(file) \in Nat /\ seq \in Nat /\ Len(file) = seq /\ synced = seq
      /\ None \notin Event
  BY LenProperties, ConstantsOK DEF TypeInv, TypeOK, LineByLine, None, Event, Kinds
<1>1. CASE /\ file' = Written(file, e, "line") /\ pending' = e /\ status' = "open"
           /\ UNCHANGED <<synced, seq, size, idx, acked, errors>>
  <2>1. /\ Len(file') = seq + 1 /\ \A i \in 1..seq : file'[i] = file[i]
        /\ file'[seq + 1] = [ev |-> e, at |-> FileEnd(file), got |-> "line"]
    BY <1>0, <1>1, WrittenProperties DEF Parts
  <2>2. file'[1].ev.kind = "session_start"
    <3>1. CASE seq = 0
      BY <2>1, <3>1
    <3>2. CASE seq # 0
      <4>1. 1 \in 1..seq /\ file # <<>>
        BY <1>0, <3>2, EmptySeq
      <4> QED
        BY <2>1, <4>1 DEF LineByLine
    <3> QED
      BY <3>1, <3>2
  <2>3. file'[seq + 1].ev = e
    BY <2>1
  <2>4. /\ pending' = e /\ status' = "open" /\ synced' = synced /\ seq' = seq /\ acked' = acked
    BY <1>1
  <2>5. \A k \in 1..seq : file'[k].got = "line" /\ file'[k].ev = acked[k] /\ acked[k].seq = k
    BY <2>1 DEF LineByLine
  <2> QED
    BY <1>0, <2>1, <2>2, <2>3, <2>4, <2>5 DEF LineByLine
<1>2. CASE Failed(e) /\ UNCHANGED <<file, synced, pending>>
  <2>1. /\ file' = file /\ synced' = synced /\ pending' = pending /\ seq' = seq /\ acked' = acked
        /\ status' \in {"closed", "open"}
        /\ status' = "open" => e.kind # "session_start"
    BY <1>2 DEF Failed, AfterFailed
  <2>2. status' = "open" => seq # 0
    BY <2>1 DEF LineByLine
  <2> QED
    BY <2>1, <2>2 DEF LineByLine
<1>3. "shortwrite" \notin Faults
  BY DEF CleanWrites
<1> QED
  BY <1>1, <1>2, <1>3 DEF WriteLine

LEMMA LineByLineStep ==
  ASSUME CleanWrites, TypeInv, LineByLine, [LogNext]_logVars
  PROVE  LineByLine'
<1>0. /\ file \in Seq(Piece) /\ Len(file) \in Nat /\ seq \in Nat /\ seq \in 0..MaxSeq /\ Len(acked) = seq
      /\ 0 \in 0..MaxSeq
  BY LenProperties, ConstantsOK DEF TypeInv, TypeOK, InStep
<1>1. CASE Open
  <2>1. NewEvent("session_start", "info", 0) \in Event /\ NewEvent("session_start", "info", 0).seq = seq + 1
        /\ NewEvent("session_start", "info", 0).kind = "session_start"
    BY <1>0, <1>1, NewEventType DEF Open, Kinds, Levels, NewEvent
  <2>2. pending = None
    BY <1>1 DEF Open, TypeInv, InStep
  <2> QED
    BY <1>1, <2>1, <2>2, LineByLineWrite DEF Open
<1>2. ASSUME CanAppend, NEW kind \in Kinds, NEW level \in Levels, NEW pin \in 0..MaxSeq,
             WriteLine(NewEvent(kind, level, pin))
      PROVE  LineByLine'
  <2>1. NewEvent(kind, level, pin) \in Event /\ NewEvent(kind, level, pin).seq = seq + 1
    BY <1>0, <1>2, NewEventType DEF CanAppend
  <2>2. seq # 0
    BY <1>2 DEF CanAppend, LineByLine
  <2> QED
    BY <1>2, <2>1, <2>2, LineByLineWrite DEF CanAppend
<1>3. CASE Close \/ AppendDebug
  BY <1>0, <1>2, <1>3 DEF Close, AppendDebug, Kinds, Levels
<1>4. ASSUME NEW kind \in {"user_input", "injection", "pin"}, AppendEvent(kind) PROVE LineByLine'
  BY <1>0, <1>2, <1>4 DEF AppendEvent, Kinds, Levels
<1>5. ASSUME NEW p \in 1..seq, AppendUnpin(p) PROVE LineByLine'
  <2>1. p \in 0..MaxSeq
    BY <1>0, <1>5, ConstantsOK
  <2> QED
    BY <1>2, <1>5, <2>1 DEF AppendUnpin, Kinds, Levels
<1>6. CASE Synced
  <2>1. /\ acked' = Append(acked, pending) /\ synced' = Len(file) /\ file' = file /\ seq' = seq + 1
        /\ pending' = None /\ pending # None /\ status = "open" /\ status' \in {"closed", "open"}
        /\ pending \in Event /\ pending.seq = seq + 1 /\ file[Len(file)].got = "line"
        /\ file # <<>> /\ Len(file) = seq + 1
    BY <1>6 DEF Synced, TypeInv, InFlight, LineByLine
  <2>2. /\ acked'[seq + 1] = pending /\ \A k \in 1..seq : acked'[k] = acked[k]
    BY <1>0, <2>1 DEF TypeInv, TypeOK
  <2>3. \A k \in 1..(seq + 1) : file[k].got = "line" /\ file[k].ev = acked'[k] /\ acked'[k].seq = k
    <3> SUFFICES ASSUME NEW k \in 1..(seq + 1)
                 PROVE  file[k].got = "line" /\ file[k].ev = acked'[k] /\ acked'[k].seq = k
      OBVIOUS
    <3>1. CASE k \in 1..seq
      BY <2>2, <3>1 DEF LineByLine
    <3>2. CASE k = seq + 1
      BY <2>1, <2>2, <3>2 DEF LineByLine
    <3> QED
      BY <1>0, <3>1, <3>2
  <2> QED
    BY <1>0, <2>1, <2>3 DEF LineByLine
<1>7. CASE SyncFails
  BY <1>7 DEF SyncFails, CleanWrites
<1>8. CASE Crash
  <2>1. PICK n \in synced..Len(file) :
          \/ file' = SubSeq(file, 1, n)
          \/ /\ n < Len(file)
             /\ \E got \in Parts : file' = Append(SubSeq(file, 1, n), [file[n + 1] EXCEPT !.got = got])
    BY <1>8 DEF Crash
  <2>2. /\ synced' = synced /\ seq' = seq /\ acked' = acked /\ pending' = pending /\ status' = "crashed"
    BY <1>8 DEF Crash
  <2>3. /\ Len(file') >= seq /\ \A i \in 1..seq : file'[i] = file[i] /\ file' \in Seq(Piece)
    BY <1>8, CrashFile DEF TypeInv, LineByLine
  <2>4. n \in {seq, seq + 1} /\ n \in Nat /\ n <= Len(file)
    BY <1>0, <2>1 DEF LineByLine
  <2>5. \A i \in 1..n : file[i] \in Piece
    BY <1>0, <2>4, ElementOfSeq
  <2>6. /\ SubSeq(file, 1, n) \in Seq(Piece) /\ Len(SubSeq(file, 1, n)) = n
        /\ \A i \in 1..n : SubSeq(file, 1, n)[i] = file[i]
    BY <2>4, <2>5, SubSeqProperties
  <2>7. /\ Len(file') \in seq..(seq + 1)
        /\ Len(file') = seq + 1 => Len(file) = seq + 1 /\ file'[seq + 1].ev = file[seq + 1].ev
    <3>1. CASE file' = SubSeq(file, 1, n)
      BY <1>0, <2>4, <2>6, <3>1 DEF LineByLine
    <3>2. CASE n < Len(file) /\ \E got \in Parts : file' = Append(SubSeq(file, 1, n), [file[n + 1] EXCEPT !.got = got])
      <4>1. n = seq /\ Len(file) = seq + 1
        BY <1>0, <2>4, <3>2 DEF LineByLine
      <4>2. PICK got \in Parts : file' = Append(SubSeq(file, 1, n), [file[n + 1] EXCEPT !.got = got])
        BY <3>2
      <4>3. Len(file') = n + 1 /\ file'[n + 1] = [file[n + 1] EXCEPT !.got = got]
        BY <2>4, <2>6, <4>2
      <4>4. file[n + 1] \in Piece
        BY <1>0, <4>1, ElementOfSeq
      <4>5. [file[n + 1] EXCEPT !.got = got].ev = file[n + 1].ev
        BY <4>4 DEF Piece
      <4> QED
        BY <1>0, <4>1, <4>3, <4>5
    <3> QED
      BY <2>1, <3>1, <3>2
  <2>8. file' # <<>> => file'[1].ev.kind = "session_start"
    <3>1. CASE seq = 0
      <4>1. file' # <<>> => Len(file') = 1 /\ file # <<>>
        BY <1>0, <2>3, <2>7, <3>1, EmptySeq
      <4> QED
        BY <2>7, <3>1, <4>1 DEF LineByLine
    <3>2. CASE seq # 0
      <4>1. 1 \in 1..seq /\ file # <<>>
        BY <1>0, <3>2, EmptySeq DEF LineByLine
      <4> QED
        BY <2>3, <4>1 DEF LineByLine
    <3> QED
      BY <3>1, <3>2
  <2>9. \A k \in 1..seq : file'[k].got = "line" /\ file'[k].ev = acked[k] /\ acked[k].seq = k
    BY <2>3 DEF LineByLine
  <2> QED
    BY <2>2, <2>7, <2>8, <2>9 DEF LineByLine
<1>9. CASE UNCHANGED logVars
  BY <1>9 DEF logVars, LineByLine
<1> QED
  BY <1>1, <1>3, <1>4, <1>5, <1>6, <1>7, <1>8, <1>9 DEF LogNext


LEMMA CleanInvariance ==
  ASSUME CleanWrites
  PROVE  LogSpec => [](TypeInv /\ LineByLine)
<1>1. LogInit => LineByLine
  <2> SUFFICES ASSUME LogInit PROVE LineByLine
    OBVIOUS
  <2>1. file = <<>> /\ Len(file) = 0 /\ seq = 0 /\ synced = 0 /\ pending = None /\ status = "absent"
    BY EmptySeq DEF LogInit
  <2> QED
    BY <2>1 DEF LineByLine
<1>2. TypeInv /\ LineByLine /\ [LogNext]_logVars => LineByLine'
  BY LineByLineStep
<1> QED
  BY <1>1, <1>2, TypeInvariance, PTL DEF LogSpec

\* What a reader gets of a file that is line by line: n whole lines, the last
\* of which may be cut short.
LEMMA CleanRead ==
  ASSUME TypeInv, LineByLine
  PROVE  /\ ~Rejected(file)
         /\ \/ ReadSessionLog(file) = acked
            \/ /\ ReadSessionLog(file) = Append(acked, pending)
               /\ pending \in Event
<1>0. /\ file \in Seq(Piece) /\ Len(file) \in Nat /\ seq \in Nat /\ Len(acked) = seq
      /\ DOMAIN file = 1..Len(file) /\ acked \in Seq(Event) /\ Len(file) \in seq..(seq + 1)
  BY LenProperties, ConstantsOK DEF TypeInv, TypeOK, InStep, LineByLine
<1>a. seq \in Nat /\ Len(file) \in Nat
  BY <1>0
<1>b. Len(file) \in seq..(seq + 1)
  BY DEF LineByLine
<1>c. Len(file) = seq \/ Len(file) = seq + 1
  BY <1>a, <1>b
<1>d. \A i \in DOMAIN file : i \in 1..seq \/ (i = seq + 1 /\ Len(file) = seq + 1)
  <2>1. DOMAIN file = 1..Len(file)
    BY <1>0
  <2>2. CASE Len(file) = seq
    BY <2>1, <2>2
  <2>3. CASE Len(file) = seq + 1
    <3>1. \A i \in 1..(seq + 1) : i \in 1..seq \/ i = seq + 1
      BY <1>a
    <3> QED
      BY <2>1, <2>3, <3>1
  <2> QED
    BY <1>c, <2>2, <2>3
<1>1. \A k \in 1..seq : k \in DOMAIN file /\ Parses(file, k) /\ file[k].ev = acked[k] /\ file[k].ev.seq = k
  <2> SUFFICES ASSUME NEW k \in 1..seq
               PROVE  k \in DOMAIN file /\ Parses(file, k) /\ file[k].ev = acked[k] /\ file[k].ev.seq = k
    OBVIOUS
  <2>1. file[k].got = "line" /\ file[k].ev = acked[k] /\ acked[k].seq = k
    BY DEF LineByLine
  <2>2. k \in DOMAIN file
    BY <1>0
  <2>3. k = 1 \/ k - 1 \in 1..seq
    BY <1>0
  <2>4. k = 1 \/ file[k - 1].got = "line"
    BY <2>3 DEF LineByLine
  <2> QED
    BY <2>1, <2>2, <2>4 DEF Parses, StartsLine
<1>2. Len(file) = seq + 1 => file[seq + 1].ev = pending /\ pending \in Event /\ pending.seq = seq + 1
  BY DEF LineByLine
<1>3. \A i \in DOMAIN file : file[i].ev.seq = i
  <2> SUFFICES ASSUME NEW i \in DOMAIN file PROVE file[i].ev.seq = i
    OBVIOUS
  <2>1. i \in 1..seq \/ (i = seq + 1 /\ Len(file) = seq + 1)
    BY <1>d
  <2> QED
    BY <1>1, <1>2, <2>1
<1>4. \A n \in Newlines(file) : \A i \in 1..n : Parses(file, i)
  <2> SUFFICES ASSUME NEW n \in Newlines(file), NEW i \in 1..n PROVE Parses(file, i)
    OBVIOUS
  <2>1. n \in 1..Len(file) /\ file[n].got = "line"
    BY <1>0 DEF Newlines
  <2>2. CASE i \in 1..seq
    BY <1>1, <2>2
  <2>3. CASE i = seq + 1
    <3>1. n = seq + 1 /\ (i = 1 \/ i - 1 \in 1..seq)
      BY <1>0, <2>1, <2>3
    <3> QED
      BY <1>0, <2>1, <2>3, <3>1 DEF Parses, StartsLine, LineByLine
  <2> QED
    BY <1>0, <2>1, <2>2, <2>3
<1>5. ~Rejected(file)
  BY <1>3, <1>4 DEF Rejected, LineByLine
<1>6. CASE {j \in DOMAIN file : Parses(file, j)} = 1..seq
  <2>1. ReadSessionLog(file) = [i \in 1..seq |-> file[i].ev]
    BY <1>6 DEF ReadSessionLog
  <2>2. acked = [i \in 1..seq |-> acked[i]]
    BY <1>0
  <2> QED
    BY <1>1, <1>5, <2>1, <2>2
<1>7. CASE {j \in DOMAIN file : Parses(file, j)} = 1..(seq + 1)
  <2>1. ReadSessionLog(file) = [i \in 1..(seq + 1) |-> file[i].ev]
    BY <1>7 DEF ReadSessionLog
  <2>2. Len(file) = seq + 1 /\ pending \in Event /\ file[seq + 1].ev = pending
    <3>1. seq + 1 \in DOMAIN file
      BY <1>0, <1>7
    <3>2. Len(file) = seq + 1
      BY <1>a, <1>d, <3>1
    <3> QED
      BY <1>2, <3>2
  <2>3. /\ Append(acked, pending) \in Seq(Event) /\ Len(Append(acked, pending)) = seq + 1
        /\ Append(acked, pending)[seq + 1] = pending
        /\ \A k \in 1..seq : Append(acked, pending)[k] = acked[k]
    BY <1>0, <2>2, AppendProperties
  <2> DEFINE longer == Append(acked, pending)
  <2>a. longer \in Seq(Event) /\ Len(longer) = seq + 1
    BY <2>3
  <2> HIDE DEF longer
  <2>4. longer = [i \in 1..(seq + 1) |-> longer[i]]
    BY <1>0, <2>a
  <2>5. \A i \in 1..(seq + 1) : longer[i] = file[i].ev
    <3> SUFFICES ASSUME NEW i \in 1..(seq + 1) PROVE longer[i] = file[i].ev
      OBVIOUS
    <3>1. i \in 1..seq \/ i = seq + 1
      BY <1>0
    <3> QED
      BY <1>1, <2>2, <2>3, <3>1 DEF longer
  <2>6. ReadSessionLog(file) = longer
    BY <2>1, <2>4, <2>5
  <2> QED
    BY <1>5, <2>2, <2>6 DEF longer
<1> QED
  <2>1. \A j \in DOMAIN file : j \in 1..seq \/ j = seq + 1
    BY <1>0
  <2> QED
    BY <1>0, <1>1, <1>6, <1>7, <2>1

\* ReaderSeesWhatWasLogged: on such a disk a reader gets, at any moment, every
\* acknowledged event in order and at most the one in flight besides
\* (ReadSessionLog, appendLocked).
THEOREM ReaderSeesWhatWasLogged ==
  ASSUME CleanWrites
  PROVE  LogSpec => []ReaderSeesAcked
<1>1. TypeInv /\ LineByLine => ReaderSeesAcked
  BY CleanRead DEF ReaderSeesAcked
<1> QED
  BY <1>1, CleanInvariance, PTL

-----------------------------------------------------------------------------
(* The refinement, on any disk.  While the log is open its abstract value   *)
(* is the list of acknowledged events, so only Synced and Close change it;  *)
(* when it is over, the value is what a reader gets.  FreshIds bounds that: *)
(* no piece of the file has an id beyond the next one, so a reader that     *)
(* accepts the file finds at most one event that was not acknowledged.      *)

FreshIds == \A i \in 1..Len(file) : file[i].ev.seq <= seq + 1

LEMMA FreshIdsWrite ==
  ASSUME TypeInv, FreshIds, NEW e \in Event, e.seq = seq + 1, WriteLine(e)
  PROVE  FreshIds'
<1>0. file \in Seq(Piece) /\ Len(file) \in Nat /\ seq \in Nat
  BY LenProperties, ConstantsOK DEF TypeInv, TypeOK
<1>1. seq' = seq
  BY DEF WriteLine, Failed
<1>2. \/ \E got \in Parts : file' = Written(file, e, got)
      \/ file' = file
  BY DEF WriteLine, Parts
<1>3. CASE \E got \in Parts : file' = Written(file, e, got)
  <2>1. PICK got \in Parts : file' = Written(file, e, got)
    BY <1>3
  <2>2. /\ Len(file') = Len(file) + 1
        /\ \A i \in 1..Len(file) : file'[i] = file[i]
        /\ file'[Len(file) + 1] = [ev |-> e, at |-> FileEnd(file), got |-> got]
    BY <1>0, <2>1, WrittenProperties
  <2>3. SUFFICES ASSUME NEW i \in 1..Len(file') PROVE file'[i].ev.seq <= seq + 1
    BY <1>1 DEF FreshIds
  <2>4. CASE i \in 1..Len(file)
    BY <2>2, <2>4 DEF FreshIds
  <2>5. CASE i = Len(file) + 1
    <3>1. file'[i].ev = e
      BY <2>2, <2>5
    <3> QED
      BY <1>0, <3>1
  <2> QED
    BY <1>0, <2>2, <2>3, <2>4, <2>5
<1>4. CASE file' = file
  BY <1>1, <1>4 DEF FreshIds
<1> QED
  BY <1>2, <1>3, <1>4

LEMMA FreshIdsStep ==
  ASSUME TypeInv, FreshIds, [LogNext]_logVars
  PROVE  FreshIds'
<1>0. /\ file \in Seq(Piece) /\ Len(file) \in Nat /\ seq \in Nat /\ seq \in 0..MaxSeq
      /\ 0 \in 0..MaxSeq
  BY LenProperties, ConstantsOK DEF TypeInv, TypeOK
<1>1. ASSUME NEW kind \in Kinds, NEW level \in Levels, NEW pin \in 0..MaxSeq, seq < MaxSeq,
             WriteLine(NewEvent(kind, level, pin))
      PROVE  FreshIds'
  BY <1>0, <1>1, NewEventType, FreshIdsWrite
<1>2. CASE Open \/ Close \/ AppendDebug
  BY <1>0, <1>1, <1>2 DEF Open, Close, AppendDebug, CanAppend, Kinds, Levels
<1>3. ASSUME NEW kind \in {"user_input", "injection", "pin"}, AppendEvent(kind) PROVE FreshIds'
  BY <1>0, <1>1, <1>3 DEF AppendEvent, CanAppend, Kinds, Levels
<1>4. ASSUME NEW p \in 1..seq, AppendUnpin(p) PROVE FreshIds'
  <2>1. p \in 0..MaxSeq
    BY <1>0, ConstantsOK
  <2> QED
    BY <1>1, <1>4, <2>1 DEF AppendUnpin, CanAppend, Kinds, Levels
<1>5. CASE Synced
  <2>1. file' = file /\ seq' = seq + 1
    BY <1>5 DEF Synced
  <2>2. \A i \in 1..Len(file) : file[i].ev.seq \in Nat
    <3>1. \A i \in 1..Len(file) : file[i] \in Piece
      BY <1>0, ElementOfSeq
    <3> QED
      BY <3>1, ConstantsOK DEF Piece, Event
  <2> QED
    BY <1>0, <2>1, <2>2 DEF FreshIds
<1>6. CASE SyncFails
  BY <1>6 DEF SyncFails, Failed, FreshIds
<1>7. CASE Crash
  <2>1. seq' = seq
    BY <1>7 DEF Crash
  <2> QED
    BY <1>7, <2>1, CrashFile DEF TypeInv, FreshIds
<1>8. CASE UNCHANGED logVars
  BY <1>8 DEF logVars, FreshIds
<1> QED
  BY <1>2, <1>3, <1>4, <1>5, <1>6, <1>7, <1>8 DEF LogNext

\* What a reader gets of a file it does not reject, whatever became of the writes.
ReadBack ==
  ~Rejected(file) =>
    \/ ReadSessionLog(file) = acked
    \/ Len(file) > seq /\ \E e \in Event : ReadSessionLog(file) = Append(acked, e)

LEMMA AcceptedRead ==
  ASSUME TypeInv, AckedOnDisk, FreshIds
  PROVE  ReadBack
<1>0. /\ file \in Seq(Piece) /\ Len(file) \in Nat /\ seq \in Nat /\ Len(acked) = seq
      /\ DOMAIN file = 1..Len(file) /\ acked \in Seq(Event) /\ DOMAIN acked = 1..seq
  BY LenProperties, ConstantsOK DEF TypeInv, TypeOK, InStep
<1> SUFFICES ASSUME ~Rejected(file)
             PROVE  \/ ReadSessionLog(file) = acked
                    \/ Len(file) > seq /\ \E e \in Event : ReadSessionLog(file) = Append(acked, e)
  BY DEF ReadBack
<1> DEFINE lines == {j \in DOMAIN file : Parses(file, j)}
<1>1. \A k \in 1..seq : k \in lines /\ file[k].ev = acked[k]
  <2>1. AckedRead
    BY FoundOrRejected DEF RejectedOrComplete
  <2>2. ReadSessionLog(file) = [i \in lines |-> file[i].ev]
    BY DEF ReadSessionLog
  <2> QED
    BY <1>0, <2>1, <2>2 DEF AckedRead
<1>2. \A j \in lines : j \in 1..Len(file) /\ file[j].ev.seq = j
  BY <1>0 DEF Rejected
<1>3. \A j \in lines : j \in 1..Len(file) /\ (j \in 1..seq \/ j = seq + 1)
  BY <1>0, <1>2 DEF FreshIds
<1>4. CASE seq + 1 \notin lines
  <2>1. lines = 1..seq
    BY <1>1, <1>3, <1>4
  <2>2. ReadSessionLog(file) = [i \in 1..seq |-> file[i].ev]
    BY <2>1 DEF ReadSessionLog
  <2>3. acked = [i \in 1..seq |-> acked[i]]
    BY <1>0
  <2> QED
    BY <1>1, <2>2, <2>3
<1>5. CASE seq + 1 \in lines
  <2>1. lines = 1..(seq + 1)
    BY <1>0, <1>1, <1>3, <1>5
  <2>2. ReadSessionLog(file) = [i \in 1..(seq + 1) |-> file[i].ev]
    BY <2>1 DEF ReadSessionLog
  <2>3. Len(file) > seq /\ file[seq + 1] \in Piece
    BY <1>0, <1>3, <1>5, ElementOfSeq
  <2>4. PICK e \in Event : e = file[seq + 1].ev
    BY <2>3 DEF Piece
  <2> DEFINE longer == Append(acked, e)
  <2>5. /\ longer \in Seq(Event) /\ Len(longer) = seq + 1 /\ longer[seq + 1] = e
        /\ \A k \in 1..seq : longer[k] = acked[k]
    BY <1>0, <2>4, AppendProperties
  <2> HIDE DEF longer, lines
  <2>6. longer = [i \in 1..(seq + 1) |-> longer[i]]
    BY <1>0, <2>5
  <2>7. \A i \in 1..(seq + 1) : longer[i] = file[i].ev
    <3> SUFFICES ASSUME NEW i \in 1..(seq + 1) PROVE longer[i] = file[i].ev
      OBVIOUS
    <3>1. i \in 1..seq \/ i = seq + 1
      BY <1>0
    <3> QED
      BY <1>1, <2>4, <2>5, <3>1
  <2>8. ReadSessionLog(file) = longer
    BY <2>2, <2>6, <2>7
  <2> QED
    BY <2>3, <2>4, <2>8 DEF longer
<1> QED
  BY <1>4, <1>5

\* A file accepted with an event in flight holds one line for each id.
LEMMA InFlightIsLast ==
  ASSUME TypeInv, status = "open", pending # None, ~Rejected(file)
  PROVE  Len(file) = seq + 1
<1>1. /\ file \in Seq(Piece) /\ file # <<>> /\ file[Len(file)].got = "line"
      /\ file[Len(file)].ev.seq = seq + 1
  BY DEF TypeInv, TypeOK, InFlight
<1>2. Len(file) \in DOMAIN file /\ Len(file) \in 1..Len(file)
  BY <1>1, EmptySeq, LenProperties
<1>3. Parses(file, Len(file))
  BY <1>1, <1>2 DEF Rejected, Newlines
<1> QED
  BY <1>1, <1>2, <1>3 DEF Rejected

Refinable == TypeInv /\ ReadBack /\ (CleanWrites => ~Rejected(file))

LEMMA StepRefines ==
  ASSUME Refinable, Refinable', [LogNext]_logVars
  PROVE  [Durable!Next]_(Durable!vars)
<1>0. /\ pending # None => pending \in Event
      /\ status = "absent" => pending = None
      /\ status \in {"absent", "open", "closed", "crashed"}
  BY DEF Refinable, TypeInv, TypeOK, InStep
<1>1. ASSUME acked' = acked, status \in {"absent", "open"}, status' \in {"open", "closed", "crashed"}
      PROVE  [Durable!Next]_(Durable!vars)
  <2>1. CASE status' = "open"
    BY <1>1, <2>1 DEF Durable!vars, Over
  <2>2. CASE status' # "open" /\ Rejected(file)'
    <3>1. Durable!Refuse
      BY <1>1, <2>2 DEF Durable!Refuse, Over, Refinable, CleanWrites
    <3> QED
      BY <3>1 DEF Durable!Next
  <2>3. CASE status' # "open" /\ ~Rejected(file)'
    <3>1. \/ (ReadSessionLog(file))' = acked
          \/ \E e \in Event : (ReadSessionLog(file))' = Append(acked, e)
      BY <1>1, <2>3 DEF Refinable, ReadBack
    <3>2. CASE status' = "closed"
      <4>1. Durable!End
        BY <1>1, <2>3, <3>1, <3>2 DEF Durable!End, Over
      <4> QED
        BY <4>1 DEF Durable!Next
    <3>3. CASE status' = "crashed"
      <4>1. Durable!Crash
        BY <1>1, <2>3, <3>1, <3>3 DEF Durable!Crash, Over
      <4> QED
        BY <4>1 DEF Durable!Next
    <3> QED
      BY <1>1, <2>3, <3>2, <3>3
  <2> QED
    BY <2>1, <2>2, <2>3
<1>2. ASSUME NEW e, WriteLine(e), status \in {"absent", "open"} PROVE [Durable!Next]_(Durable!vars)
  <2>1. acked' = acked /\ status' \in {"open", "closed"}
    BY <1>2 DEF WriteLine, Failed, AfterFailed
  <2> QED
    BY <1>1, <1>2, <2>1
<1>3. CASE \/ Open \/ Close \/ AppendDebug
           \/ \E kind \in {"user_input", "injection", "pin"} : AppendEvent(kind)
           \/ \E p \in 1..seq : AppendUnpin(p)
  BY <1>2, <1>3 DEF Open, Close, AppendDebug, AppendEvent, AppendUnpin, CanAppend
<1>4. CASE Synced
  <2>1. /\ acked' = Append(acked, pending) /\ pending \in Event /\ pending # None
        /\ status = "open" /\ status' \in {"open", "closed"} /\ file' = file /\ seq' = seq + 1
    BY <1>0, <1>4 DEF Synced
  <2>2. CASE status' = "open"
    <3>1. Durable!Record
      BY <2>1, <2>2 DEF Durable!Record, Over
    <3> QED
      BY <3>1 DEF Durable!Next
  <2>3. CASE status' = "closed" /\ Rejected(file)'
    <3>1. Durable!Refuse
      BY <2>1, <2>3 DEF Durable!Refuse, Over, Refinable, CleanWrites
    <3> QED
      BY <3>1 DEF Durable!Next
  <2>4. CASE status' = "closed" /\ ~Rejected(file)'
    <3>1. Len(file) = seq + 1 /\ Len(file') = seq' /\ seq \in Nat
      <4>1. ~Rejected(file)
        BY <2>1, <2>4 DEF Rejected, Newlines, Parses, StartsLine
      <4> QED
        BY <2>1, <4>1, InFlightIsLast, ConstantsOK DEF Refinable, TypeInv, TypeOK
    <3>2. (ReadSessionLog(file))' = Append(acked, pending)
      BY <2>1, <2>4, <3>1 DEF Refinable, ReadBack
    <3>3. Durable!End
      BY <2>1, <2>4, <3>2 DEF Durable!End, Over
    <3> QED
      BY <3>3 DEF Durable!Next
  <2> QED
    BY <2>1, <2>2, <2>3, <2>4
<1>5. CASE SyncFails
  <2>1. acked' = acked /\ status = "open" /\ status' \in {"open", "closed"}
    BY <1>5 DEF SyncFails, Failed, AfterFailed
  <2> QED
    BY <1>1, <2>1
<1>6. CASE Crash
  BY <1>1, <1>6 DEF Crash
<1>7. CASE UNCHANGED logVars
  BY <1>7 DEF logVars, Durable!vars, Over, ReadSessionLog, Rejected, Newlines, Parses, StartsLine
<1> QED
  BY <1>3, <1>4, <1>5, <1>6, <1>7 DEF LogNext

LEMMA RefinableInvariance == LogSpec => []Refinable
<1>1. LogInit => AckedOnDisk /\ FreshIds
  <2> SUFFICES ASSUME LogInit PROVE AckedOnDisk /\ FreshIds
    OBVIOUS
  <2>1. Len(acked) = 0 /\ Len(file) = 0
    BY EmptySeq DEF LogInit
  <2> QED
    BY <2>1 DEF AckedOnDisk, FreshIds
<1>2. TypeInv /\ AckedOnDisk /\ [LogNext]_logVars => AckedOnDisk'
  BY AckedOnDiskStep
<1>3. TypeInv /\ FreshIds /\ [LogNext]_logVars => FreshIds'
  BY FreshIdsStep
<1>4. TypeInv /\ AckedOnDisk /\ FreshIds => ReadBack
  BY AcceptedRead
<1>5. CASE CleanWrites
  <2>1. LogSpec => [](TypeInv /\ LineByLine)
    BY <1>5, CleanInvariance
  <2>2. TypeInv /\ LineByLine => ~Rejected(file)
    BY CleanRead
  <2>3. TypeInv /\ ReadBack /\ ~Rejected(file) => Refinable
    BY DEF Refinable
  <2> QED
    BY <1>1, <1>2, <1>3, <1>4, <2>1, <2>2, <2>3, TypeInvariance, PTL DEF LogSpec
<1>6. CASE ~CleanWrites
  <2>1. TypeInv /\ ReadBack => Refinable
    BY <1>6 DEF Refinable
  <2> QED
    BY <1>1, <1>2, <1>3, <1>4, <2>1, TypeInvariance, PTL DEF LogSpec
<1> QED
  BY <1>5, <1>6

\* SessionLogIsDurable: on any disk the log, its crashes included, is the list that
\* only grows that DurableLog specifies (SessionLog.Append, Close, ReadSessionLog).
THEOREM SessionLogIsDurable == LogSpec => ImplementsDurableLog
<1>1. LogInit => Durable!Init
  BY DEF LogInit, Durable!Init, Over
<1>2. Refinable /\ Refinable' /\ [LogNext]_logVars => [Durable!Next]_(Durable!vars)
  BY StepRefines
<1> QED
  BY <1>1, <1>2, RefinableInvariance, PTL DEF LogSpec, ImplementsDurableLog, Durable!Spec

-----------------------------------------------------------------------------
(* The live index.  Its pins go up, so taking one out leaves the others as *)
(* they were; and as long as the file has one piece for every id and the   *)
(* event in flight, those pieces are whole lines, and the index is what    *)
(* adding them one after another gives.                                    *)

Increasing(s) == \A i, j \in DOMAIN s : i < j => s[i] < s[j]

\* A sequence behind another: what is at each of its places.
LEMMA ConcatIs ==
  ASSUME NEW S, NEW a \in Seq(S), NEW b \in Seq(S)
  PROVE  /\ DOMAIN (a \o b) = 1..(Len(a) + Len(b))
         /\ \A i \in 1..(Len(a) + Len(b)) :
              (a \o b)[i] = IF i <= Len(a) THEN a[i] ELSE b[i - Len(a)]
BY ConcatProperties, LenProperties

\* The first n of a sequence, and those behind them.
LEMMA FrontSteps ==
  ASSUME NEW S, NEW s \in Seq(S), NEW n \in Nat, n <= Len(s)
  PROVE  /\ SubSeq(s, 1, n) \in Seq(S) /\ Len(SubSeq(s, 1, n)) = n
         /\ \A i \in 1..n : SubSeq(s, 1, n)[i] = s[i]
<1>1. Len(s) \in Nat /\ \A i \in 1..n : s[i] \in S
  BY LenProperties, ElementOfSeq
<1> QED
  BY <1>1, SubSeqProperties

LEMMA Behind ==
  ASSUME NEW S, NEW s \in Seq(S), NEW n \in Nat, n <= Len(s)
  PROVE  /\ SubSeq(s, n + 1, Len(s)) \in Seq(S)
         /\ Len(SubSeq(s, n + 1, Len(s))) = Len(s) - n
         /\ \A i \in 1..(Len(s) - n) : SubSeq(s, n + 1, Len(s))[i] = s[i + n]
<1>1. Len(s) \in Nat /\ \A i \in (n + 1)..Len(s) : s[i] \in S
  BY LenProperties, ElementOfSeq
<1>2. /\ SubSeq(s, n + 1, Len(s)) \in Seq(S)
      /\ Len(SubSeq(s, n + 1, Len(s)))
           = IF n + 1 <= Len(s) THEN Len(s) - (n + 1) + 1 ELSE 0
      /\ \A i \in 1..(Len(s) - (n + 1) + 1) : SubSeq(s, n + 1, Len(s))[i] = s[n + 1 + i - 1]
  BY <1>1, SubSeqProperties
<1>3. Len(SubSeq(s, n + 1, Len(s))) = Len(s) - n
  BY <1>1, <1>2
<1>4. ASSUME NEW i \in 1..(Len(s) - n)
      PROVE  SubSeq(s, n + 1, Len(s))[i] = s[i + n]
  <2>1. i \in 1..(Len(s) - (n + 1) + 1) /\ n + 1 + i - 1 = i + n
    BY <1>1
  <2>2. SubSeq(s, n + 1, Len(s))[i] = s[n + 1 + i - 1]
    BY <1>2, <2>1
  <2> QED
    BY <2>1, <2>2
<1> QED
  BY <1>2, <1>3, <1>4

\* Where what is at a place after the j-th was taken out had been before.
LEMMA PastTheGap ==
  ASSUME NEW n \in Nat, NEW j \in 1..n, NEW a \in 1..(n - 1), NEW b \in 1..(n - 1), a < b
  PROVE  /\ (IF a < j THEN a ELSE a + 1) \in 1..n
         /\ (IF b < j THEN b ELSE b + 1) \in 1..n
         /\ (IF a < j THEN a ELSE a + 1) < (IF b < j THEN b ELSE b + 1)
OBVIOUS

\* Taking x out of an increasing sequence leaves the others in it, still increasing.
LEMMA WithoutIncreasing ==
  ASSUME NEW s \in Seq(Nat), Increasing(s), NEW x
  PROVE  /\ Increasing(Without(s, x))
         /\ \A p : (\E j \in DOMAIN Without(s, x) : Without(s, x)[j] = p)
                     <=> p # x /\ \E j \in DOMAIN s : s[j] = p
<1>0. DOMAIN s = 1..Len(s) /\ Len(s) \in Nat /\ \A i \in 1..Len(s) : s[i] \in Nat
  BY LenProperties, ElementOfSeq
<1>1. CASE ~ \E j \in DOMAIN s : s[j] = x
  BY <1>1 DEF Without
<1>2. CASE \E j \in DOMAIN s : s[j] = x
  <2> DEFINE First(k) == s[k] = x /\ \A i \in 1..(k - 1) : s[i] # x
             j == CHOOSE k \in DOMAIN s : First(k)
             r == SubSeq(s, 1, j - 1) \o SubSeq(s, j + 1, Len(s))
  <2>1. PICK k \in DOMAIN s : s[k] = x
    BY <1>2
  <2>2. \A i \in 1..Len(s) : i # k => s[i] # x
    <3> SUFFICES ASSUME NEW i \in 1..Len(s), i # k PROVE s[i] # s[k]
      BY <2>1
    <3>1. k \in 1..Len(s) /\ (i < k \/ k < i)
      BY <1>0, <2>1
    <3>2. s[i] < s[k] \/ s[k] < s[i]
      BY <1>0, <3>1 DEF Increasing
    <3> QED
      BY <1>0, <3>1, <3>2
  <2>3. First(k)
    BY <1>0, <2>1, <2>2
  <2>4. j \in DOMAIN s /\ s[j] = x
    BY <2>3
  <2> HIDE DEF j
  <2>5. j \in 1..Len(s) /\ s[j] = x /\ \A i \in 1..Len(s) : i # j => s[i] # x
    BY <1>0, <2>2, <2>4
  <2> DEFINE u == SubSeq(s, 1, j - 1)
             v == SubSeq(s, j + 1, Len(s))
  <2>a. /\ j \in Nat /\ j <= Len(s) /\ j - 1 \in Nat /\ j - 1 <= Len(s)
        /\ Len(s) - 1 \in Nat /\ j - 1 + (Len(s) - j) = Len(s) - 1
    BY <1>0, <2>5
  <2>6. u \in Seq(Nat) /\ Len(u) = j - 1 /\ \A i \in 1..(j - 1) : u[i] = s[i]
    BY <2>a, FrontSteps
  <2>7. v \in Seq(Nat) /\ Len(v) = Len(s) - j /\ \A i \in 1..(Len(s) - j) : v[i] = s[i + j]
    BY <2>a, Behind
  <2> HIDE DEF u, v
  <2>w. /\ DOMAIN (u \o v) = 1..(Len(u) + Len(v))
        /\ \A i \in 1..(Len(u) + Len(v)) :
             (u \o v)[i] = IF i <= Len(u) THEN u[i] ELSE v[i - Len(u)]
    BY <2>6, <2>7, ConcatIs
  <2>x. Len(u) + Len(v) = Len(s) - 1
    BY <2>a, <2>6, <2>7
  <2>y. ASSUME NEW i \in 1..(Len(s) - 1)
        PROVE  (u \o v)[i] = IF i < j THEN s[i] ELSE s[i + 1]
    <3>1. (u \o v)[i] = IF i <= Len(u) THEN u[i] ELSE v[i - Len(u)]
      BY <2>w, <2>x
    <3>2. CASE i < j
      <4>1. i \in 1..(j - 1) /\ i <= Len(u)
        BY <2>a, <2>6, <3>2
      <4> QED
        BY <2>6, <3>1, <3>2, <4>1
    <3>3. CASE i >= j
      <4>1. /\ ~(i <= Len(u)) /\ ~(i < j) /\ i - Len(u) \in 1..(Len(s) - j)
            /\ i - Len(u) + j = i + 1
        BY <2>a, <2>6, <3>3
      <4>2. v[i - Len(u)] = s[i - Len(u) + j]
        BY <2>7, <4>1
      <4> QED
        BY <3>1, <4>1, <4>2
    <3>4. i < j \/ i >= j
      BY <2>a
    <3> QED
      BY <3>2, <3>3, <3>4
  <2>8. /\ DOMAIN r = 1..(Len(s) - 1)
        /\ \A i \in 1..(Len(s) - 1) : r[i] = IF i < j THEN s[i] ELSE s[i + 1]
    BY <2>w, <2>x, <2>y DEF u, v
  <2>9. Without(s, x) = r
    BY <1>2 DEF Without, j
  <2> HIDE DEF r
  <2>10. Increasing(r)
    <3> SUFFICES ASSUME NEW a \in DOMAIN r, NEW b \in DOMAIN r, a < b PROVE r[a] < r[b]
      BY DEF Increasing
    <3> DEFINE At(i) == IF i < j THEN i ELSE i + 1
    <3>1. At(a) \in DOMAIN s /\ At(b) \in DOMAIN s /\ At(a) < At(b)
      <4>1. a \in 1..(Len(s) - 1) /\ b \in 1..(Len(s) - 1)
        BY <2>8
      <4> QED
        BY <1>0, <2>5, <4>1, PastTheGap
    <3>2. s[At(a)] < s[At(b)]
      <4> HIDE DEF At
      <4> QED BY <3>1 DEF Increasing
    <3>3. r[a] = s[At(a)] /\ r[b] = s[At(b)]
      BY <2>8
    <3> QED
      BY <3>2, <3>3
  <2>11. \A p : (\E i \in DOMAIN r : r[i] = p) <=> p # x /\ \E i \in DOMAIN s : s[i] = p
    <3>1. ASSUME NEW i \in DOMAIN r PROVE r[i] # x /\ \E h \in DOMAIN s : s[h] = r[i]
      <4> DEFINE h == IF i < j THEN i ELSE i + 1
      <4>1. h \in 1..Len(s) /\ h # j /\ r[i] = s[h]
        BY SMTT(30), <1>0, <2>5, <2>8
      <4> QED
        BY <1>0, <2>5, <4>1
    <3>2. ASSUME NEW h \in DOMAIN s, s[h] # x PROVE \E i \in DOMAIN r : r[i] = s[h]
      <4> DEFINE i == IF h < j THEN h ELSE h - 1
      <4>1. h \in 1..Len(s) /\ h # j
        BY <1>0, <2>5, <3>2
      <4>2. i \in 1..(Len(s) - 1)
        BY <1>0, <2>5, <4>1
      <4>3. (IF i < j THEN i ELSE i + 1) = h
        BY <1>0, <2>5, <4>1
      <4>4. r[i] = s[h]
        BY <2>8, <4>2, <4>3
      <4> QED
        BY <2>8, <4>2, <4>4
    <3> QED
      BY <3>1, <3>2
  <2> QED
    BY <2>9, <2>10, <2>11
<1> QED
  BY <1>1, <1>2

\* Only an event that is synced is acknowledged, has an id and is in the index.
LEMMA OnlySyncedAdds ==
  ASSUME [LogNext]_logVars, ~Synced
  PROVE  UNCHANGED <<seq, size, idx, acked>>
BY DEF LogNext, Open, Close, AppendDebug, AppendEvent, AppendUnpin, WriteLine, Failed, AfterFailed,
       SyncFails, Crash, logVars

PinsInv ==
  /\ PinsAreLive
  /\ \A j \in DOMAIN idx.pins : idx.pins[j] \in 1..Len(acked)

LEMMA PinsStep ==
  ASSUME TypeInv, PinsInv, Synced
  PROVE  PinsInv'
<1> DEFINE e == pending
<1>1. /\ idx.pins \in Seq(Nat) /\ Increasing(idx.pins)
      /\ acked \in Seq(Event) /\ Len(acked) = seq /\ seq \in Nat
      /\ e \in Event /\ e.seq = seq + 1
      /\ \A j \in DOMAIN idx.pins : idx.pins[j] \in 1..seq
  <2>1. idx.pins \in Seq(1..MaxSeq) /\ \A j \in DOMAIN idx.pins : idx.pins[j] \in 1..seq
    BY DEF TypeInv, TypeOK, PinsInv, InStep
  <2>2. idx.pins \in Seq(Nat)
    BY <2>1, ElementOfSeq, LenProperties, ConstantsOK
  <2> QED
    BY <2>1, <2>2, ConstantsOK DEF Synced, TypeInv, TypeOK, InFlight, InStep, PinsInv, PinsAreLive, Increasing
<1>2. /\ acked' = Append(acked, e) /\ Len(acked') = seq + 1
      /\ acked'[seq + 1] = e /\ \A p \in 1..seq : acked'[p] = acked[p]
  BY <1>1 DEF Synced
<1>3. idx'.pins = CASE e.kind = "pin"   -> Append(idx.pins, e.seq)
                    [] e.kind = "unpin" -> Without(idx.pins, e.pin)
                    [] OTHER            -> idx.pins
  BY DEF Synced, IndexAdd
<1> DEFINE In(p, s) == \E j \in DOMAIN s : s[j] = p
           Lives(p, a) == /\ a[p].kind = "pin"
                          /\ \A q \in (p + 1)..Len(a) : ~(a[q].kind = "unpin" /\ a[q].pin = p)
           Unpinned(p) == e.kind = "unpin" /\ e.pin = p
<1>4. \A p \in 1..seq : In(p, idx.pins) <=> Lives(p, acked)
  BY <1>1 DEF PinsInv, PinsAreLive
<1>5. ASSUME NEW p \in 1..seq
      PROVE  Lives(p, acked') <=> Lives(p, acked) /\ ~Unpinned(p)
  <2>1. acked'[p] = acked[p]
    BY <1>2
  <2>2. (p + 1)..(seq + 1) = ((p + 1)..seq) \cup {seq + 1}
    BY <1>1
  <2>3. \A q \in (p + 1)..seq : acked'[q] = acked[q]
    BY <1>1, <1>2
  <2> QED
    BY <1>1, <1>2, <2>1, <2>2, <2>3
<1>6. Lives(seq + 1, acked') <=> e.kind = "pin"
  BY <1>1, <1>2
<1>7. ~In(seq + 1, idx.pins)
  BY <1>1
<1> DEFINE After == /\ Increasing(idx'.pins)
                    /\ \A j \in DOMAIN idx'.pins : idx'.pins[j] \in 1..(seq + 1)
                    /\ \A p \in 1..seq : In(p, idx'.pins) <=> In(p, idx.pins) /\ ~Unpinned(p)
                    /\ In(seq + 1, idx'.pins) <=> e.kind = "pin"
<1>8. After
  <2>1. CASE e.kind = "pin"
    <3>1. idx'.pins = Append(idx.pins, seq + 1)
      BY <1>1, <1>3, <2>1
    <3>2. /\ DOMAIN idx'.pins = 1..(Len(idx.pins) + 1) /\ Len(idx.pins) \in Nat
          /\ idx'.pins[Len(idx.pins) + 1] = seq + 1
          /\ \A j \in 1..Len(idx.pins) : idx'.pins[j] = idx.pins[j]
          /\ DOMAIN idx.pins = 1..Len(idx.pins)
      BY <1>1, <3>1, LenProperties, AppendProperties
    <3>3. Increasing(idx'.pins)
      <4> SUFFICES ASSUME NEW i \in DOMAIN idx'.pins, NEW j \in DOMAIN idx'.pins, i < j
                   PROVE  idx'.pins[i] < idx'.pins[j]
        BY DEF Increasing
      <4>1. i \in DOMAIN idx.pins /\ idx'.pins[i] = idx.pins[i]
        BY <3>2
      <4>2. CASE j \in DOMAIN idx.pins
        BY <1>1, <3>2, <4>1, <4>2 DEF Increasing
      <4>3. CASE j = Len(idx.pins) + 1
        BY <1>1, <3>2, <4>1, <4>3
      <4> QED
        BY <3>2, <4>2, <4>3
    <3>4. \A p : In(p, idx'.pins) <=> In(p, idx.pins) \/ p = seq + 1
      BY <3>2, SMTT(40)
    <3>5. \A j \in DOMAIN idx'.pins : idx'.pins[j] \in 1..(seq + 1)
      <4> SUFFICES ASSUME NEW j \in DOMAIN idx'.pins PROVE idx'.pins[j] \in 1..(seq + 1)
        OBVIOUS
      <4>1. CASE j \in DOMAIN idx.pins
        BY <1>1, <3>2, <4>1, SMTT(40)
      <4>2. CASE j = Len(idx.pins) + 1
        BY <1>1, <3>2, <4>2
      <4> QED
        BY <3>2, <4>1, <4>2
    <3>6. \A p \in 1..seq : p # seq + 1 /\ ~Unpinned(p)
      BY <1>1, <2>1
    <3> HIDE DEF e, In, Unpinned
    <3> QED
      BY <1>1, <2>1, <3>3, <3>4, <3>5, <3>6
  <2>2. CASE e.kind = "unpin"
    <3>1. idx'.pins = Without(idx.pins, e.pin)
      BY <1>3, <2>2
    <3> DEFINE without == Without(idx.pins, e.pin)
    <3>2. /\ Increasing(without)
          /\ \A p : (\E j \in DOMAIN without : without[j] = p)
                      <=> p # e.pin /\ \E j \in DOMAIN idx.pins : idx.pins[j] = p
      <4> HIDE DEF e
      <4>1. idx.pins \in Seq(Nat) /\ Increasing(idx.pins)
        BY <1>1
      <4> QED
        BY <4>1, WithoutIncreasing, ZenonT(60)
    <3> HIDE DEF without
    <3>3. Increasing(idx'.pins) /\ \A p : In(p, idx'.pins) <=> p # e.pin /\ In(p, idx.pins)
      BY <3>1, <3>2 DEF without
    <3>4. \A j \in DOMAIN idx'.pins : idx'.pins[j] \in 1..(seq + 1)
      <4> SUFFICES ASSUME NEW j \in DOMAIN idx'.pins PROVE idx'.pins[j] \in 1..(seq + 1)
        OBVIOUS
      <4>1. In(idx'.pins[j], idx.pins)
        BY <3>3
      <4> QED
        BY <1>1, <4>1
    <3> HIDE DEF e, In
    <3> QED
      BY <1>7, <2>2, <3>3, <3>4
  <2>3. CASE e.kind \notin {"pin", "unpin"}
    <3>1. idx'.pins = idx.pins
      BY <1>3, <2>3
    <3>2. \A j \in DOMAIN idx.pins : idx.pins[j] \in 1..(seq + 1)
      BY <1>1
    <3> HIDE DEF e, In
    <3> QED
      BY <1>1, <1>7, <2>3, <3>1, <3>2
  <2> QED
    BY <2>1, <2>2, <2>3
<1> HIDE DEF e, In, Lives, Unpinned
<1>9. \A p \in 1..(seq + 1) : In(p, idx'.pins) <=> Lives(p, acked')
  <2>1. \A p \in 1..(seq + 1) : p \in 1..seq \/ p = seq + 1
    BY <1>1
  <2> QED
    BY <1>4, <1>5, <1>6, <1>8, <2>1
<1> QED
  BY <1>2, <1>8, <1>9 DEF PinsInv, PinsAreLive, In, Lives, Increasing

\* What adding the first n pieces of a file one after another makes of an empty index.
Builds(b, f, n) ==
  b = [i \in 0..n |-> IF i = 0 THEN EmptyIndex ELSE IndexAdd(b[i - 1], f[i].ev, f[i].at)]

\* There is only one such function: at the first place where two of them differed, they
\* would have been made in the same way of the same index.
LEMMA BuildsOnce ==
  ASSUME NEW f, NEW n \in Nat, NEW b, NEW c, Builds(b, f, n), Builds(c, f, n)
  PROVE  b[n] = c[n]
<1> DEFINE T == {i \in 0..n : b[i] # c[i]}
<1>1. SUFFICES ASSUME T # {} PROVE FALSE
  OBVIOUS
<1>2. PICK i \in T : \A j \in T : i <= j
  <2>1. T \subseteq Nat
    OBVIOUS
  <2> HIDE DEF T
  <2> QED
    BY <1>1, <2>1, LeastNatural
<1>3. i \in 0..n /\ b[i] # c[i]
  BY <1>2
<1>4. i # 0
  BY <1>3 DEF Builds
<1>5. i - 1 \in 0..n /\ i - 1 \notin T
  BY <1>2, <1>3, <1>4
<1>6. b[i - 1] = c[i - 1]
  BY <1>5
<1>7. /\ b[i] = IndexAdd(b[i - 1], f[i].ev, f[i].at)
      /\ c[i] = IndexAdd(c[i - 1], f[i].ev, f[i].at)
  BY <1>3, <1>4 DEF Builds
<1> QED
  BY <1>3, <1>6, <1>7

\* A reader of whole lines builds it.
LEMMA ReaderBuilds ==
  ASSUME NEW f \in Seq(Piece), \A i \in DOMAIN f : f[i].got = "line",
         NEW b, Builds(b, f, Len(f))
  PROVE  BuildSessionIndex(f) = b[Len(f)]
<1> DEFINE events == ReadSessionLog(f)
<1>0. Len(f) \in Nat /\ DOMAIN f = 1..Len(f) /\ \A i \in 1..Len(f) : f[i] \in Piece
  BY LenProperties, ElementOfSeq
<1>1. events \in Seq(Event) /\ Len(events) = Len(f) /\ \A i \in 1..Len(f) : events[i] = f[i].ev
  <2>1. \A i \in DOMAIN f : Parses(f, i)
    BY <1>0 DEF Parses, StartsLine
  <2>2. events = [i \in 1..Len(f) |-> f[i].ev]
    BY <1>0, <2>1 DEF ReadSessionLog
  <2>3. \A i \in 1..Len(f) : f[i].ev \in Event
    BY <1>0 DEF Piece
  <2> HIDE DEF events
  <2> QED
    BY <1>0, <2>2, <2>3
<1> DEFINE Reads(c, n) == c = [i \in 0..n |-> IF i = 0 THEN EmptyIndex
                                              ELSE IndexAdd(c[i - 1], events[i], f[i].at)]
           build == CHOOSE c : Reads(c, Len(events))
<1>2. BuildSessionIndex(f) = build[Len(events)]
  BY Zenon DEF BuildSessionIndex
<1> HIDE DEF events
<1>3. \A c : Reads(c, Len(events)) <=> Builds(c, f, Len(f))
  BY <1>1 DEF Builds
<1>4. Builds(build, f, Len(f))
  <2> HIDE DEF Reads
  <2> QED BY <1>3, Zenon
<1> HIDE DEF build
<1> QED
  BY <1>0, <1>1, <1>2, <1>4, BuildsOnce

InFile == seq + (IF pending = None THEN 0 ELSE 1)

\* The pieces of a file that no failed append has left anything in.
Unspoilt ==
  /\ \A i \in 1..Len(file) : file[i].got = "line" /\ file[i].at = 3 * (i - 1)
  /\ size = 3 * seq
  /\ \E b : Builds(b, file, seq) /\ idx = b[seq]

BuiltInv == status # "crashed" => InFile <= Len(file) /\ (InFile = Len(file) => Unspoilt)

LEMMA WriteLineBuilt ==
  ASSUME TypeInv, BuiltInv, NEW e \in Event, WriteLine(e), pending = None, status # "crashed"
  PROVE  BuiltInv'
<1>0. /\ file \in Seq(Piece) /\ Len(file) \in Nat /\ seq \in Nat
      /\ InFile = seq /\ seq <= Len(file) /\ None \notin Event
  BY LenProperties DEF TypeInv, TypeOK, BuiltInv, InFile, None, Event, Kinds
<1>1. CASE /\ file' = Written(file, e, "line") /\ pending' = e /\ status' = "open"
           /\ UNCHANGED <<synced, seq, size, idx, acked, errors>>
  <2>1. /\ Len(file') = Len(file) + 1 /\ \A i \in 1..Len(file) : file'[i] = file[i]
        /\ file'[Len(file) + 1] = [ev |-> e, at |-> FileEnd(file), got |-> "line"]
    BY <1>0, <1>1, WrittenProperties DEF Parts
  <2>2. InFile' = seq + 1 /\ seq' = seq /\ size' = size /\ idx' = idx
    BY <1>0, <1>1 DEF InFile
  <2>3. ASSUME seq = Len(file) PROVE Unspoilt'
    <3>1. Unspoilt
      BY <1>0, <2>3 DEF BuiltInv
    <3>2. FileEnd(file) = 3 * seq
      <4>1. CASE file = <<>>
        BY <2>3, <4>1 DEF FileEnd
      <4>2. CASE file # <<>>
        <5>1. Len(file) \in 1..Len(file)
          BY <1>0, <4>2, EmptySeq
        <5>2. file[Len(file)].got = "line" /\ file[Len(file)].at = 3 * (Len(file) - 1)
          BY <3>1, <5>1 DEF Unspoilt
        <5>3. FileEnd(file) = 3 * (Len(file) - 1) + 3
          BY <4>2, <5>2 DEF FileEnd, Lengths
        <5> QED
          BY <1>0, <2>3, <5>3
      <4> QED
        BY <4>1, <4>2
    <3>3. \A i \in 1..Len(file') : file'[i].got = "line" /\ file'[i].at = 3 * (i - 1)
      <4> SUFFICES ASSUME NEW i \in 1..Len(file')
                   PROVE  file'[i].got = "line" /\ file'[i].at = 3 * (i - 1)
        OBVIOUS
      <4>1. CASE i \in 1..Len(file)
        BY <2>1, <3>1, <4>1 DEF Unspoilt
      <4>2. CASE i = Len(file) + 1
        BY <1>0, <2>1, <2>3, <3>2, <4>2
      <4> QED
        BY <1>0, <2>1, <4>1, <4>2
    <3>4. \A b : Builds(b, file, seq) => Builds(b, file', seq)
      <4> SUFFICES ASSUME NEW b, Builds(b, file, seq) PROVE Builds(b, file', seq)
        OBVIOUS
      <4>1. [i \in 0..seq |-> IF i = 0 THEN EmptyIndex ELSE IndexAdd(b[i - 1], file[i].ev, file[i].at)]
              = [i \in 0..seq |-> IF i = 0 THEN EmptyIndex ELSE IndexAdd(b[i - 1], file'[i].ev, file'[i].at)]
        <5>1. \A i \in 0..seq : i # 0 => file'[i] = file[i]
          BY <1>0, <2>1, <2>3
        <5> QED
          BY <5>1
      <4> QED
        BY <4>1 DEF Builds
    <3>5. PICK b : Builds(b, file, seq) /\ idx = b[seq]
      BY <3>1 DEF Unspoilt
    <3>6. \E c : Builds(c, file', seq') /\ idx' = c[seq']
      BY <2>2, <3>4, <3>5
    <3>7. size' = 3 * seq'
      BY <2>2, <3>1 DEF Unspoilt
    <3> QED
      BY <3>3, <3>6, <3>7 DEF Unspoilt
  <2> QED
    BY <1>0, <2>1, <2>2, <2>3 DEF BuiltInv
<1>2. CASE "nowrite" \in Faults /\ Failed(e) /\ UNCHANGED <<file, synced, pending>>
  BY <1>0, <1>2 DEF BuiltInv, Failed, AfterFailed, InFile, Unspoilt
<1>3. CASE /\ Failed(e) /\ \E got \in {"half", "body"} : file' = Written(file, e, got)
           /\ UNCHANGED <<synced, pending>>
  <2>1. Len(file') = Len(file) + 1
    BY ZenonT(60), <1>0, <1>3, WrittenProperties DEF Parts
  <2>2. InFile' = seq
    BY <1>0, <1>3 DEF Failed, InFile
  <2> QED
    BY <1>0, <2>1, <2>2 DEF BuiltInv
<1> QED
  BY <1>1, <1>2, <1>3 DEF WriteLine

LEMMA SyncedBuilt ==
  ASSUME TypeInv, BuiltInv, Synced
  PROVE  BuiltInv'
<1>0. /\ file \in Seq(Piece) /\ Len(file) \in Nat /\ seq \in Nat
      /\ pending # None /\ status = "open" /\ pending' = None
      /\ file # <<>> /\ file[Len(file)].ev = pending
      /\ file' = file /\ seq' = seq + 1 /\ size' = size + 3
      /\ idx' = IndexAdd(idx, pending, size)
  BY LenProperties DEF TypeInv, TypeOK, InFlight, Synced, Lengths
<1>1. InFile = seq + 1 /\ InFile' = seq + 1
  BY <1>0 DEF InFile
<1>2. ASSUME Len(file) = seq + 1 PROVE Unspoilt'
  <2>1. Unspoilt
    BY <1>0, <1>1, <1>2 DEF BuiltInv
  <2>2. PICK b : Builds(b, file, seq) /\ idx = b[seq]
    BY <2>1 DEF Unspoilt
  <2> DEFINE n == seq + 1
             c == [i \in 0..n |-> IF i = n THEN idx' ELSE b[i]]
  <2>3. file[n].ev = pending /\ file[n].at = size
    BY <1>0, <1>2, <2>1 DEF Unspoilt
  <2>4. ASSUME NEW i \in 0..n
        PROVE  c[i] = IF i = 0 THEN EmptyIndex ELSE IndexAdd(c[i - 1], file[i].ev, file[i].at)
    <3>1. CASE i = n
      <4>1. c[n] = idx' /\ n # 0 /\ n - 1 = seq /\ c[seq] = b[seq]
        BY <1>0
      <4> HIDE DEF n, c
      <4> QED
        BY <1>0, <2>2, <2>3, <3>1, <4>1
    <3>2. CASE i # n
      <4>1. i \in 0..seq /\ c[i] = b[i] /\ (i # 0 => c[i - 1] = b[i - 1])
        BY <1>0, <3>2
      <4>2. b[i] = IF i = 0 THEN EmptyIndex ELSE IndexAdd(b[i - 1], file[i].ev, file[i].at)
        BY <2>2, <4>1 DEF Builds
      <4> HIDE DEF n, c
      <4> QED
        BY <4>1, <4>2
    <3> QED
      BY <3>1, <3>2
  <2>5. Builds(c, file, n)
    <3>1. c = [i \in 0..n |-> c[i]]
      OBVIOUS
    <3> HIDE DEF c
    <3> QED
      BY <2>4, <3>1 DEF Builds
  <2>6. idx' = c[n]
    BY <1>0
  <2> HIDE DEF c
  <2>7. size' = 3 * seq'
    BY <1>0, <2>1 DEF Unspoilt
  <2> QED
    BY <1>0, <2>1, <2>5, <2>6, <2>7 DEF Unspoilt
<1> QED
  BY <1>0, <1>1, <1>2 DEF BuiltInv

LEMMA LiveStep ==
  ASSUME TypeInv, PinsInv, BuiltInv, [LogNext]_logVars
  PROVE  PinsInv' /\ BuiltInv'
<1>1. CASE Synced
  BY <1>1, PinsStep, SyncedBuilt
<1>2. CASE ~Synced
  <2>1. PinsInv'
    <3>1. idx' = idx /\ acked' = acked
      BY <1>2, OnlySyncedAdds
    <3> QED
      BY <3>1 DEF PinsInv, PinsAreLive
  <2> SUFFICES BuiltInv'
    BY <2>1
  <2>2. seq \in 0..MaxSeq /\ 0 \in 0..MaxSeq
    BY ConstantsOK DEF TypeInv, TypeOK
  <2>3. ASSUME NEW kind \in Kinds, NEW level \in Levels, NEW pin \in 0..MaxSeq,
               seq < MaxSeq, pending = None, status # "crashed", WriteLine(NewEvent(kind, level, pin))
        PROVE  BuiltInv'
    BY <2>2, <2>3, NewEventType, WriteLineBuilt
  <2>4. CASE Open
    BY <2>2, <2>3, <2>4 DEF Open, Kinds, Levels, TypeInv, InStep
  <2>5. CASE Close \/ AppendDebug
    BY <2>2, <2>3, <2>5 DEF Close, AppendDebug, CanAppend, Kinds, Levels
  <2>6. ASSUME NEW kind \in {"user_input", "injection", "pin"}, AppendEvent(kind) PROVE BuiltInv'
    BY <2>2, <2>3, <2>6 DEF AppendEvent, CanAppend, Kinds, Levels
  <2>7. ASSUME NEW p \in 1..seq, AppendUnpin(p) PROVE BuiltInv'
    <3>1. p \in 0..MaxSeq
      BY <2>2, ConstantsOK
    <3> QED
      BY <2>3, <2>7, <3>1 DEF AppendUnpin, CanAppend, Kinds, Levels
  <2>8. CASE SyncFails
    <3>1. /\ file' = file /\ seq' = seq /\ seq \in Nat /\ Len(file) \in Nat
          /\ pending' = None /\ InFile = seq + 1 /\ InFile' = seq /\ status # "crashed"
      BY <2>2, <2>8, LenProperties DEF SyncFails, Failed, InFile, TypeInv, TypeOK
    <3> QED
      BY <3>1 DEF BuiltInv
  <2>9. CASE Crash
    BY <2>9 DEF Crash, BuiltInv
  <2>10. CASE UNCHANGED logVars
    BY <2>10 DEF logVars, BuiltInv, Unspoilt, InFile
  <2> QED
    BY <1>2, <2>4, <2>5, <2>6, <2>7, <2>8, <2>9, <2>10 DEF LogNext
<1> QED
  BY <1>1, <1>2

LEMMA LiveInit == LogInit => PinsInv /\ BuiltInv
<1> SUFFICES ASSUME LogInit PROVE PinsInv /\ BuiltInv
  OBVIOUS
<1>1. idx = EmptyIndex /\ idx.pins = <<>> /\ file = <<>> /\ acked = <<>> /\ seq = 0 /\ size = 0
  BY DEF LogInit, EmptyIndex
<1>2. Len(file) = 0 /\ Len(acked) = 0 /\ DOMAIN idx.pins = {}
  BY <1>1
<1>3. PinsInv
  BY <1>2 DEF PinsInv, PinsAreLive
<1> DEFINE b == [i \in 0..0 |-> EmptyIndex]
<1>4. Builds(b, file, 0) /\ b[0] = EmptyIndex
  BY DEF Builds
<1> HIDE DEF b
<1>5. \E c : Builds(c, file, seq) /\ idx = c[seq]
  BY <1>1, <1>4
<1>6. Unspoilt
  BY <1>1, <1>2, <1>5 DEF Unspoilt
<1>7. pending = None
  BY DEF LogInit
<1>8. BuiltInv
  BY <1>1, <1>2, <1>6, <1>7 DEF BuiltInv, InFile
<1> QED
  BY <1>3, <1>8

\* LiveIndexIsReaders: whatever appends failed before, the index kept while a session is
\* logged is the one that is built from its file, as long as they left nothing in it, and
\* its pins are those that no later event unpinned (sessionindex.go: "can be rebuilt from
\* the file; the two must agree").
THEOREM LiveIndexIsReaders == LogSpec => []LiveIndexAgrees
<1>1. TypeInv /\ PinsInv /\ BuiltInv => LiveIndexAgrees
  <2> SUFFICES ASSUME TypeInv, PinsInv, BuiltInv, status # "crashed", pending = None, Len(file) = seq
               PROVE  idx = BuildSessionIndex(file)
    BY DEF LiveIndexAgrees, PinsInv, IndexIsReaders
  <2>1. file \in Seq(Piece) /\ DOMAIN file = 1..Len(file) /\ seq \in Nat
    BY LenProperties, ConstantsOK DEF TypeInv, TypeOK
  <2>2. Unspoilt
    BY <2>1 DEF BuiltInv, InFile
  <2>3. \A i \in DOMAIN file : file[i].got = "line"
    BY <2>1, <2>2 DEF Unspoilt
  <2>4. PICK b : Builds(b, file, Len(file)) /\ idx = b[Len(file)]
    BY <2>2 DEF Unspoilt
  <2> QED
    BY <2>1, <2>3, <2>4, ReaderBuilds
<1>2. TypeInv /\ PinsInv /\ BuiltInv /\ TypeInv' /\ [LogNext]_logVars => PinsInv' /\ BuiltInv'
  BY LiveStep
<1> QED
  BY <1>1, <1>2, LiveInit, TypeInvariance, PTL DEF LogSpec

-----------------------------------------------------------------------------
(* Rules, records and settings.                                            *)
(*                                                                         *)
(* A step adds at most two events to the ring, so what the ring holds      *)
(* follows from what one event does to it. A file is written at once when  *)
(* a rule was asked, except in an offer: there the invariant says that     *)
(* the rule that was asked before the author was still stands.             *)


USE CapacityAssumption

Ring == [events : [Places -> Events \cup {NoEvent}], head : Places, count : 0 .. Capacity]
Books == [audit : Ring, given : Seq(Events), log : Seq(Told)]
Offers == [index : Nat, of : Nat]
On == Spellings \cup Programs \cup {"log", "push"} \cup {c.on : c \in Lines}
Acts == [op : {"write", "read", "run", "look", "git", "format"}, on : On, did : BOOLEAN]

\* The ring r holds the newest of the events that were given.
Holds(r, given) ==
  /\ r.count = IF Len(given) < Capacity THEN Len(given) ELSE Capacity
  /\ \A i \in 0 .. r.count - 1 : r.events[Index(r, i)] = given[Len(given) - i]

GoodBooks(b) == b \in Books /\ Holds(b.audit, b.given)

\* The blocks, or the files, are counted from one. Where the author is asked about a
\* block there is one, and the rules let Harvey write to it.
AskedIsAllowed ==
  /\ doing.what \in {"offers", "reading", "walking"} => doing.at # 0
  /\ Offering /\ doing.asked => doing.at <= Len(doing.blocks) /\ CheckWritePermission(Block)

AccessInv == AccessTypeOK /\ acts \in Seq(Acts) /\ GoodBooks(books) /\ AskedIsAllowed

Configs == [safe : BOOLEAN, allowed : SUBSET Programs, permissions : Rules,
            aliases : SUBSET Aliases]
Doings == [what : {"prompt", "turn", "offers", "untagged", "reading", "walking"},
           blocks : Seq(Spellings), at : Nat, all : BOOLEAN, asked : BOOLEAN, from : Nat,
           written : SUBSET Nat]
SettingsOK == config \in Configs /\ yaml \in Files /\ behind \subseteq {"rules", "aliases"}
ActsOK == acts \in Seq(Acts) /\ files \in [Paths -> 0 .. Len(acts)]
DoingOK == doing \in Doings /\ queue \in Seq(Lines) /\ spent \in [commands : Nat, ends : Nat]

-----------------------------------------------------------------------------
(* The ring.                                                               *)

LEMMA NextPlace ==
  ASSUME NEW h \in Places
  PROVE  (h + 1) % Capacity = IF h = Capacity - 1 THEN 0 ELSE h + 1
<1>1. CASE h = Capacity - 1
  BY <1>1, SMT DEF Places
<1>2. CASE h # Capacity - 1
  BY <1>2, SMT DEF Places
<1> QED
  BY <1>1, <1>2

LEMMA NewHolds ==
  /\ NewAuditBuffer \in Ring
  /\ Holds(NewAuditBuffer, <<>>)
<1>1. 0 \in Places /\ 0 \in 0 .. Capacity
  BY SMT DEF Places
<1> QED
  BY <1>1, SMT DEF NewAuditBuffer, Ring, Holds

\* Where the i-th newest event is, as the ring takes in one more at its head h.
LEMMA IndexShift ==
  ASSUME CapacityAssumption, NEW h \in 0 .. Capacity - 1, NEW i \in 1 .. Capacity - 1,
         NEW a, a = IF h = 0 THEN Capacity - 1 ELSE h - 1
  PROVE  LET x == IF h - i < 0 THEN h - i + Capacity ELSE h - i
         IN  /\ x = (IF a - (i - 1) < 0 THEN a - (i - 1) + Capacity ELSE a - (i - 1))
             /\ x # h /\ x \in 0 .. Capacity - 1
BY DEF CapacityAssumption

\* An event goes to the place written next, and the others grow older by one.
LEMMA AddHolds ==
  ASSUME NEW r \in Ring, NEW given \in Seq(Events), Holds(r, given), NEW e \in Events
  PROVE  /\ Add(r, e) \in Ring
         /\ Holds(Add(r, e), Append(given, e))
<1> DEFINE s == Add(r, e)
           g == Append(given, e)
           h == r.head
<1>1. /\ h \in 0 .. Capacity - 1 /\ r.count \in 0 .. Capacity
      /\ r.events \in [0 .. Capacity - 1 -> Events \cup {NoEvent}]
  BY DEF Ring, Places
<1>2. s.head = IF h = Capacity - 1 THEN 0 ELSE h + 1
  BY NextPlace DEF Add, Ring
<1>3. s.count = IF r.count < Capacity THEN r.count + 1 ELSE r.count
  BY DEF Add
<1>4. s.events = [r.events EXCEPT ![h] = e]
  BY DEF Add
<1>5. s \in Ring
  <2>1. s = [events |-> s.events, head |-> s.head, count |-> s.count]
    BY DEF Add
  <2>2. s.head \in Places
    BY <1>1, <1>2, SMT DEF Places
  <2>3. s.count \in 0 .. Capacity
    BY <1>1, <1>3, SMT
  <2>4. s.events \in [Places -> Events \cup {NoEvent}]
    BY <1>1, <1>4 DEF Places
  <2> HIDE DEF s
  <2> QED
    BY <2>1, <2>2, <2>3, <2>4 DEF Ring
<1>6. Len(g) = Len(given) + 1 /\ g[Len(g)] = e /\ Len(given) \in Nat
      /\ \A i \in 1 .. Len(given) : g[i] = given[i]
  OBVIOUS
<1>7. s.count = IF Len(g) < Capacity THEN Len(g) ELSE Capacity
  BY <1>3, <1>6, SMT DEF Holds
<1>8. Start(s) = h
  BY <1>1, <1>2, SMT DEF Start
<1>9. Start(r) = IF h = 0 THEN Capacity - 1 ELSE h - 1
  BY DEF Start
<1>10. ASSUME NEW i \in 0 .. s.count - 1
      PROVE  s.events[Index(s, i)] = g[Len(g) - i]
  <2>1. CASE i = 0
    <3>1. Index(s, 0) = h
      BY <1>1, <1>8, SMT DEF Index
    <3> QED
      BY <2>1, <3>1, <1>1, <1>4, <1>6, SMT
  <2>2. CASE i # 0
    <3>1. i - 1 \in 0 .. r.count - 1 /\ i - 1 < Capacity - 1
      BY <2>2, <1>1, <1>3, SMT
    <3>2. Index(s, i) = Index(r, i - 1) /\ Index(s, i) # h /\ Index(s, i) \in 0 .. Capacity - 1
      <4>1. i \in 1 .. Capacity - 1
        BY <3>1, <2>2, <1>3, <1>1, SMT
      <4> HIDE DEF s
      <4> QED
        BY SMTT(30), <4>1, <1>1, <1>8, <1>9, IndexShift DEF Index
    <3>3. s.events[Index(s, i)] = r.events[Index(r, i - 1)]
      BY <3>2, <1>1, <1>4
    <3>4. r.events[Index(r, i - 1)] = given[Len(given) - (i - 1)]
      BY <3>1 DEF Holds
    <3>5. Len(given) - (i - 1) \in 1 .. Len(given)
      BY <3>1, <1>6, <1>1, SMT DEF Holds
    <3>6. Len(g) - i = Len(given) - (i - 1)
      BY <1>6, <2>2, SMT
    <3> QED
      BY <3>3, <3>4, <3>5, <3>6, <1>6
  <2> QED
    BY <2>1, <2>2
<1> QED
  BY <1>5, <1>7, <1>10 DEF Holds

-----------------------------------------------------------------------------
(* The books.                                                              *)

Decisions == {"allow", "auto", "deny", "none"}
Scopes == {"rule", "once", "session"}
AnswersGiven == {"none", "no", "quit", "yes", "all"}
Outcomes == {"none", "ok", "error", "skipped", "aborted", "denied"}

LEMMA NoOfferType == NoOffer \in Offers
BY DEF NoOffer, Offers

LEMMA NextActType ==
  ASSUME acts \in Seq(Acts)
  PROVE  NextAct \in Nat
BY DEF NextAct

LEMMA LogChanged ==
  ASSUME NEW b \in Books, NEW x
  PROVE  [b EXCEPT !.log = x] = [audit |-> b.audit, given |-> b.given, log |-> x]
BY DEF Books

LEMMA PermissionBooks ==
  ASSUME acts \in Seq(Acts), NEW b, GoodBooks(b), NEW decision \in Decisions,
         NEW scope \in Scopes, NEW choice \in AnswersGiven, NEW outcome \in Outcomes,
         NEW offer \in Offers
  PROVE  /\ GoodBooks(Permission(b, decision, scope, choice, outcome, offer))
         /\ \E t \in Told :
              /\ t.act = NextAct /\ t.decision = decision /\ t.outcome = outcome /\ t.offer = offer
              /\ Permission(b, decision, scope, choice, outcome, offer).log = Append(b.log, t)
<1> DEFINE t == [act |-> NextAct, decision |-> decision, scope |-> scope,
                 choice |-> choice, outcome |-> outcome, offer |-> offer]
           c == [b EXCEPT !.log = Append(@, t)]
<1>1. t \in Told
  BY NextActType DEF Told, Decisions, Scopes, AnswersGiven, Outcomes, Offers
<1>2. b = [audit |-> b.audit, given |-> b.given, log |-> b.log]
      /\ b.audit \in Ring /\ b.given \in Seq(Events) /\ b.log \in Seq(Told)
  BY DEF GoodBooks, Books
<1>7. t.act = NextAct /\ t.decision = decision /\ t.outcome = outcome /\ t.offer = offer
  OBVIOUS
<1> HIDE DEF t
<1>3. c = [audit |-> b.audit, given |-> b.given, log |-> Append(b.log, t)]
  BY LogChanged DEF GoodBooks
<1>4. Append(b.log, t) \in Seq(Told)
  BY <1>1, <1>2
<1>5. c \in Books /\ c.audit = b.audit /\ c.given = b.given
  BY <1>2, <1>3, <1>4 DEF Books
<1>6. GoodBooks(c)
  BY <1>5 DEF GoodBooks
<1>8. c.log = Append(b.log, t)
  BY <1>3
<1>9. Permission(b, decision, scope, choice, outcome, offer) = c
  BY DEF Permission, t
<1> QED
  BY <1>1, <1>6, <1>7, <1>8, <1>9

\* An event that tells, with t, of the act at hand that the decision d was taken.
Tells(b, c, d) ==
  \E t \in Told : t.act = NextAct /\ t.decision = d /\ c.log = Append(b.log, t)

LEMMA AuditBooks ==
  ASSUME acts \in Seq(Acts), NEW b, GoodBooks(b), NEW e \in Events, NEW offer \in Offers
  PROVE  LET c == PermissionFromAudit(b, e, offer) IN
         /\ GoodBooks(c)
         /\ IF e.status = "denied"
            THEN IF e.action = "write" /\ offer.of > 0 THEN c.log = b.log ELSE Tells(b, c, "deny")
            ELSE IF e.action = "read" THEN c.log = b.log ELSE Tells(b, c, "auto")
<1> DEFINE deny == Permission(b, "deny", "rule", "none", "none", NoOffer)
           auto == Permission(b, "auto", "rule", "none", "none", NoOffer)
<1>1. GoodBooks(deny) /\ Tells(b, deny, "deny")
  <2>1. "deny" \in Decisions /\ "rule" \in Scopes /\ "none" \in AnswersGiven /\ "none" \in Outcomes
    BY DEF Decisions, Scopes, AnswersGiven, Outcomes
  <2>2. /\ GoodBooks(deny)
        /\ \E t \in Told :
             /\ t.act = NextAct /\ t.decision = "deny" /\ t.outcome = "none" /\ t.offer = NoOffer
             /\ deny.log = Append(b.log, t)
    BY <2>1, PermissionBooks, NoOfferType
  <2> QED
    BY <2>2 DEF Tells
<1>2. GoodBooks(auto) /\ Tells(b, auto, "auto")
  <2>1. "auto" \in Decisions /\ "rule" \in Scopes /\ "none" \in AnswersGiven /\ "none" \in Outcomes
    BY DEF Decisions, Scopes, AnswersGiven, Outcomes
  <2>2. /\ GoodBooks(auto)
        /\ \E t \in Told :
             /\ t.act = NextAct /\ t.decision = "auto" /\ t.outcome = "none" /\ t.offer = NoOffer
             /\ auto.log = Append(b.log, t)
    BY <2>1, PermissionBooks, NoOfferType
  <2> QED
    BY <2>2 DEF Tells
<1>3. CASE e.status = "denied" /\ e.action = "write" /\ offer.of > 0
  BY <1>3 DEF PermissionFromAudit
<1>4. CASE e.status = "denied" /\ ~(e.action = "write" /\ offer.of > 0)
  <2>1. PermissionFromAudit(b, e, offer) = deny
    BY <1>4 DEF PermissionFromAudit
  <2> QED
    BY <1>1, <1>4, <2>1
<1>5. CASE e.status # "denied" /\ e.action = "read"
  BY <1>5 DEF PermissionFromAudit
<1>6. CASE e.status # "denied" /\ e.action # "read"
  <2>1. PermissionFromAudit(b, e, offer) = auto
    BY <1>6 DEF PermissionFromAudit
  <2> QED
    BY <1>2, <1>6, <2>1
<1> QED
  BY <1>3, <1>4, <1>5, <1>6

LEMMA LogBooks ==
  ASSUME acts \in Seq(Acts), NEW b, GoodBooks(b), NEW action \in {"read", "write", "run"},
         NEW result \in {"denied", "error", "success", "allowed"}, NEW offer \in Offers
  PROVE  LET c == Log(b, action, result, offer) IN
         /\ GoodBooks(c)
         /\ IF result = "denied"
            THEN IF action = "write" /\ offer.of > 0 THEN c.log = b.log ELSE Tells(b, c, "deny")
            ELSE IF action = "read" THEN c.log = b.log ELSE Tells(b, c, "auto")
<1> DEFINE e == [action |-> action, act |-> NextAct, status |-> result]
           c == [audit |-> Add(b.audit, e), given |-> Append(b.given, e), log |-> b.log]
           d == PermissionFromAudit(c, e, offer)
<1>1. e \in Events /\ e.action = action /\ e.status = result
  BY NextActType DEF Events
<1>2. b.audit \in Ring /\ b.given \in Seq(Events) /\ b.log \in Seq(Told)
      /\ Holds(b.audit, b.given)
  BY DEF GoodBooks, Books
<1> HIDE DEF e
<1>3. Add(b.audit, e) \in Ring /\ Holds(Add(b.audit, e), Append(b.given, e))
  BY <1>1, <1>2, AddHolds
<1>4. Append(b.given, e) \in Seq(Events)
  BY <1>1, <1>2
<1>5. GoodBooks(c) /\ c.log = b.log
  BY <1>2, <1>3, <1>4 DEF GoodBooks, Books
<1>6. \A x, y : Tells(c, x, y) <=> Tells(b, x, y)
  BY <1>5 DEF Tells
<1>7. Log(b, action, result, offer) = d
  BY DEF Log, e
<1> HIDE DEF c
<1>8. /\ GoodBooks(d)
      /\ IF e.status = "denied"
         THEN IF e.action = "write" /\ offer.of > 0 THEN d.log = c.log ELSE Tells(c, d, "deny")
         ELSE IF e.action = "read" THEN d.log = c.log ELSE Tells(c, d, "auto")
  BY <1>1, <1>5, AuditBooks
<1> HIDE DEF d
<1> QED
  BY <1>1, <1>5, <1>6, <1>7, <1>8

\* Outside an offer the session log hears of every refusal.
LEMMA LogTells ==
  ASSUME acts \in Seq(Acts), NEW b, GoodBooks(b), NEW action \in {"read", "write", "run"},
         NEW result \in {"denied", "error", "success", "allowed"}, NEW c,
         c = Log(b, action, result, NoOffer)
  PROVE  /\ GoodBooks(c)
         /\ result = "denied" => Tells(b, c, "deny")
         /\ result # "denied" /\ action # "read" => Tells(b, c, "auto")
         /\ result # "denied" /\ action = "read" => c.log = b.log
<1>1. NoOffer \in Offers /\ ~(NoOffer.of > 0)
  BY NoOfferType DEF NoOffer
<1>2. LET d == Log(b, action, result, NoOffer) IN
      /\ GoodBooks(d)
      /\ IF result = "denied"
         THEN IF action = "write" /\ NoOffer.of > 0 THEN d.log = b.log ELSE Tells(b, d, "deny")
         ELSE IF action = "read" THEN d.log = b.log ELSE Tells(b, d, "auto")
  BY <1>1, LogBooks
<1> QED
  BY <1>1, <1>2

\* What the author's answer, or what came of it, is told as.
Decided(choice, outcome) ==
  IF outcome = "denied" \/ choice = "no" THEN "deny" ELSE IF choice = "quit" THEN "none" ELSE "allow"

Answers(b, c, choice, outcome, offer) ==
  \E t \in Told :
    /\ t.act = NextAct /\ t.decision = Decided(choice, outcome)
    /\ t.outcome = outcome /\ t.offer = offer
    /\ c.log = Append(b.log, t)

LEMMA AnswerBooks ==
  ASSUME acts \in Seq(Acts), NEW b, GoodBooks(b), NEW choice \in {"no", "quit", "yes", "all"},
         NEW outcome \in Outcomes, NEW all, NEW offer \in Offers
  PROVE  /\ GoodBooks(LogAction(b, choice, outcome, all, offer))
         /\ Answers(b, LogAction(b, choice, outcome, all, offer), choice, outcome, offer)
<1> DEFINE Perm(decision, scope) == Permission(b, decision, scope, choice, outcome, offer)
           Fits(x, decision) ==
             /\ GoodBooks(x)
             /\ \E t \in Told :
                  /\ t.act = NextAct /\ t.decision = decision /\ t.outcome = outcome
                  /\ t.offer = offer /\ x.log = Append(b.log, t)
           said == LogAction(b, choice, outcome, all, offer)
<1>1. ASSUME NEW decision \in Decisions, NEW scope \in Scopes
      PROVE  Fits(Perm(decision, scope), decision)
  <2>1. choice \in AnswersGiven
    BY DEF AnswersGiven
  <2> QED
    BY <2>1, PermissionBooks
<1> SUFFICES Fits(said, Decided(choice, outcome))
  BY DEF Answers
<1>6. {"deny", "none", "allow"} \subseteq Decisions /\ {"rule", "once", "session"} \subseteq Scopes
  BY DEF Decisions, Scopes
<1> HIDE DEF Fits
<1>2. CASE outcome = "denied"
  <2>1. said = Perm("deny", "rule")
    BY <1>2 DEF LogAction
  <2> QED
    BY <1>1, <1>2, <1>6, <2>1 DEF Decided
<1>3. CASE outcome # "denied" /\ choice = "no"
  <2>1. said = Perm("deny", "once")
    BY <1>3 DEF LogAction
  <2> QED
    BY <1>1, <1>3, <1>6, <2>1 DEF Decided
<1>4. CASE outcome # "denied" /\ choice = "quit"
  <2>1. said = Perm("none", "once")
    BY <1>4 DEF LogAction
  <2> QED
    BY <1>1, <1>4, <1>6, <2>1 DEF Decided
<1>5. CASE outcome # "denied" /\ choice \notin {"no", "quit"}
  <2> DEFINE scope == IF all THEN "session" ELSE "once"
  <2>1. said = Perm("allow", scope)
    BY <1>5 DEF LogAction
  <2>2. scope \in Scopes
    BY <1>6
  <2> HIDE DEF scope
  <2> QED
    BY <1>1, <1>5, <1>6, <2>1, <2>2 DEF Decided
<1> QED
  BY <1>2, <1>3, <1>4, <1>5

LEMMA DidType ==
  ASSUME NEW a \in Seq(Acts)
  PROVE  \A i \in DOMAIN a : a[i].did \in BOOLEAN
<1> SUFFICES ASSUME NEW i \in DOMAIN a
             PROVE  a[i].did \in BOOLEAN
  OBVIOUS
<1>1. a[i] \in Acts
  OBVIOUS
<1> QED
  BY <1>1 DEF Acts

LEMMA InvParts ==
  AccessInv <=> SettingsOK /\ ActsOK /\ DoingOK /\ GoodBooks(books) /\ AskedIsAllowed
<1>1. acts \in Seq(Acts) => \A i \in DOMAIN acts : acts[i].did \in BOOLEAN
  BY DidType
<1>2. GoodBooks(books) => books \in Books
  BY DEF GoodBooks
<1> QED
  BY <1>1, <1>2 DEF AccessInv, AccessTypeOK, SettingsOK, ActsOK, DoingOK, Configs, Doings,
    Books, Ring

-----------------------------------------------------------------------------
(* The settings.                                                           *)

LEMMA EmptyRules == <<>> \in Rules
<1>1. <<>> \in [{} -> SUBSET AllPermissions]
  OBVIOUS
<1> QED
  BY <1>1 DEF Rules

LEMMA DefaultsType == DefaultConfig \in Configs
<1>1. [q \in {<<>>} |-> AllPermissions] \in Rules
  <2>1. {<<>>} \in SUBSET Directories
    BY SettingsAssumption
  <2>2. [q \in {<<>>} |-> AllPermissions] \in [{<<>>} -> SUBSET AllPermissions]
    OBVIOUS
  <2> QED
    BY <2>1, <2>2 DEF Rules
<1> QED
  BY <1>1, SettingsAssumption DEF DefaultConfig, Configs

LEMMA ConfigChanged ==
  ASSUME NEW c \in Configs
  PROVE  /\ \A b \in BOOLEAN : [c EXCEPT !.safe = b] \in Configs
         /\ \A S \in SUBSET Programs : [c EXCEPT !.allowed = S] \in Configs
         /\ \A R \in Rules : [c EXCEPT !.permissions = R] \in Configs
         /\ \A S \in SUBSET Aliases : [c EXCEPT !.aliases = S] \in Configs
BY DEF Configs

LEMMA BlankType == Blank \in Files /\ Garbled \in Files
<1>1. Blank \in Files
  BY EmptyRules DEF Blank, Files
<1> QED
  BY <1>1 DEF Garbled, Files

LEMMA LoadType ==
  ASSUME NEW y \in Files
  PROVE  LoadHarveyYAML(y) \in Configs
<1>1. y.safe \subseteq BOOLEAN /\ y.allowed \subseteq Programs /\ y.permissions \in Rules
      /\ y.aliases \subseteq Aliases
  BY DEF Files
<1>2. /\ DefaultConfig.safe \in BOOLEAN /\ DefaultConfig.permissions \in Rules
  BY DefaultsType DEF Configs
<1>3. CASE y.text = "garbled" \/ y.rest = "removed"
  BY <1>3, DefaultsType DEF LoadHarveyYAML
<1>4. CASE ~(y.text = "garbled" \/ y.rest = "removed")
  <2> DEFINE safe == IF y.safe = {} THEN DefaultConfig.safe ELSE CHOOSE x \in y.safe : TRUE
             rules == IF y.permissions = <<>> THEN DefaultConfig.permissions ELSE y.permissions
             allowed == IF y.allowed = {} \/ y.rest = "catalog" THEN DefaultAllowedCommands
                        ELSE y.allowed
             aliases == IF Misfit(y) THEN {} ELSE y.aliases
  <2>1. safe \in BOOLEAN
    BY <1>1, <1>2
  <2>4. rules \in Rules
    BY <1>1, <1>2
  <2>2. allowed \in SUBSET Programs /\ aliases \in SUBSET Aliases
    BY <1>1, SettingsAssumption
  <2>3. LoadHarveyYAML(y) = [safe |-> safe, permissions |-> rules, allowed |-> allowed,
                             aliases |-> aliases]
    BY <1>4 DEF LoadHarveyYAML
  <2> HIDE DEF safe, rules, allowed, aliases
  <2> QED
    BY <2>1, <2>2, <2>3, <2>4 DEF Configs
<1> QED
  BY <1>3, <1>4

LEMMA SavedType ==
  ASSUME NEW c \in Configs, NEW y \in Files
  PROVE  MemoryConfig(c, y) \in Files /\ ModelAliases(c, y) \in Files
<1>1. Unmarshal(y) \in Files
  BY BlankType DEF Unmarshal
<1>2. c.safe \in BOOLEAN /\ c.permissions \in Rules /\ c.allowed \subseteq Programs
      /\ c.aliases \subseteq Aliases
  BY DEF Configs
<1> DEFINE u == Unmarshal(y)
<1>3. u \in Files
  BY <1>1
<1> HIDE DEF u
<1>4. /\ u.allowed \subseteq Programs /\ u.aliases \subseteq Aliases
  BY <1>3 DEF Files
<1>5. [u EXCEPT !.safe = {c.safe}, !.permissions = c.permissions,
                !.allowed = IF c.allowed = {} THEN @ ELSE c.allowed] \in Files
  BY <1>2, <1>3, <1>4 DEF Files
<1>6. [u EXCEPT !.aliases = IF c.aliases = {} THEN @ ELSE c.aliases] \in Files
  BY <1>2, <1>3, <1>4 DEF Files
<1> QED
  BY <1>5, <1>6 DEF MemoryConfig, ModelAliases, u

LEMMA SaveType ==
  ASSUME SettingsOK, NEW part, NEW y \in Files, Save(part, y)
  PROVE  yaml' \in Files /\ behind' \subseteq {"rules", "aliases"} \cup {part}
BY BlankType DEF Save, SettingsOK

LEMMA SettingsCommandType ==
  ASSUME SettingsOK, NEW c \in Lines, SafeMode(c) \/ Permissions(c) \/ ModelAlias(c)
  PROVE  SettingsOK'
<1>1. config' \in Configs
  <2> config \in Configs /\ config.allowed \subseteq Programs /\ config.aliases \subseteq Aliases
    BY DEF SettingsOK, Configs
  <2>1. CASE SafeMode(c)
    <3>1. CASE c.op \in {"safemode allow", "safemode deny"}
      <4>1. c.on \in Programs
        BY <3>1, AccessAssumption
      <4>2. config.allowed \cup {c.on} \in SUBSET Programs
            /\ config.allowed \ {c.on} \in SUBSET Programs
        BY <4>1
      <4> QED
        BY <2>1, <3>1, <4>2, ConfigChanged DEF SafeMode, AddAllowedCommand, RemoveAllowedCommand
    <3>2. CASE c.op \notin {"safemode allow", "safemode deny"}
      BY ZenonT(60), <2>1, <3>2, ConfigChanged, SettingsAssumption DEF SafeMode, ResetAllowedCommands
    <3> QED
      BY <3>1, <3>2
  <2>2. CASE Permissions(c)
    <3>1. CASE c.op = "permissions set" /\ SetPermission(c.on, c.rights)
      <4> DEFINE old == config.permissions
                 new == [q \in DOMAIN old \cup {c.on} |-> IF q = c.on THEN c.rights ELSE old[q]]
      <4>1. c.on \in Directories /\ c.rights \subseteq AllPermissions
        BY <3>1, AccessAssumption
      <4>2. PICK D \in SUBSET Directories : old \in [D -> SUBSET AllPermissions]
        BY DEF SettingsOK, Configs, Rules
      <4>3. new \in [D \cup {c.on} -> SUBSET AllPermissions]
        BY <4>1, <4>2
      <4>4. new \in Rules
        BY <4>1, <4>3 DEF Rules
      <4>5. config' = [config EXCEPT !.permissions = new]
        BY <3>1 DEF SetPermission
      <4> HIDE DEF new
      <4> QED
        BY <4>4, <4>5, ConfigChanged
    <3>2. CASE ResetPermissions
      <4>1. DefaultConfig.permissions \in Rules
        BY DefaultsType DEF Configs
      <4> QED
        BY <3>2, <4>1, ConfigChanged DEF ResetPermissions
    <3> QED
      BY <2>2, <3>1, <3>2 DEF Permissions
  <2>3. CASE ModelAlias(c)
    <3>1. CASE UNCHANGED settings
      BY <3>1 DEF settings
    <3>2. CASE ~UNCHANGED settings
      <4>1. c.on \in Aliases
        BY <2>3, <3>2, AccessAssumption DEF ModelAlias
      <4>2. config.aliases \cup {c.on} \in SUBSET Aliases
            /\ config.aliases \ {c.on} \in SUBSET Aliases
        BY <4>1
      <4> QED
        BY <2>3, <3>2, <4>2, ConfigChanged DEF ModelAlias
    <3> QED
      BY <3>1, <3>2
  <2> QED
    BY <2>1, <2>2, <2>3
<1>2. MemoryConfig(config', yaml) \in Files /\ ModelAliases(config', yaml) \in Files
  BY <1>1, SavedType DEF SettingsOK
<1>3. SaveMemoryConfig \/ SaveModelAliases \/ UNCHANGED settings
  BY DEF SafeMode, Permissions, ModelAlias
<1>4. yaml' \in Files /\ behind' \subseteq {"rules", "aliases"}
  <2>1. CASE SaveMemoryConfig
    BY <1>2, <2>1, SaveType DEF SaveMemoryConfig
  <2>2. CASE SaveModelAliases
    BY <1>2, <2>2, SaveType DEF SaveModelAliases
  <2>3. CASE UNCHANGED settings
    BY <2>3 DEF settings, SettingsOK
  <2> QED
    BY <1>3, <2>1, <2>2, <2>3
<1> QED
  BY <1>1, <1>4 DEF SettingsOK

LEMMA SettingsStep ==
  ASSUME SettingsOK, Next
  PROVE  SettingsOK'
<1>1. CASE SettingsCommand
  BY <1>1, SettingsCommandType DEF SettingsCommand
<1>2. CASE Restart
  BY <1>2, LoadType DEF Restart, Startup, SettingsOK
<1>3. CASE Edited
  BY <1>3, SettingsAssumption DEF Edited, AuthorEdits, SettingsOK
<1>4. CASE UNCHANGED settings
  BY <1>4 DEF settings, SettingsOK
<1> QED
  BY <1>1, <1>2, <1>3, <1>4 DEF Next, Calls, Reply, Offered, OfferDenied, OfferAsked,
    OfferAnswered, OfferAfterAll, OfferSkipped, OfferAborted, OfferCommand, OffersOver,
    UntaggedLeft, UntaggedWritten, AuditClear, Command, Read, ReadDir, ReadNext,
    ReadAnother, WalkOn, ReadOver, Ask

-----------------------------------------------------------------------------
(* What is done, and the files.                                            *)

Ops == {"write", "read", "run", "look", "git", "format"}
Asked == {"write", "run"}
Allowed == {"allow", "auto"}

\* A step that does or refuses something: what the log told before is left as it was, the
\* rest is about this act, and an act that a rule or the author was asked about is told.
NewTold == Len(books.log) + 1 .. Len(books'.log)
Recorded ==
  /\ Len(books'.log) >= Len(books.log)
  /\ \A i \in 1 .. Len(books.log) : books'.log[i] = books.log[i]
  /\ \A i \in NewTold : books'.log[i].act = NextAct
  /\ \E op \in Ops, on \in On, did \in BOOLEAN :
       /\ Acted(op, on, did)
       /\ op \in Asked => NewTold # {}
       /\ op \in Asked /\ did => \A i \in NewTold : books'.log[i].decision \in Allowed
FilesAllowed ==
  \/ UNCHANGED files
  \/ \E w \in Spellings, op \in Ops, did \in BOOLEAN :
       /\ Wrote(w) /\ Acted(op, w, did)
       /\ op = "format" \/ HasPermission(w, "write")

\* A step that does nothing of the kind.
Quiet == UNCHANGED <<acts, files>> /\ books'.log = books.log

GoodStep == GoodBooks(books') /\ (Quiet \/ (Recorded /\ FilesAllowed))

LEMMA NoneTold ==
  ASSUME GoodBooks(books), NEW op \in Ops \ Asked, NEW on \in On, NEW did \in BOOLEAN,
         Acted(op, on, did), books'.log = books.log
  PROVE  Recorded
<1>1. books.log \in Seq(Told)
  BY DEF GoodBooks, Books
<1>2. NewTold = {} /\ Len(books'.log) >= Len(books.log)
  BY <1>1, SMT DEF NewTold
<1> QED
  BY <1>1, <1>2 DEF Recorded

LEMMA OneTold ==
  ASSUME GoodBooks(books), NEW op \in Ops, NEW on \in On, NEW did \in BOOLEAN,
         Acted(op, on, did), NEW d, Tells(books, books', d),
         op \in Asked /\ did => d \in Allowed
  PROVE  Recorded
<1>1. books.log \in Seq(Told)
  BY DEF GoodBooks, Books
<1>2. PICK t \in Told : t.act = NextAct /\ t.decision = d /\ books'.log = Append(books.log, t)
  BY DEF Tells
<1>3. /\ Len(books'.log) = Len(books.log) + 1
      /\ \A i \in 1 .. Len(books.log) : books'.log[i] = books.log[i]
      /\ books'.log[Len(books.log) + 1] = t
  BY <1>1, <1>2
<1>4. NewTold = {Len(books.log) + 1} /\ Len(books'.log) >= Len(books.log)
  BY <1>1, <1>3, SMT DEF NewTold
<1> QED
  BY <1>2, <1>3, <1>4 DEF Recorded

LEMMA TwoTold ==
  ASSUME GoodBooks(books), NEW op \in Ops, NEW on \in On, NEW did \in BOOLEAN,
         Acted(op, on, did), NEW b, NEW d, NEW e, Tells(books, b, d), Tells(b, books', e),
         op \in Asked /\ did => {d, e} \subseteq Allowed
  PROVE  Recorded
<1>1. books.log \in Seq(Told)
  BY DEF GoodBooks, Books
<1>2. PICK t \in Told : t.act = NextAct /\ t.decision = d /\ b.log = Append(books.log, t)
  BY DEF Tells
<1>3. PICK u \in Told : u.act = NextAct /\ u.decision = e /\ books'.log = Append(b.log, u)
  BY DEF Tells
<1>4. b.log \in Seq(Told) /\ Len(b.log) = Len(books.log) + 1
  BY <1>1, <1>2
<1>5. /\ Len(books'.log) = Len(books.log) + 2
      /\ \A i \in 1 .. Len(books.log) : books'.log[i] = books.log[i]
      /\ books'.log[Len(books.log) + 1] = t
      /\ books'.log[Len(books.log) + 2] = u
  BY <1>1, <1>2, <1>3, <1>4
<1>6. NewTold = {Len(books.log) + 1, Len(books.log) + 2} /\ Len(books'.log) >= Len(books.log)
  BY <1>1, <1>5, SMT DEF NewTold
<1> QED
  BY <1>2, <1>3, <1>5, <1>6 DEF Recorded

LEMMA OnType ==
  /\ Spellings \subseteq On /\ Paths \subseteq On /\ Programs \subseteq On
  /\ {"log", "push"} \subseteq On /\ \A c \in Lines : c.on \in On
BY AccessAssumption DEF On

\* The file of a path is one, and its own path.
LEMMA CleanType ==
  ASSUME NEW w \in Spellings
  PROVE  Clean(w) \in Paths /\ Clean(w) \in Spellings /\ Clean(Clean(w)) = Clean(w)
BY AccessAssumption

LEMMA BlockType ==
  ASSUME DoingOK, doing.at # 0, doing.at <= Len(doing.blocks)
  PROVE  doing.blocks[doing.at] \in Spellings
<1>1. doing.at \in Nat /\ doing.blocks \in Seq(Spellings)
  BY DEF DoingOK, Doings
<1> QED
  BY <1>1

-----------------------------------------------------------------------------
(* Every step is one of these. *)

LEMMA WritesStep ==
  ASSUME AccessInv, NEW p \in Spellings, NEW w \in Spellings, Clean(p) = Clean(w),
         Writes(p, Wrote(w), NotWritten(w)) \/ Writes(p, UNCHANGED files, UNCHANGED files)
  PROVE  GoodStep
<1> GoodBooks(books) /\ acts \in Seq(Acts) /\ p \in On /\ NoOffer \in Offers /\ NoOffer.of = 0
  BY OnType, NoOfferType DEF AccessInv, NoOffer
<1>1. ASSUME NEW result \in {"denied", "error", "success"},
             books' = Log(books, "write", result, NoOffer)
      PROVE  GoodBooks(books') /\ \E d : Tells(books, books', d) /\ (result # "denied" => d = "auto")
  <2>1. /\ GoodBooks(books')
        /\ result = "denied" => Tells(books, books', "deny")
        /\ result # "denied" => Tells(books, books', "auto")
    BY <1>1, LogTells
  <2> QED
    BY <2>1
<1>2. ASSUME NEW result \in {"denied", "error", "success"}, NEW did \in BOOLEAN,
             books' = Log(books, "write", result, NoOffer), Acted("write", p, did),
             did => result = "success",
             UNCHANGED files \/ (Wrote(w) /\ CheckWritePermission(p))
      PROVE  GoodStep
  <2>1. PICK d : Tells(books, books', d) /\ (result # "denied" => d = "auto")
    BY <1>1, <1>2
  <2>2. Recorded
    BY <1>2, <2>1, OneTold DEF Ops, Allowed
  <2>3. FilesAllowed
    <3>1. Wrote(w) => Wrote(p)
      BY DEF Wrote
    <3> QED
      BY <1>2, <3>1 DEF FilesAllowed, CheckWritePermission, Ops
  <2> QED
    BY <1>1, <1>2, <2>2, <2>3 DEF GoodStep
<1>3. CASE ~CheckWritePermission(p) /\ Acted("write", p, FALSE) /\ UNCHANGED files
           /\ books' = Log(books, "write", "denied", NoOffer)
  BY <1>2, <1>3
<1>4. CASE CheckWritePermission(p) /\ Acted("write", p, FALSE) /\ (UNCHANGED files \/ NotWritten(w))
           /\ books' = Log(books, "write", "error", NoOffer)
  BY <1>2, <1>4 DEF NotWritten
<1>5. CASE CheckWritePermission(p) /\ Acted("write", p, TRUE) /\ (UNCHANGED files \/ Wrote(w))
           /\ books' = Log(books, "write", "success", NoOffer)
  BY <1>2, <1>5
<1> QED
  BY <1>3, <1>4, <1>5 DEF Writes

\* What is read is told of when it is refused.
LEMMA AskedStep ==
  ASSUME AccessInv, NEW op \in {"read", "run"}, NEW on \in On,
         UNCHANGED files,
         \/ \E result \in {"denied", "error", "success", "allowed"}, did \in BOOLEAN :
              /\ Acted(op, on, did) /\ books' = Log(books, op, result, NoOffer)
              /\ op = "run" /\ did => result # "denied"
         \/ op = "read" /\ (\E did \in BOOLEAN : Acted(op, on, did)) /\ books' = books
  PROVE  GoodStep
<1> GoodBooks(books) /\ acts \in Seq(Acts)
  BY DEF AccessInv
<1>1. CASE op = "read" /\ (\E did \in BOOLEAN : Acted(op, on, did)) /\ books' = books
  <2>1. Recorded
    BY <1>1, NoneTold DEF Ops, Asked
  <2> QED
    BY <1>1, <2>1 DEF GoodStep, FilesAllowed
<1>2. ASSUME NEW result \in {"denied", "error", "success", "allowed"}, NEW did \in BOOLEAN,
             Acted(op, on, did), books' = Log(books, op, result, NoOffer),
             op = "run" /\ did => result # "denied"
      PROVE  GoodStep
  <2>1. /\ GoodBooks(books')
        /\ result = "denied" => Tells(books, books', "deny")
        /\ result # "denied" /\ op # "read" => Tells(books, books', "auto")
        /\ result # "denied" /\ op = "read" => books'.log = books.log
    BY <1>2, LogTells
  <2>2. Recorded
    <3>1. CASE result # "denied" /\ op = "read"
      BY <1>2, <2>1, <3>1, NoneTold DEF Ops, Asked
    <3>2. CASE result # "denied" /\ op # "read"
      BY <1>2, <2>1, <3>2, OneTold DEF Ops, Allowed
    <3>3. CASE result = "denied"
      BY <1>2, <2>1, <3>3, OneTold DEF Ops, Asked
    <3> QED
      BY <3>1, <3>2, <3>3
  <2> QED
    BY <2>1, <2>2 DEF GoodStep, FilesAllowed
<1> QED
  BY <1>1, <1>2

LEMMA RunStep ==
  ASSUME AccessInv, NEW program \in Programs, RunCommand(program)
  PROVE  GoodStep
<1>1. program \in On
  BY OnType
<1> QED
  BY <1>1, AskedStep DEF RunCommand

\* What no record knows of, and what leaves the files alone among it.
LEMMA UntoldStep ==
  ASSUME AccessInv, NEW on \in On, NEW op \in {"look", "git", "format"}, NEW did \in BOOLEAN,
         Acted(op, on, did), books' = books, FilesAllowed
  PROVE  GoodStep
<1>1. GoodBooks(books) /\ books'.log = books.log
  BY DEF AccessInv
<1>2. Recorded
  BY <1>1, NoneTold DEF Ops, Asked
<1> QED
  BY <1>1, <1>2 DEF GoodStep

LEMMA GitStep ==
  ASSUME AccessInv, NEW subcommand \in {"log", "push"}, GitCommand(subcommand)
  PROVE  GoodStep
<1> DEFINE did == subcommand \in gitAllowedSubcmds
<1>1. Acted("git", subcommand, did) /\ books' = books /\ FilesAllowed
  BY DEF GitCommand, FilesAllowed
<1>2. did \in BOOLEAN
  OBVIOUS
<1>3. subcommand \in On
  BY OnType
<1> HIDE DEF did
<1> QED
  BY <1>1, <1>2, <1>3, UntoldStep

LEMMA FormatStep ==
  ASSUME AccessInv, NEW w \in Spellings, Format(w)
  PROVE  GoodStep
<1>1. CASE UNCHANGED <<files, acts>>
  BY <1>1 DEF Format, GoodStep, Quiet, AccessInv
<1>2. ASSUME NEW did \in BOOLEAN, Acted("format", w, did), UNCHANGED files \/ Wrote(w)
      PROVE  GoodStep
  <2>1. FilesAllowed
    BY <1>2 DEF FilesAllowed, Ops
  <2> QED
    BY <1>2, <2>1, UntoldStep, OnType DEF Format
<1> QED
  BY <1>1, <1>2 DEF Format, NotWritten

LEMMA CallsStep ==
  ASSUME AccessInv, Calls
  PROVE  GoodStep
<1>1. ASSUME NEW w \in Spellings, WriteFile(w) \/ WriteBlock(w) \/ CreateDir(w)
      PROVE  GoodStep
  BY <1>1, WritesStep, CleanType DEF WriteFile, WriteBlock, CreateDir
<1>2. ASSUME NEW w \in Spellings, ReadFile(w)
      PROVE  GoodStep
  <2>1. Clean(w) \in On /\ UNCHANGED files
    BY <1>2, OnType, CleanType DEF ReadFile
  <2> QED
    BY <1>2, <2>1, AskedStep DEF ReadFile
<1>4. ASSUME NEW p \in Paths, Look(p)
      PROVE  GoodStep
  BY <1>4, UntoldStep, OnType DEF Look, FilesAllowed
<1> QED
  BY <1>1, <1>2, <1>4, GitStep, RunStep DEF Calls

LEMMA CommandStep ==
  ASSUME AccessInv, Command
  PROVE  GoodStep
<1> GoodBooks(books) /\ acts \in Seq(Acts)
  BY DEF AccessInv
<1>1. CASE UNCHANGED <<files, acts, books>>
  BY <1>1 DEF GoodStep, Quiet
<1>2. ASSUME NEW c \in Lines, c.op = "write", WriteBlock(c.on)
      PROVE  GoodStep
  <2>1. c.on \in Spellings
    BY <1>2, AccessAssumption
  <2> QED
    BY <1>2, <2>1, WritesStep DEF WriteBlock
<1>3. ASSUME NEW c \in Lines, c.op \in {"run", "!"}, RunCommand(c.on)
      PROVE  GoodStep
  BY <1>3, AccessAssumption, RunStep
<1>4. ASSUME NEW c \in Lines, c.op = "run", Acted("run", c.on, FALSE), UNCHANGED files,
             books' = Log(Log(books, "run", "allowed", NoOffer), "run", "denied", NoOffer)
      PROVE  GoodStep
  <2> DEFINE b == Log(books, "run", "allowed", NoOffer)
  <2>1. GoodBooks(b) /\ Tells(books, b, "auto")
    BY LogTells
  <2> HIDE DEF b
  <2>2. books' = Log(b, "run", "denied", NoOffer)
    BY <1>4 DEF b
  <2>3. GoodBooks(books') /\ Tells(b, books', "deny")
    BY <2>1, <2>2, LogTells
  <2>4. Recorded
    BY <1>4, <2>1, <2>3, TwoTold, OnType DEF Ops
  <2> QED
    BY <1>4, <2>3, <2>4 DEF GoodStep, FilesAllowed
<1>5. ASSUME NEW c \in Lines, \/ c.op = "format" /\ Format(c.on)
                              \/ c.op = "git" /\ GitCommand(c.on)
      PROVE  GoodStep
  BY <1>5, AccessAssumption, FormatStep, GitStep
<1> QED
  BY <1>1, <1>2, <1>3, <1>4, <1>5 DEF Command, RunLine, ShellLine, WriteReply

\* The step in which the author's answer about a path, or a refusal within the offer, is
\* recorded.
LEMMA AnsweredStep ==
  ASSUME AccessInv, NEW p \in Spellings, NEW b, GoodBooks(b), b.log = books.log,
         NEW choice \in {"no", "quit", "yes", "all"}, NEW outcome \in Outcomes,
         NEW all, NEW offer \in Offers, NEW did \in BOOLEAN,
         Acted("write", p, did), books' = LogAction(b, choice, outcome, all, offer),
         did => choice \in {"yes", "all"} /\ outcome # "denied",
         FilesAllowed
  PROVE  GoodStep
<1> GoodBooks(books) /\ acts \in Seq(Acts) /\ p \in On
  BY OnType DEF AccessInv
<1> DEFINE c == LogAction(b, choice, outcome, all, offer)
<1>1. GoodBooks(c) /\ Answers(b, c, choice, outcome, offer)
  BY AnswerBooks
<1> HIDE DEF c
<1>5. books' = c
  BY DEF c
<1>2. Tells(books, books', Decided(choice, outcome))
  BY <1>1, <1>5 DEF Answers, Tells
<1>3. did => Decided(choice, outcome) \in Allowed
  BY DEF Decided, Allowed
<1>4. Recorded
  BY <1>2, <1>3, OneTold DEF Ops
<1> QED
  BY <1>1, <1>4, <1>5 DEF GoodStep

LEMMA OfferType ==
  ASSUME AccessInv, Offering, doing.at <= Len(doing.blocks)
  PROVE  /\ Block \in Spellings /\ Offer \in Offers /\ Offer.of > 0
         /\ doing.at \in 1 .. Len(doing.blocks)
<1>1. doing.at \in Nat /\ doing.blocks \in Seq(Spellings) /\ doing.at # 0
  BY InvParts DEF DoingOK, Doings, AskedIsAllowed, Offering
<1> QED
  BY <1>1 DEF Block, Offer, Offers

LEMMA OfferWrittenStep ==
  ASSUME AccessInv, Offering, doing.asked, NEW choice \in {"yes", "all"}, OfferWritten(choice)
  PROVE  GoodStep
<1>1. Block \in Spellings /\ Offer \in Offers /\ HasPermission(Block, "write")
  BY OfferType DEF AccessInv, AskedIsAllowed, CheckWritePermission
<1> DEFINE all == doing.all \/ choice = "all"
<1>2. all \in BOOLEAN
  OBVIOUS
<1>3. GoodBooks(books)
  BY DEF AccessInv
<1>4. CASE Acted("write", Block, TRUE) /\ Wrote(Block)
           /\ books' = LogAction(books, choice, "ok", all, Offer)
  <2> HIDE DEF all
  <2>1. FilesAllowed
    BY <1>1, <1>4 DEF FilesAllowed, Ops
  <2> QED
    BY <1>1, <1>2, <1>3, <1>4, <2>1, AnsweredStep DEF Outcomes
<1>5. CASE Acted("write", Block, FALSE) /\ NotWritten(Block)
           /\ books' = LogAction(books, choice, "error", all, Offer)
  <2> HIDE DEF all
  <2>1. FilesAllowed
    BY <1>1, <1>5 DEF FilesAllowed, NotWritten, Ops
  <2> QED
    BY <1>1, <1>2, <1>3, <1>5, <2>1, AnsweredStep DEF Outcomes
<1> QED
  BY <1>4, <1>5 DEF OfferWritten

LEMMA OfferDeniedStep ==
  ASSUME AccessInv, OfferDenied
  PROVE  GoodStep
<1>1. Block \in Spellings /\ Offer \in Offers /\ Offer.of > 0
  BY OfferType DEF OfferDenied
<1>2. GoodBooks(books) /\ acts \in Seq(Acts) /\ doing.all \in BOOLEAN
  BY InvParts DEF AccessInv, DoingOK, Doings
<1> DEFINE b == Log(books, "write", "denied", Offer)
<1>3. GoodBooks(b) /\ b.log = books.log
  BY <1>1, <1>2, LogBooks
<1> HIDE DEF b
<1>4. Acted("write", Block, FALSE) /\ FilesAllowed
      /\ books' = LogAction(b, "no", "denied", doing.all, Offer)
  BY DEF OfferDenied, b, FilesAllowed
<1> QED
  BY <1>1, <1>2, <1>3, <1>4, AnsweredStep DEF Outcomes

\* The author answers no or quit.
LEMMA DeclinedStep ==
  ASSUME AccessInv, NEW p \in Spellings, NEW choice \in {"no", "quit"}, NEW outcome \in Outcomes,
         NEW offer \in Offers, Acted("write", p, FALSE), UNCHANGED files,
         books' = LogAction(books, choice, outcome, FALSE, offer)
  PROVE  GoodStep
<1>1. GoodBooks(books) /\ FilesAllowed
  BY DEF AccessInv, FilesAllowed
<1> QED
  BY <1>1, AnsweredStep

LEMMA OffersStep ==
  ASSUME AccessInv, OfferDenied \/ OfferAsked \/ OfferAnswered \/ OfferAfterAll
                    \/ OfferSkipped \/ OfferAborted \/ OfferCommand \/ OffersOver
  PROVE  GoodStep
<1>1. CASE OfferAsked \/ OffersOver
  BY <1>1 DEF OfferAsked, OffersOver, GoodStep, Quiet, AccessInv
<1>2. CASE OfferAnswered
  BY <1>2, OfferWrittenStep DEF OfferAnswered
<1>3. CASE OfferAfterAll
  BY <1>3, OfferWrittenStep DEF OfferAfterAll
<1>4. CASE OfferSkipped \/ OfferAborted \/ OfferCommand
  <2>1. Offering /\ doing.asked
    BY <1>4 DEF OfferSkipped, OfferAborted, OfferCommand
  <2>2. Block \in Spellings /\ Offer \in Offers
    BY <2>1, OfferType DEF AccessInv, AskedIsAllowed
  <2> QED
    BY <1>4, <2>2, DeclinedStep DEF OfferSkipped, OfferAborted, OfferCommand, Outcomes
<1> QED
  BY <1>1, <1>2, <1>3, <1>4, OfferDeniedStep

LEMMA UntaggedStep ==
  ASSUME AccessInv, UntaggedLeft \/ \E w \in Spellings : UntaggedWritten(w)
  PROVE  GoodStep
<1> GoodBooks(books) /\ acts \in Seq(Acts) /\ NoOffer \in Offers
  BY NoOfferType DEF AccessInv
<1>1. CASE UNCHANGED <<files, acts, books>>
  BY <1>1 DEF GoodStep, Quiet
<1>2. ASSUME NEW p \in Suggested, NEW choice \in {"no", "quit"}, UNCHANGED files,
             Acted("write", p, FALSE), books' = LogAction(books, choice, "none", FALSE, NoOffer)
      PROVE  GoodStep
  <2>1. p \in Spellings /\ "none" \in Outcomes
    BY AccessAssumption DEF Outcomes
  <2> QED
    BY <1>2, <2>1, DeclinedStep
<1>3. CASE UntaggedLeft
  BY <1>1, <1>2, <1>3 DEF UntaggedLeft
<1>4. ASSUME NEW p \in Spellings, ~CheckWritePermission(p), Acted("write", p, FALSE), UNCHANGED files,
             books' = Log(books, "write", "denied", NoOffer)
      PROVE  GoodStep
  BY <1>4, WritesStep DEF Writes
<1>5. ASSUME NEW p \in Spellings, CheckWritePermission(p), NEW result \in {"error", "success"},
             NEW outcome \in {"error", "ok"}, NEW did \in BOOLEAN, Acted("write", p, did),
             UNCHANGED files \/ Wrote(p),
             books' = LogAction(Log(books, "write", result, NoOffer), "yes", outcome, FALSE, NoOffer)
      PROVE  GoodStep
  <2> DEFINE b == Log(books, "write", result, NoOffer)
  <2>1. GoodBooks(b) /\ Tells(books, b, "auto")
    BY LogTells
  <2> HIDE DEF b
  <2>2. books' = LogAction(b, "yes", outcome, FALSE, NoOffer) /\ outcome \in Outcomes
    BY <1>5 DEF b, Outcomes
  <2> DEFINE c == LogAction(b, "yes", outcome, FALSE, NoOffer)
  <2>3. GoodBooks(c) /\ Answers(b, c, "yes", outcome, NoOffer)
    BY <2>1, <2>2, AnswerBooks
  <2>4. Tells(b, books', "allow") /\ GoodBooks(books')
    BY <2>2, <2>3, <1>5 DEF Answers, Tells, Decided
  <2>5. p \in On
    BY OnType
  <2>6. Recorded
    BY <1>5, <2>1, <2>4, <2>5, TwoTold DEF Ops, Allowed
  <2> QED
    BY <1>5, <2>4, <2>6 DEF GoodStep, FilesAllowed, CheckWritePermission, Ops
<1> QED
  BY <1>3, <1>4, <1>5 DEF UntaggedWritten, NotWritten

\* The files of /read and of /read-dir, one after the other.
LEMMA ReadsStep ==
  ASSUME AccessInv, ReadNext
  PROVE  GoodStep
<1> GoodBooks(books) /\ acts \in Seq(Acts)
  BY DEF AccessInv
<1>1. CASE UNCHANGED <<files, acts, books>>
  BY <1>1 DEF GoodStep, Quiet
<1>2. ASSUME NEW h \in {"success", "error", "denied"}, Took(h), UNCHANGED files,
             doing.what \in {"reading", "walking"}, doing.at <= Len(doing.blocks)
      PROVE  GoodStep
  <2> DEFINE p == doing.blocks[doing.at]
             did == h # "denied"
  <2>1. p \in Spellings
    <3>1. doing.at # 0 /\ DoingOK
      BY <1>2, InvParts DEF AskedIsAllowed
    <3> QED
      BY <1>2, <3>1, BlockType
  <2>2. Acted("read", p, did) /\ books' = Log(books, "read", h, NoOffer) /\ did \in BOOLEAN
    BY <1>2 DEF Took
  <2> HIDE DEF p, did
  <2> QED
    BY <1>2, <2>1, <2>2, AskedStep, OnType
<1> QED
  BY <1>1, <1>2 DEF ReadNext, ReadAnother, WalkOn, ReadOver

LEMMA ReadDirStep ==
  ASSUME AccessInv, ReadDir
  PROVE  GoodStep
<1> GoodBooks(books) /\ acts \in Seq(Acts)
  BY DEF AccessInv
<1>1. CASE UNCHANGED <<files, acts, books>>
  BY <1>1 DEF GoodStep, Quiet
<1>2. ASSUME NEW c \in Lines, Acted("read", c.on, FALSE), UNCHANGED files,
             books' = Log(books, "read", "denied", NoOffer)
      PROVE  GoodStep
  BY <1>2, AskedStep, OnType
<1> QED
  BY <1>1, <1>2 DEF ReadDir

\* A buffer that is new, or cleared, holds the newest of nothing.
LEMMA FreshBooks ==
  ASSUME GoodBooks(books), UNCHANGED <<acts, files>>,
         books' = [audit |-> NewAuditBuffer, given |-> <<>>, log |-> books.log]
  PROVE  GoodStep
<1>1. books.log \in Seq(Told) /\ <<>> \in Seq(Events)
  BY DEF GoodBooks, Books
<1>2. GoodBooks(books')
  BY <1>1, NewHolds DEF GoodBooks, Books
<1> QED
  BY <1>2 DEF GoodStep, Quiet

LEMMA StepIsGood ==
  ASSUME AccessInv, Next
  PROVE  GoodStep
<1> GoodBooks(books)
  BY DEF AccessInv
<1>1. CASE AuditClear \/ Restart
  BY <1>1, FreshBooks DEF AuditClear, Restart, Clear
<1>2. CASE UNCHANGED <<files, acts, books>>
  BY <1>2 DEF GoodStep, Quiet
<1>3. CASE Offered
  BY <1>3, OffersStep, UntaggedStep DEF Offered
<1> QED
  BY <1>1, <1>2, <1>3, CallsStep, CommandStep, ReadsStep, ReadDirStep
     DEF Next, Reply, SettingsCommand, Read, Ask, Edited

-----------------------------------------------------------------------------
(* What Harvey is at, the queue and the counts.                            *)

LEMMA ActsStep ==
  ASSUME ActsOK, GoodStep
  PROVE  ActsOK'
<1>1. CASE Quiet
  BY <1>1 DEF Quiet, ActsOK
<1>2. CASE Recorded /\ FilesAllowed
  <2>1. PICK op \in Ops, on \in On, did \in BOOLEAN : Acted(op, on, did)
    BY <1>2 DEF Recorded
  <2>2. [op |-> op, on |-> on, did |-> did] \in Acts
    BY DEF Acts, Ops
  <2>3. acts' \in Seq(Acts) /\ Len(acts') = Len(acts) + 1 /\ Len(acts) \in Nat
    BY <2>1, <2>2 DEF Acted, ActsOK
  <2>4. files \in [Paths -> 0 .. Len(acts')] /\ NextAct \in 0 .. Len(acts')
    BY <2>3, SMT DEF ActsOK, NextAct
  <2>5. files' \in [Paths -> 0 .. Len(acts')]
    BY <1>2, <2>4, CleanType DEF FilesAllowed, Wrote
  <2> QED
    BY <2>3, <2>5 DEF ActsOK
<1> QED
  BY <1>1, <1>2 DEF GoodStep

LEMMA PromptType == Prompt \in Doings
BY DEF Prompt, Doings

\* Changes of one part of doing after another.
LEMMA DoingChanged ==
  ASSUME NEW d \in Doings
  PROVE  /\ \A x \in {"prompt", "turn", "offers", "untagged", "reading", "walking"} :
              [d EXCEPT !.what = x] \in Doings
         /\ \A x \in Seq(Spellings) : [d EXCEPT !.blocks = x] \in Doings
         /\ \A x \in Nat : [d EXCEPT !.at = x] \in Doings
         /\ \A x \in BOOLEAN : [d EXCEPT !.all = x] \in Doings
         /\ \A x \in BOOLEAN : [d EXCEPT !.asked = x] \in Doings
         /\ \A x \in Nat : [d EXCEPT !.from = x] \in Doings
         /\ \A x \in SUBSET Nat : [d EXCEPT !.written = x] \in Doings
BY DEF Doings

LEMMA NextBlockType ==
  ASSUME doing \in Doings
  PROVE  /\ NextBlock \in Doings
         /\ NextBlock = [what |-> doing.what, blocks |-> doing.blocks, at |-> doing.at + 1,
                         all |-> doing.all, asked |-> FALSE, from |-> doing.from,
                         written |-> doing.written]
<1> DEFINE d == [doing EXCEPT !.at = doing.at + 1]
<1>1. d = [what |-> doing.what, blocks |-> doing.blocks, at |-> doing.at + 1, all |-> doing.all,
           asked |-> doing.asked, from |-> doing.from, written |-> doing.written]
  BY DEF Doings
<1>2. NextBlock = [d EXCEPT !.asked = FALSE]
  BY DEF NextBlock
<1>3. d \in Doings
  BY <1>1 DEF Doings
<1> HIDE DEF d
<1>4. NextBlock = [what |-> d.what, blocks |-> d.blocks, at |-> d.at, all |-> d.all,
                   asked |-> FALSE, from |-> d.from, written |-> d.written]
  BY <1>2, <1>3 DEF Doings
<1> QED
  BY <1>1, <1>4 DEF Doings

LEMMA WalkType ==
  ASSUME NEW S \in SUBSET Paths
  PROVE  SetToSeq(S) \in Seq(Spellings)
<1>1. IsFiniteSet(S)
  BY AccessAssumption, FS_Subset
<1>2. Cardinality(S) \in Nat /\ ExistsBijection(1 .. Cardinality(S), S)
  BY <1>1, FS_CardinalityType
<1>3. \E f \in [1 .. Cardinality(S) -> S] : IsInjective(f)
  BY <1>2 DEF ExistsBijection, Bijection, Injection
<1>4. SetToSeq(S) \in [1 .. Cardinality(S) -> S]
  BY <1>3 DEF SetToSeq
<1>5. S \subseteq Spellings
  BY AccessAssumption
<1>6. SetToSeq(S) \in [1 .. Cardinality(S) -> Spellings]
  BY <1>4, <1>5
<1> HIDE DEF SetToSeq
<1> QED
  BY <1>2, <1>6

\* The blocks of a reply are offered, or files are read, from the first one.
LEMMA BeginType ==
  ASSUME NEW what \in {"offers", "reading", "walking"}, NEW blocks \in Seq(Spellings), NEW from \in Nat
  PROVE  LET d == Begin(what, blocks, from) IN
         /\ d \in Doings /\ d.what = what /\ d.blocks = blocks /\ d.at = 1 /\ ~d.asked
         /\ d.from = from /\ d.written = {}
BY DEF Begin, Doings

\* The next block: with what was written, and the author's "all", kept.
LEMMA OfferMoves ==
  ASSUME doing \in Doings, Offering,
         OfferDenied \/ OfferAnswered \/ OfferAfterAll \/ OfferSkipped
  PROVE  /\ doing' \in Doings
         /\ doing'.what = "offers" /\ doing'.blocks = doing.blocks /\ doing'.from = doing.from
         /\ doing'.at = doing.at + 1 /\ ~doing'.asked
<1>1. NextBlock \in Doings /\ NextBlock.what = "offers" /\ NextBlock.blocks = doing.blocks
      /\ NextBlock.from = doing.from /\ NextBlock.at = doing.at + 1 /\ ~NextBlock.asked
      /\ NextBlock.written = doing.written
  BY NextBlockType DEF Offering
<1>2. doing.at \in Nat /\ doing.written \subseteq Nat /\ doing.all \in BOOLEAN
  BY DEF Doings
<1> DEFINE all(choice) == doing.all \/ choice = "all"
<1>3. ASSUME NEW choice \in {"yes", "all"},
             \/ doing' = [NextBlock EXCEPT !.all = all(choice), !.written = @ \cup {doing.at}]
             \/ doing' = [NextBlock EXCEPT !.all = all(choice)]
      PROVE  /\ doing' \in Doings
             /\ doing'.what = "offers" /\ doing'.blocks = doing.blocks
             /\ doing'.from = doing.from
             /\ doing'.at = doing.at + 1 /\ ~doing'.asked
  <2> DEFINE d == [NextBlock EXCEPT !.all = all(choice)]
  <2>1. all(choice) \in BOOLEAN
    OBVIOUS
  <2> HIDE DEF all
  <2>2. /\ d \in Doings /\ d.what = "offers" /\ d.blocks = doing.blocks
        /\ d.from = doing.from /\ d.at = doing.at + 1 /\ ~d.asked /\ d.written = doing.written
    BY <1>1, <2>1 DEF Doings
  <2>3. doing' = d \/ doing' = [d EXCEPT !.written = NextBlock.written \cup {doing.at}]
    BY <1>1, <1>3, <2>2
  <2>4. NextBlock.written \cup {doing.at} \in SUBSET Nat
    BY <1>1, <1>2
  <2> HIDE DEF d
  <2> QED
    BY <2>2, <2>3, <2>4 DEF Doings
<1>4. CASE OfferDenied \/ OfferSkipped
  BY <1>1, <1>4 DEF OfferDenied, OfferSkipped
<1>5. CASE OfferAnswered \/ OfferAfterAll
  BY <1>3, <1>5 DEF OfferAnswered, OfferAfterAll, OfferWritten
<1> QED
  BY <1>4, <1>5

LEMMA QueueType ==
  ASSUME DoingOK, NEW c \in Lines
  PROVE  /\ Append(queue, c) \in Seq(Lines)
         /\ queue # <<>> => Head(queue) \in Lines /\ Tail(queue) \in Seq(Lines)
         /\ [spent EXCEPT !.commands = @ + 1] \in [commands : Nat, ends : Nat]
BY DEF DoingOK

\* A line of the author's, typed now or queued before.
LEMMA LineType ==
  ASSUME DoingOK, NEW c \in Lines, NextLine(c)
  PROVE  queue' \in Seq(Lines) /\ spent' \in [commands : Nat, ends : Nat]
BY QueueType DEF NextLine, DoingOK

LEMMA SpentType ==
  ASSUME DoingOK
  PROVE  /\ [spent EXCEPT !.commands = @ + 1] \in [commands : Nat, ends : Nat]
         /\ [spent EXCEPT !.ends = @ + 1] \in [commands : Nat, ends : Nat]
BY DEF DoingOK

LEMMA QueueStep ==
  ASSUME DoingOK, Next
  PROVE  queue' \in Seq(Lines) /\ spent' \in [commands : Nat, ends : Nat]
<1>1. CASE UNCHANGED <<queue, spent>>
  BY <1>1 DEF DoingOK
<1>2. CASE \E c \in Lines : NextLine(c)
  BY <1>2, LineType
<1>3. CASE Ask \/ Restart \/ Edited
  <2>1. <<>> \in Seq(Lines) /\ queue \in Seq(Lines)
    BY DEF DoingOK
  <2> QED
    BY <1>3, <2>1, SpentType DEF Ask, Restart, Edited
<1>4. CASE (\E c \in Lines : queue' = Append(queue, c))
           /\ spent' = [spent EXCEPT !.commands = @ + 1]
  BY <1>4, QueueType
<1> QED
  BY <1>1, <1>2, <1>3, <1>4 DEF Next, Calls, Reply, Offered, OfferDenied, OfferAsked,
    OfferAnswered, OfferAfterAll, OfferSkipped, OfferAborted, OfferCommand, OffersOver,
    UntaggedLeft, UntaggedWritten, SettingsCommand, AuditClear, Command, Read, ReadDir,
    ReadNext, ReadAnother, WalkOn, ReadOver

\* Where the next step has Harvey: the author's answer about a block is waited for only
\* from OfferAsked on.
LEMMA DoingStep ==
  ASSUME AccessInv, Next
  PROVE  doing' \in Doings /\ AskedIsAllowed'
<1> doing \in Doings /\ books.log \in Seq(Told) /\ AskedIsAllowed /\ doing.at \in Nat
  BY InvParts DEF AccessInv, DoingOK, Doings, GoodBooks, Books
<1>1. CASE doing' = Prompt
  BY <1>1, PromptType DEF Prompt, AskedIsAllowed, Offering
<1>2. CASE UNCHANGED <<doing, settings>>
  BY <1>2 DEF AskedIsAllowed, Offering, Block, CheckWritePermission, HasPermission, settings
<1>3. CASE UNCHANGED doing /\ doing.what # "offers"
  BY <1>3 DEF AskedIsAllowed, Offering
<1>4. CASE UNCHANGED doing /\ config' = config
  BY <1>4 DEF AskedIsAllowed, Offering, Block, CheckWritePermission, HasPermission
<1>5. ASSUME NEW what \in {"offers", "reading", "walking"}, NEW blocks \in Seq(Spellings),
             NEW from \in Nat, doing' = Begin(what, blocks, from)
      PROVE  doing' \in Doings /\ AskedIsAllowed'
  BY <1>5, BeginType DEF AskedIsAllowed, Offering
<1>6. CASE Reply
  <2>1. CASE doing' = [Prompt EXCEPT !.what = "untagged"]
    BY <2>1, PromptType DEF Doings, AskedIsAllowed, Offering
  <2>2. ASSUME NEW r \in Replies, doing' = Begin("offers", r, Len(books.log))
        PROVE  doing' \in Doings /\ AskedIsAllowed'
    <3>1. r \in Seq(Spellings)
      BY <2>2, AccessAssumption
    <3>2. Len(books.log) \in Nat
      OBVIOUS
    <3> QED
      BY <1>5, <2>2, <3>1, <3>2
  <2> QED
    BY <1>1, <1>6, <2>1, <2>2 DEF Reply
<1>7. CASE OfferAsked
  <2>1. /\ doing' = [doing EXCEPT !.asked = TRUE] /\ UNCHANGED settings
        /\ Offering /\ doing.at <= Len(doing.blocks) /\ CheckWritePermission(Block)
    BY <1>7 DEF OfferAsked
  <2>2. /\ doing' \in Doings /\ doing'.what = doing.what /\ doing'.at = doing.at
        /\ doing'.blocks = doing.blocks
    BY <2>1 DEF Doings
  <2>3. config' = config
    BY <2>1 DEF settings
  <2> QED
    BY <2>1, <2>2, <2>3 DEF AskedIsAllowed, Offering, Block, CheckWritePermission, HasPermission
<1>8. CASE OfferDenied \/ OfferAnswered \/ OfferAfterAll \/ OfferSkipped
  <2>1. Offering
    BY <1>8 DEF OfferDenied, OfferAnswered, OfferAfterAll, OfferSkipped
  <2>2. /\ doing' \in Doings /\ doing'.at = doing.at + 1 /\ ~doing'.asked
    BY <1>8, <2>1, OfferMoves
  <2> QED
    BY <2>2 DEF AskedIsAllowed, Offering
<1>9. CASE Read
  BY <1>5, <1>9, AccessAssumption DEF Read
<1>10. CASE ReadDir
  <2>1. \A c \in Lines : SetToSeq({p \in Paths : IsStrictPrefix(c.on, p)}) \in Seq(Spellings)
    BY WalkType
  <2> QED
    BY <1>3, <1>5, <1>10, <2>1 DEF ReadDir, NextLine
<1>11. CASE doing' = [doing EXCEPT !.at = @ + 1] /\ doing.what \in {"reading", "walking"}
  <2>1. /\ doing' \in Doings /\ doing'.what = doing.what /\ doing'.at = doing.at + 1
    BY <1>11 DEF Doings
  <2> QED
    BY <1>11, <2>1 DEF AskedIsAllowed, Offering
<1>12. CASE Ask
  <2>1. doing' = [Prompt EXCEPT !.what = "turn"]
    BY <1>12 DEF Ask
  <2> QED
    BY <2>1, PromptType DEF Doings, AskedIsAllowed, Offering
<1>13. CASE SettingsCommand \/ AuditClear \/ Command
  BY <1>3, <1>13 DEF SettingsCommand, AuditClear, Command, NextLine
<1>14. CASE Edited
  BY <1>4, <1>14 DEF Edited, AuthorEdits
<1>15. CASE ReadNext
  BY <1>1, <1>11, <1>15 DEF ReadNext, ReadAnother, WalkOn, ReadOver, Took
<1>16. CASE UntaggedLeft \/ \E w \in Spellings : UntaggedWritten(w)
  BY <1>1, <1>16 DEF UntaggedLeft, UntaggedWritten
<1>17. CASE OfferAborted \/ OfferCommand \/ OffersOver \/ Restart
  BY <1>1, <1>17 DEF OfferAborted, OfferCommand, OffersOver, Restart
<1>18. CASE Calls
  BY <1>2, <1>18 DEF Calls
<1> QED
  BY <1>6, <1>7, <1>8, <1>9, <1>10, <1>12, <1>13, <1>14, <1>15, <1>16, <1>17, <1>18
     DEF Next, Offered

LEMMA AccessStep ==
  ASSUME AccessInv, [Next]_vars
  PROVE  AccessInv'
<1>1. CASE Next
  <2>1. SettingsOK /\ ActsOK /\ DoingOK
    BY InvParts
  <2>2. GoodStep
    BY <1>1, StepIsGood
  <2>3. SettingsOK' /\ ActsOK'
    BY <1>1, <2>1, <2>2, SettingsStep, ActsStep
  <2>4. DoingOK' /\ AskedIsAllowed'
    BY <1>1, <2>1, DoingStep, QueueStep DEF DoingOK
  <2>5. GoodBooks(books)'
    BY <2>2 DEF GoodStep
  <2>6. acts' \in Seq(Acts) /\ \A i \in DOMAIN acts' : acts'[i].did \in BOOLEAN
    BY <2>3, DidType DEF ActsOK
  <2>7. books' \in Books
    BY <2>5 DEF GoodBooks
  <2>8. AccessTypeOK'
    BY <2>3, <2>4, <2>6, <2>7 DEF AccessTypeOK, SettingsOK, ActsOK, DoingOK, Configs, Doings,
      Books, Ring
  <2> QED
    BY <2>4, <2>5, <2>6, <2>8 DEF AccessInv
<1>2. CASE UNCHANGED vars
  BY <1>2 DEF vars, AccessInv, AccessTypeOK, AskedIsAllowed, Offering, Block,
    CheckWritePermission, HasPermission
<1> QED
  BY <1>1, <1>2

-----------------------------------------------------------------------------
(* The start.                                                              *)

LEMMA AccessInit ==
  ASSUME Init
  PROVE  AccessInv
<1>1. SettingsOK
  BY SettingsAssumption, LoadType DEF Init, SettingsInit, SettingsOK
<1>2. ActsOK
  <2>1. acts = <<>> /\ files = [p \in Paths |-> 0]
    BY DEF Init
  <2>2. acts \in Seq(Acts) /\ 0 \in 0 .. Len(acts)
    BY <2>1
  <2> QED
    BY <2>1, <2>2 DEF ActsOK
<1>3. DoingOK
  <2>1. queue \in Seq(Lines)
    BY DEF Init
  <2> QED
    BY <2>1, PromptType DEF Init, DoingOK
<1>4. GoodBooks(books)
  <2>1. <<>> \in Seq(Events) /\ <<>> \in Seq(Told)
    OBVIOUS
  <2> QED
    BY <2>1, NewHolds DEF Init, GoodBooks, Books
<1>5. AskedIsAllowed
  BY DEF Init, Prompt, AskedIsAllowed, Offering
<1> QED
  BY <1>1, <1>2, <1>3, <1>4, <1>5, InvParts

THEOREM AccessInvariant == Spec => []AccessInv
<1>1. Init => AccessInv
  BY AccessInit
<1>2. AccessInv /\ [Next]_vars => AccessInv'
  BY AccessStep
<1> QED
  BY <1>1, <1>2, PTL DEF Spec

\* Every variable keeps its type, for every workspace, file of settings and line.
THEOREM AccessTypes == Spec => []AccessTypeOK
<1>1. AccessInv => AccessTypeOK
  BY DEF AccessInv
<1> QED
  BY <1>1, AccessInvariant, PTL

\* /audit show is the newest of what was audited, newest first, and as many as fit,
\* whatever the capacity and however often the ring went round (audit.go Add, Get).
THEOREM AuditShowsNewest == Spec => []AuditIsRecent
<1>1. ASSUME AccessInv
      PROVE  AuditIsRecent
  <2> DEFINE r == books.audit
             n == Len(books.given)
             m == IF n < Capacity THEN n ELSE Capacity
  <2>1. /\ books.given \in Seq(Events) /\ r \in Ring
        /\ r.count = m
        /\ \A i \in 0 .. r.count - 1 : r.events[Index(r, i)] = books.given[n - i]
    BY <1>1 DEF AccessInv, GoodBooks, Books, Holds
  <2>2. n \in Nat /\ m \in Nat
    BY <2>1
  <2>3. GetAll(r) = [i \in 1 .. m |-> r.events[Index(r, i - 1)]]
    <3>1. (IF r.count < r.count THEN r.count ELSE r.count) = m
      BY <2>1
    <3> QED
      BY <3>1 DEF GetAll, Get
  <2>4. ASSUME NEW i \in 1 .. m
        PROVE  r.events[Index(r, i - 1)] = books.given[n + 1 - i]
    <3>1. i - 1 \in 0 .. r.count - 1 /\ n - (i - 1) = n + 1 - i
      BY <2>1, <2>2, <2>4, SMT
    <3> QED
      BY <2>1, <3>1
  <2> HIDE DEF m, n, r
  <2>5. GetAll(r) = [i \in 1 .. m |-> books.given[n + 1 - i]]
    BY <2>3, <2>4
  <2> QED
    BY <2>5 DEF AuditIsRecent, m, n, r
<1> QED
  BY <1>1, AccessInvariant, PTL

\* A file is changed by /format alone, or at a path the rules in force let Harvey write
\* to, though the rule of an offer is asked before the author is (commands.go:3430, 3471).
\* That path is the file's own where a tool writes it, and as it was written otherwise.
THEOREM RulesAreKept == Spec => DeniedLeftAlone
<1> DEFINE Right(p) == LET a == Last(acts') IN
                       a.op = "format" \/ (Clean(a.on) = p /\ HasPermission(a.on, "write"))
<1>1. ASSUME AccessInv, [Next]_vars, NEW p \in Paths, files'[p] # files[p]
      PROVE  Right(p)
  <2>1. Next
    BY <1>1 DEF vars
  <2>2. ~UNCHANGED files
    BY <1>1
  <2>3. PICK w \in Spellings, op \in Ops, did \in BOOLEAN :
          /\ Wrote(w) /\ Acted(op, w, did)
          /\ op = "format" \/ HasPermission(w, "write")
    BY <1>1, <2>1, <2>2, StepIsGood DEF GoodStep, Quiet, FilesAllowed
  <2>4. files \in [Paths -> 0 .. Len(acts)] /\ acts \in Seq(Acts)
    BY <1>1 DEF AccessInv, AccessTypeOK
  <2>5. p = Clean(w)
    BY <1>1, <2>3, <2>4 DEF Wrote
  <2>6. Last(acts') = [op |-> op, on |-> w, did |-> did]
    <3> DEFINE a == [op |-> op, on |-> w, did |-> did]
    <3>1. a \in Acts
      BY OnType DEF Acts, Ops
    <3>2. acts' = Append(acts, a)
      BY <2>3 DEF Acted
    <3> HIDE DEF a
    <3>3. Len(acts') = Len(acts) + 1 /\ acts'[Len(acts) + 1] = a
      BY <2>4, <3>1, <3>2, AppendProperties
    <3> QED
      BY <3>3 DEF Last, a
  <2>7. Last(acts').op = op /\ Last(acts').on = w
    BY <2>6
  <2> QED
    BY <2>3, <2>5, <2>7
<1>2. AccessInv /\ [Next]_vars => [\A p \in Paths : files'[p] # files[p] => Right(p)]_vars
  BY <1>1
<1> QED
  BY <1>2, AccessInvariant, PTL DEF Spec, DeniedLeftAlone

-----------------------------------------------------------------------------
(* The session log. What is done is told of in the same step, so the log   *)
(* tells of nothing else; and in the offers of a reply one event is told   *)
(* for each block that has been dealt with.                                *)

TruthInv ==
  /\ \A i \in DOMAIN books.log : books.log[i].act \in 1 .. Len(acts)
  /\ \A a \in DOMAIN acts : acts[a].op \in Asked =>
       /\ \E i \in DOMAIN books.log : books.log[i].act = a
       /\ acts[a].did => \A i \in DOMAIN books.log :
                           books.log[i].act = a => books.log[i].decision \in Allowed

LEMMA TruthStep ==
  ASSUME AccessInv, TruthInv, Next
  PROVE  TruthInv'
<1>1. GoodStep /\ acts \in Seq(Acts) /\ books.log \in Seq(Told) /\ books'.log \in Seq(Told)
  BY StepIsGood DEF AccessInv, GoodBooks, Books, GoodStep
<1>2. CASE Quiet
  BY <1>2 DEF Quiet, TruthInv
<1>3. CASE Recorded
  <2>1. /\ Len(books'.log) >= Len(books.log)
        /\ \A i \in 1 .. Len(books.log) : books'.log[i] = books.log[i]
        /\ \A i \in NewTold : books'.log[i].act = NextAct
    BY <1>3 DEF Recorded
  <2>2. PICK op \in Ops, on \in On, did \in BOOLEAN :
          /\ Acted(op, on, did)
          /\ op \in Asked => NewTold # {}
          /\ op \in Asked /\ did => \A i \in NewTold : books'.log[i].decision \in Allowed
    BY <1>3 DEF Recorded
  <2> DEFINE n == Len(acts)
             k == Len(books.log)
             log1 == books'.log
  <2>3. /\ n \in Nat /\ NextAct = n + 1 /\ Len(acts') = n + 1
        /\ \A a \in 1 .. n : acts'[a] = acts[a]
        /\ acts'[n + 1].op = op /\ acts'[n + 1].did = did
        /\ DOMAIN acts' = 1 .. n + 1 /\ DOMAIN acts = 1 .. n
    BY <1>1, <2>2 DEF Acted, NextAct
  <2>4. /\ k \in Nat /\ Len(log1) \in Nat /\ DOMAIN books.log = 1 .. k
        /\ DOMAIN log1 = 1 .. Len(log1) /\ NewTold = k + 1 .. Len(log1)
        /\ 1 .. k \subseteq DOMAIN log1
        /\ \A i \in DOMAIN log1 : i \in 1 .. k \/ i \in NewTold
        /\ NewTold \subseteq DOMAIN log1
    BY <1>1, <2>1, SMT DEF NewTold
  <2>5. \A i \in DOMAIN log1 : log1[i].act \in 1 .. n + 1
    BY <2>1, <2>3, <2>4, SMT DEF TruthInv
  <2>6. ASSUME NEW a \in 1 .. n + 1, acts'[a].op \in Asked
        PROVE  /\ \E i \in DOMAIN log1 : log1[i].act = a
               /\ acts'[a].did => \A i \in DOMAIN log1 :
                                   log1[i].act = a => log1[i].decision \in Allowed
    <3>1. CASE a \in 1 .. n
      <4>1. acts[a].op \in Asked /\ acts'[a].did = acts[a].did
        BY <2>3, <2>6, <3>1
      <4>2. PICK i \in 1 .. k : books.log[i].act = a
        BY <2>3, <2>4, <3>1, <4>1 DEF TruthInv
      <4>3. i \in DOMAIN log1 /\ log1[i].act = a
        BY <2>1, <2>4, <4>2
      <4>4. ASSUME acts[a].did, NEW j \in DOMAIN log1, log1[j].act = a
            PROVE  log1[j].decision \in Allowed
        <5>1. j \in 1 .. k
          BY <2>1, <2>3, <2>4, <3>1, <4>4, SMT
        <5> QED
          BY <2>1, <2>3, <2>4, <3>1, <4>1, <4>4, <5>1 DEF TruthInv
      <4> QED
        BY <4>1, <4>3, <4>4
    <3>2. CASE a = n + 1
      <4>1. op \in Asked /\ acts'[a].did = did
        BY <2>3, <2>6, <3>2
      <4>2. PICK i \in NewTold : TRUE
        BY <2>2, <4>1
      <4>3. i \in DOMAIN log1 /\ log1[i].act = a
        BY <2>1, <2>3, <2>4, <3>2, <4>2
      <4>4. ASSUME did, NEW j \in DOMAIN log1, log1[j].act = a
            PROVE  log1[j].decision \in Allowed
        <5>1. j \in NewTold
          <6>1. CASE j \in 1 .. k
            <7>1. books.log[j].act \in 1 .. n /\ log1[j] = books.log[j]
              BY <2>1, <2>4, <6>1 DEF TruthInv
            <7> QED
              BY <3>2, <4>4, <7>1, <2>3, SMT
          <6> QED
            BY <2>4, <4>4, <6>1
        <5> QED
          BY <2>2, <4>1, <4>4, <5>1
      <4> QED
        BY <4>1, <4>3, <4>4
    <3> QED
      BY <2>3, <2>6, <3>1, <3>2, SMT
  <2> QED
    BY <2>3, <2>5, <2>6 DEF TruthInv
<1> QED
  BY <1>1, <1>2, <1>3 DEF GoodStep

\* What the log tells of the blocks before the one at hand.
OffersInv ==
  Offering =>
    /\ Len(books.log) = doing.from + (doing.at - 1)
    /\ doing.written \subseteq 1 .. doing.at - 1
    /\ \A i \in 1 .. doing.at - 1 :
         LET told == books.log[doing.from + i] IN
         /\ told.offer = [index |-> i, of |-> Len(doing.blocks)]
         /\ told.outcome = "ok" <=> i \in doing.written

\* A block that is dealt with is told of once, and as written when it was.
LEMMA OfferTold ==
  ASSUME AccessInv, Offering, OfferDenied \/ OfferAnswered \/ OfferAfterAll \/ OfferSkipped
  PROVE  \E t \in Told :
           /\ books'.log = Append(books.log, t) /\ t.offer = Offer
           /\ IF t.outcome = "ok" THEN doing'.written = doing.written \cup {doing.at}
              ELSE doing'.written = doing.written
<1> GoodBooks(books) /\ acts \in Seq(Acts) /\ doing \in Doings
  BY InvParts DEF AccessInv, DoingOK
<1>1. doing.at <= Len(doing.blocks)
  BY DEF OfferDenied, OfferAnswered, OfferAfterAll, OfferSkipped, AccessInv, AskedIsAllowed
<1>2. Offer \in Offers /\ Offer.of > 0
  BY <1>1, OfferType
<1>3. /\ NextBlock \in Doings /\ NextBlock.written = doing.written
  BY NextBlockType
<1>4. ASSUME NEW b, GoodBooks(b), b.log = books.log, NEW choice \in {"no", "quit", "yes", "all"},
             NEW outcome \in Outcomes, NEW all,
             books' = LogAction(b, choice, outcome, all, Offer)
      PROVE  \E t \in Told : /\ books'.log = Append(books.log, t) /\ t.offer = Offer
                              /\ t.outcome = outcome
  <2>1. Answers(b, LogAction(b, choice, outcome, all, Offer), choice, outcome, Offer)
    BY <1>2, <1>4, AnswerBooks
  <2> QED
    BY <1>4, <2>1 DEF Answers
<1>5. CASE OfferDenied
  <2> DEFINE b == Log(books, "write", "denied", Offer)
  <2>1. GoodBooks(b) /\ b.log = books.log
    BY <1>2, LogBooks
  <2> HIDE DEF b
  <2>2. books' = LogAction(b, "no", "denied", doing.all, Offer) /\ doing' = NextBlock
    BY <1>5 DEF OfferDenied, b
  <2>3. \E t \in Told : /\ books'.log = Append(books.log, t) /\ t.offer = Offer
                         /\ t.outcome = "denied"
    BY <1>4, <2>1, <2>2 DEF Outcomes
  <2> QED
    BY <1>3, <2>2, <2>3
<1>6. CASE OfferSkipped
  <2>1. books' = LogAction(books, "no", "skipped", FALSE, Offer) /\ doing' = NextBlock
    BY <1>6 DEF OfferSkipped
  <2>2. \E t \in Told : /\ books'.log = Append(books.log, t) /\ t.offer = Offer
                         /\ t.outcome = "skipped"
    BY <1>4, <2>1 DEF Outcomes
  <2> QED
    BY <1>3, <2>1, <2>2
<1>7. ASSUME NEW choice \in {"yes", "all"}, NEW all \in BOOLEAN,
             \/ /\ books' = LogAction(books, choice, "ok", all, Offer)
                /\ doing' = [NextBlock EXCEPT !.all = all, !.written = @ \cup {doing.at}]
             \/ /\ books' = LogAction(books, choice, "error", all, Offer)
                /\ doing' = [NextBlock EXCEPT !.all = all]
      PROVE  \E t \in Told :
               /\ books'.log = Append(books.log, t) /\ t.offer = Offer
               /\ IF t.outcome = "ok" THEN doing'.written = doing.written \cup {doing.at}
                  ELSE doing'.written = doing.written
  <2> DEFINE d == [NextBlock EXCEPT !.all = all]
  <2>1. d \in Doings /\ d.written = doing.written
    BY <1>3 DEF Doings
  <2>2. CASE books' = LogAction(books, choice, "ok", all, Offer)
             /\ doing' = [NextBlock EXCEPT !.all = all, !.written = @ \cup {doing.at}]
    <3>1. doing' = [d EXCEPT !.written = NextBlock.written \cup {doing.at}]
      BY <2>1, <2>2, <1>3
    <3> HIDE DEF d
    <3>2. doing'.written = doing.written \cup {doing.at}
      BY <1>3, <2>1, <3>1 DEF Doings
    <3>3. \E t \in Told : /\ books'.log = Append(books.log, t) /\ t.offer = Offer
                           /\ t.outcome = "ok"
      BY <1>4, <2>2 DEF Outcomes
    <3> QED
      BY <3>2, <3>3
  <2>3. CASE books' = LogAction(books, choice, "error", all, Offer) /\ doing' = d
    <3>1. \E t \in Told : /\ books'.log = Append(books.log, t) /\ t.offer = Offer
                           /\ t.outcome = "error"
      BY <1>4, <2>3 DEF Outcomes
    <3> HIDE DEF d
    <3> QED
      BY <2>1, <2>3, <3>1
  <2> QED
    BY <1>7, <2>2, <2>3
<1>8. ASSUME NEW choice \in {"yes", "all"}, OfferWritten(choice)
      PROVE  \E t \in Told :
               /\ books'.log = Append(books.log, t) /\ t.offer = Offer
               /\ IF t.outcome = "ok" THEN doing'.written = doing.written \cup {doing.at}
                  ELSE doing'.written = doing.written
  <2> DEFINE all == doing.all \/ choice = "all"
  <2>1. all \in BOOLEAN
    OBVIOUS
  <2>2. \/ /\ books' = LogAction(books, choice, "ok", all, Offer)
           /\ doing' = [NextBlock EXCEPT !.all = all, !.written = @ \cup {doing.at}]
        \/ /\ books' = LogAction(books, choice, "error", all, Offer)
           /\ doing' = [NextBlock EXCEPT !.all = all]
    BY <1>8 DEF OfferWritten
  <2> HIDE DEF all
  <2> QED
    BY <1>7, <2>1, <2>2
<1>9. CASE OfferAnswered \/ OfferAfterAll
  BY <1>8, <1>9 DEF OfferAnswered, OfferAfterAll
<1> QED
  BY <1>5, <1>6, <1>9

LEMMA OffersInvStep ==
  ASSUME AccessInv, OffersInv, Next
  PROVE  OffersInv'
<1> doing \in Doings /\ books.log \in Seq(Told) /\ doing.at \in Nat /\ doing.from \in Nat
  BY InvParts DEF AccessInv, DoingOK, Doings, GoodBooks, Books
<1>1. CASE ~Offering'
  BY <1>1 DEF OffersInv
<1>2. CASE UNCHANGED <<doing, books>>
  BY <1>2 DEF OffersInv, Offering
<1>3. CASE Reply /\ doing' = [Prompt EXCEPT !.what = "untagged"]
  BY <1>3, <1>1 DEF Prompt, Offering
<1>4. ASSUME NEW r \in Replies, doing' = Begin("offers", r, Len(books.log)), UNCHANGED books
      PROVE  OffersInv'
  <2>1. r \in Seq(Spellings)
    BY <1>4, AccessAssumption
  <2>2. Len(books.log) \in Nat
    OBVIOUS
  <2>3. /\ doing'.from = Len(books.log) /\ doing'.at = 1 /\ doing'.written = {}
    BY <1>4, <2>1, <2>2, BeginType
  <2> QED
    BY <1>4, <2>2, <2>3, SMT DEF OffersInv
<1>5. CASE OfferAsked
  <2>1. doing' = [doing EXCEPT !.asked = TRUE] /\ books' = books
    BY <1>5 DEF OfferAsked
  <2>2. /\ doing'.what = doing.what /\ doing'.at = doing.at /\ doing'.blocks = doing.blocks
        /\ doing'.from = doing.from /\ doing'.written = doing.written
    BY <2>1 DEF Doings
  <2> QED
    BY <2>1, <2>2 DEF OffersInv, Offering
<1>6. CASE OfferDenied \/ OfferAnswered \/ OfferAfterAll \/ OfferSkipped
  <2> DEFINE n == doing.at
             log1 == books'.log
  <2>1. Offering
    BY <1>6 DEF OfferDenied, OfferAnswered, OfferAfterAll, OfferSkipped
  <2>2. n # 0
    BY <2>1 DEF Offering, AccessInv, AskedIsAllowed
  <2>3. PICK t \in Told :
          /\ log1 = Append(books.log, t) /\ t.offer = Offer
          /\ IF t.outcome = "ok" THEN doing'.written = doing.written \cup {n}
             ELSE doing'.written = doing.written
    BY <1>6, <2>1, OfferTold
  <2>4. /\ doing'.blocks = doing.blocks /\ doing'.from = doing.from /\ doing'.at = n + 1
    BY <1>6, <2>1, OfferMoves
  <2>5. /\ Len(books.log) = doing.from + (n - 1)
        /\ doing.written \subseteq 1 .. n - 1
        /\ \A i \in 1 .. n - 1 :
             /\ books.log[doing.from + i].offer = [index |-> i, of |-> Len(doing.blocks)]
             /\ books.log[doing.from + i].outcome = "ok" <=> i \in doing.written
    BY <2>1 DEF OffersInv
  <2>6. Len(log1) = doing.from + n /\ log1[doing.from + n] = t
    <3>1. Len(log1) = Len(books.log) + 1 /\ log1[Len(books.log) + 1] = t
      BY <2>3
    <3>2. Len(books.log) + 1 = doing.from + n
      BY <2>5, SMT
    <3> QED
      BY <3>1, <3>2
  <2>7. \A i \in 1 .. n - 1 : log1[doing.from + i] = books.log[doing.from + i]
    <3>1. \A i \in 1 .. n - 1 : doing.from + i \in 1 .. Len(books.log)
      BY <2>5, SMT
    <3> QED
      BY <2>3, <3>1
  <2>8. doing'.written \subseteq 1 .. n /\ (n \in doing'.written <=> t.outcome = "ok")
    BY <2>2, <2>3, <2>5, SMT
  <2>9. \A i \in 1 .. n - 1 : i \in doing'.written <=> i \in doing.written
    BY <2>3, SMT
  <2>10. ASSUME NEW i \in 1 .. n
         PROVE  /\ log1[doing.from + i].offer = [index |-> i, of |-> Len(doing.blocks)]
                /\ log1[doing.from + i].outcome = "ok" <=> i \in doing'.written
    <3>1. CASE i \in 1 .. n - 1
      BY <2>5, <2>7, <2>9, <3>1
    <3>2. CASE i = n
      BY <2>3, <2>6, <2>8, <3>2 DEF Offer
    <3> QED
      BY <3>1, <3>2, SMT
  <2>11. doing'.at - 1 = n
    BY <2>4
  <2> QED
    BY <2>4, <2>6, <2>8, <2>10, <2>11 DEF OffersInv
<1>7. CASE OfferAborted \/ OfferCommand \/ OffersOver \/ Restart \/ UntaggedLeft
           \/ \E w \in Spellings : UntaggedWritten(w)
  <2>1. doing' = Prompt
    BY <1>7 DEF OfferAborted, OfferCommand, OffersOver, Restart, UntaggedLeft, UntaggedWritten
  <2> QED
    BY <1>1, <2>1 DEF Prompt, Offering
<1>8. CASE doing.what # "offers" /\ UNCHANGED doing
  BY <1>1, <1>8 DEF Offering
<1>9. CASE Calls \/ SettingsCommand \/ AuditClear \/ Command
  BY <1>8, <1>9 DEF Calls, SettingsCommand, AuditClear, Command, NextLine
<1>10. CASE Read \/ ReadDir \/ Ask
  <2>2. [Prompt EXCEPT !.what = "turn"].what = "turn"
    BY DEF Prompt
  <2>3. \A what, blocks, from : Begin(what, blocks, from).what = what
    BY DEF Begin
  <2>1. UNCHANGED doing \/ doing'.what # "offers"
    <3>1. CASE Read
      BY <2>3, <3>1 DEF Read
    <3>2. CASE ReadDir
      <4>1. UNCHANGED doing \/ \E blocks : doing' = Begin("walking", blocks, 0)
        BY <3>2 DEF ReadDir
      <4> QED
        BY <2>3, <4>1
    <3>3. CASE Ask
      BY <2>2, <3>3 DEF Ask
    <3> QED
      BY <1>10, <3>1, <3>2, <3>3
  <2> QED
    BY <1>1, <1>8, <1>10, <2>1 DEF Read, ReadDir, Ask, NextLine, Offering
<1>11. CASE ReadNext
  <2>1. /\ doing.what \in {"reading", "walking"}
        /\ doing' = [doing EXCEPT !.at = @ + 1] \/ doing' = Prompt
    BY <1>11 DEF ReadNext, ReadAnother, WalkOn, ReadOver, Took
  <2>2. doing'.what # "offers"
    BY <2>1 DEF Doings, Prompt
  <2> QED
    BY <1>1, <2>2 DEF Offering
<1>12. CASE Reply
  BY <1>1, <1>3, <1>4, <1>12 DEF Reply, Prompt, Offering
<1>13. CASE Edited
  BY <1>2, <1>13 DEF Edited
<1> QED
  BY <1>5, <1>6, <1>7, <1>9, <1>10, <1>11, <1>12, <1>13 DEF Next, Offered

LEMMA OffersHold ==
  ASSUME AccessInv, OffersInv
  PROVE  OffersAccounted
<1> SUFFICES ASSUME Offering
             PROVE  LET told == SubSeq(books.log, doing.from + 1, Len(books.log))
                    IN  /\ Len(told) = doing.at - 1
                        /\ \A i \in DOMAIN told :
                             /\ told[i].offer = [index |-> i, of |-> Len(doing.blocks)]
                             /\ told[i].outcome = "ok" <=> i \in doing.written
  BY DEF OffersAccounted
<1> DEFINE told == SubSeq(books.log, doing.from + 1, Len(books.log))
<1>1. books.log \in Seq(Told) /\ doing.at \in Nat \ {0} /\ doing.from \in Nat
  BY InvParts DEF AccessInv, DoingOK, Doings, GoodBooks, Books, AskedIsAllowed, Offering
<1>2. Len(books.log) = doing.from + (doing.at - 1)
  BY DEF OffersInv
<1>3. /\ Len(told) = doing.at - 1 /\ DOMAIN told = 1 .. doing.at - 1
      /\ \A i \in 1 .. doing.at - 1 : told[i] = books.log[doing.from + i]
  <2>1. doing.from + 1 \in 1 .. Len(books.log) + 1 /\ Len(books.log) \in Nat
    <3>1. Len(books.log) \in Nat /\ doing.from \in Nat /\ doing.at \in Nat /\ doing.at # 0
      BY <1>1
    <3> QED
      BY <3>1, <1>2
  <2>2. Len(books.log) - doing.from = doing.at - 1 /\ doing.at - 1 \in Nat
    BY <1>1, <1>2, SMT
  <2> DEFINE m == doing.from + 1
             n == Len(books.log)
  <2>3. /\ m \in Int /\ n \in Int /\ \A i \in m .. n : books.log[i] \in Told
        /\ n - m + 1 = doing.at - 1 /\ (m <= n \/ doing.at - 1 = 0)
    BY <1>1, <2>1, <2>2, SMTT(30)
  <2>4. /\ told \in Seq(Told)
        /\ Len(told) = IF m <= n THEN n - m + 1 ELSE 0
        /\ \A i \in 1 .. n - m + 1 : told[i] = books.log[m + i - 1]
    <3> HIDE DEF m, n
    <3>1. /\ SubSeq(books.log, m, n) \in Seq(Told)
          /\ Len(SubSeq(books.log, m, n)) = IF m <= n THEN n - m + 1 ELSE 0
          /\ \A i \in 1 .. n - m + 1 : SubSeq(books.log, m, n)[i] = books.log[m + i - 1]
      BY <2>3, SubSeqProperties
    <3> QED
      BY <3>1 DEF m, n
  <2>5. Len(told) = doing.at - 1
    BY <2>3, <2>4, <2>2, SMT
  <2>6. \A i \in 1 .. doing.at - 1 : m + i - 1 = doing.from + i
    BY <1>1, SMT
  <2> QED
    BY <2>3, <2>4, <2>5, <2>6
<1> QED
  BY <1>3, ZenonT(60) DEF OffersInv

\* For every capacity the audit shows the newest of what it was given; for every reply and
\* however its offers end, each tagged block that was dealt with has one permission event,
\* in order, that says whether it was written; and every other write or program that the
\* rules or the author were asked about has some, none of which denies what was done.
THEOREM RecordsTellTheTruth == Spec => []RecordsAreTrue
<1> DEFINE Inv == AccessInv /\ TruthInv /\ OffersInv
<1>1. Init => Inv
  <2> SUFFICES ASSUME Init PROVE TruthInv /\ OffersInv
    BY AccessInit
  <2>1. books.log = <<>> /\ acts = <<>> /\ ~Offering
    BY DEF Init, Prompt, Offering
  <2> QED
    BY <2>1 DEF TruthInv, OffersInv
<1>2. Inv /\ [Next]_vars => Inv'
  <2> SUFFICES ASSUME Inv, [Next]_vars PROVE Inv'
    OBVIOUS
  <2>1. CASE Next
    BY <2>1, AccessStep, TruthStep, OffersInvStep
  <2>2. CASE UNCHANGED vars
    <3>1. UNCHANGED <<acts, books, doing>>
      BY <2>2 DEF vars
    <3>2. TruthInv' /\ OffersInv'
      BY <3>1 DEF TruthInv, OffersInv, Offering
    <3> QED
      BY <2>2, <3>2, AccessStep
  <2> QED
    BY <2>1, <2>2
<1>3. Inv => OffersAccounted /\ RecordedTruly
  <2> SUFFICES ASSUME Inv PROVE OffersAccounted /\ RecordedTruly
    OBVIOUS
  <2>1. OffersAccounted
    BY OffersHold
  <2>2. RecordedTruly
    BY DEF RecordedTruly, TruthInv, Asked, Allowed
  <2> QED
    BY <2>1, <2>2
<1>4. AuditIsRecent /\ OffersAccounted /\ RecordedTruly => RecordsAreTrue
  BY DEF RecordsAreTrue
<1> QED
  BY <1>1, <1>2, <1>3, <1>4, AuditShowsNewest, PTL DEF Spec

-----------------------------------------------------------------------------
(* The settings and the file. A save lays a part of the settings over what *)
(* the file says, which must leave the other part as it would be read.     *)

SavedInv ==
  /\ config.permissions # <<>>
  /\ yaml.text = "garbled" => yaml = Garbled
  /\ SavedAreInForce

\* A file that cannot be read is as good as an empty one.
LEMMA UnmarshalLoads ==
  ASSUME NEW y \in Files, y.text = "garbled" => y = Garbled
  PROVE  /\ Unmarshal(y) \in Files /\ Unmarshal(y).text = "good"
         /\ Unmarshal(y).rest = y.rest
         /\ LoadHarveyYAML(Unmarshal(y)) = LoadHarveyYAML(y)
<1>1. CASE y.text = "garbled"
  <2>1. Unmarshal(y) = Blank /\ y.rest = "none" /\ LoadHarveyYAML(y) = DefaultConfig
    BY <1>1 DEF Unmarshal, Garbled, Blank, LoadHarveyYAML
  <2>2. LoadHarveyYAML(Blank) = DefaultConfig
    BY DEF LoadHarveyYAML, Blank, Misfit, DefaultConfig
  <2> QED
    BY <2>1, <2>2, BlankType DEF Blank
<1>2. CASE y.text # "garbled"
  BY <1>2 DEF Unmarshal, Files
<1> QED
  BY <1>1, <1>2

LEMMA LoadedParts ==
  ASSUME NEW y \in Files, y.text = "good", ~Misfit(y)
  PROVE  LET c == LoadHarveyYAML(y) IN
         /\ c.safe = IF y.safe = {} THEN DefaultConfig.safe ELSE CHOOSE x \in y.safe : TRUE
         /\ c.permissions = IF y.permissions = <<>> THEN DefaultConfig.permissions
                            ELSE y.permissions
         /\ c.allowed = IF y.allowed = {} THEN DefaultAllowedCommands ELSE y.allowed
         /\ c.aliases = y.aliases
BY DEF LoadHarveyYAML, Misfit

\* What a save of the rules puts into the file, and what it leaves.
LEMMA MemoryConfigParts ==
  ASSUME NEW c \in Configs, NEW y \in Files
  PROVE  LET z == MemoryConfig(c, y)
             u == Unmarshal(y)
         IN /\ z.safe = {c.safe} /\ z.permissions = c.permissions
            /\ z.allowed = IF c.allowed = {} THEN u.allowed ELSE c.allowed
            /\ z.aliases = u.aliases /\ z.rest = u.rest /\ z.text = u.text
<1> DEFINE u == Unmarshal(y)
           v == [u EXCEPT !.safe = {c.safe}]
           w == [v EXCEPT !.permissions = c.permissions]
<1>1. u \in Files /\ {c.safe} \in SUBSET BOOLEAN /\ c.permissions \in Rules
  BY BlankType DEF Unmarshal, Configs
<1>2. MemoryConfig(c, y) = [w EXCEPT !.allowed = IF c.allowed = {} THEN w.allowed ELSE c.allowed]
  BY DEF MemoryConfig
<1> HIDE DEF u
<1>3. /\ v \in Files /\ v.safe = {c.safe} /\ v.allowed = u.allowed /\ v.aliases = u.aliases
      /\ v.rest = u.rest /\ v.text = u.text
  BY <1>1 DEF Files
<1> HIDE DEF v
<1>4. /\ w \in Files /\ w.safe = {c.safe} /\ w.permissions = c.permissions
      /\ w.allowed = u.allowed /\ w.aliases = u.aliases /\ w.rest = u.rest /\ w.text = u.text
  BY <1>1, <1>3 DEF Files
<1> HIDE DEF w
<1> QED
  BY <1>2, <1>4 DEF Files, u

LEMMA ModelAliasesParts ==
  ASSUME NEW c \in Configs, NEW y \in Files
  PROVE  LET z == ModelAliases(c, y)
             u == Unmarshal(y)
         IN /\ z.aliases = IF c.aliases = {} THEN u.aliases ELSE c.aliases
            /\ z.safe = u.safe /\ z.permissions = u.permissions /\ z.allowed = u.allowed
            /\ z.rest = u.rest /\ z.text = u.text
<1> DEFINE u == Unmarshal(y)
<1>1. u \in Files
  BY BlankType DEF Unmarshal
<1>2. ModelAliases(c, y) = [u EXCEPT !.aliases = IF c.aliases = {} THEN u.aliases ELSE c.aliases]
  BY DEF ModelAliases
<1> HIDE DEF u
<1> QED
  BY <1>1, <1>2 DEF Files, u

\* Misfit goes by the rest of the file alone.
LEMMA MisfitSame ==
  ASSUME NEW y, NEW z, y.rest = z.rest
  PROVE  Misfit(y) <=> Misfit(z)
BY DEF Misfit

\* A save of the rules: they are read back as they are, and the aliases as before.
LEMMA RulesSaved ==
  ASSUME SettingsOK, SavedInv, config' \in Configs, config'.permissions # <<>>,
         config'.aliases = config.aliases, SaveMemoryConfig
  PROVE  SavedInv'
<1> DEFINE z == MemoryConfig(config', yaml)
           u == Unmarshal(yaml)
<1>1. yaml \in Files /\ (yaml.text = "garbled" => yaml = Garbled) /\ behind \subseteq {"rules", "aliases"}
  BY DEF SettingsOK, SavedInv
<1>2. CASE yaml' = z /\ behind' = behind \ {"rules"}
  <2>1. /\ z \in Files /\ u \in Files /\ u.text = "good" /\ u.rest = yaml.rest
        /\ LoadHarveyYAML(u) = LoadHarveyYAML(yaml)
    BY <1>1, SavedType, UnmarshalLoads
  <2>2. /\ z.safe = {config'.safe} /\ z.permissions = config'.permissions
        /\ z.allowed = IF config'.allowed = {} THEN u.allowed ELSE config'.allowed
        /\ z.aliases = u.aliases /\ z.rest = u.rest /\ z.text = u.text
    BY <1>1, MemoryConfigParts
  <2> HIDE DEF z, u
  <2>3. SUFFICES ASSUME ~Misfit(z)
                 PROVE  LET then == LoadHarveyYAML(z) IN
                        /\ then.safe = config'.safe /\ then.permissions = config'.permissions
                        /\ config'.allowed = {} \/ then.allowed = config'.allowed
                        /\ "aliases" \notin behind =>
                             config'.aliases = {} \/ then.aliases = config'.aliases
    BY <1>2, <2>1, <2>2 DEF SavedInv, SavedAreInForce
  <2>4. ~Misfit(yaml) /\ ~Misfit(u)
    BY <2>1, <2>2, <2>3, MisfitSame
  <2>5. LET then == LoadHarveyYAML(z) IN
        /\ then.safe = CHOOSE x \in {config'.safe} : TRUE
        /\ then.permissions = config'.permissions
        /\ then.allowed = IF z.allowed = {} THEN DefaultAllowedCommands ELSE z.allowed
        /\ then.aliases = u.aliases
    BY <2>1, <2>2, <2>3, LoadedParts
  <2>6. (CHOOSE x \in {config'.safe} : TRUE) = config'.safe
    OBVIOUS
  <2>7. LoadHarveyYAML(yaml).aliases = u.aliases
    BY <2>1, <2>4, LoadedParts
  <2>8. "aliases" \notin behind => config.aliases = {} \/ u.aliases = config.aliases
    BY <2>4, <2>7 DEF SavedInv, SavedAreInForce
  <2> QED
    BY <2>2, <2>5, <2>6, <2>8
<1>3. CASE UNCHANGED yaml /\ behind' = behind \cup {"rules"}
  <2>1. "rules" \in behind' /\ ("aliases" \notin behind' => "aliases" \notin behind)
    BY <1>3
  <2> QED
    BY <1>3, <2>1 DEF SavedInv, SavedAreInForce
<1>4. CASE yaml' \in {Blank, Garbled} /\ behind' = {"rules", "aliases"}
  BY <1>4 DEF SavedInv, SavedAreInForce, Blank
<1> QED
  BY <1>2, <1>3, <1>4 DEF SaveMemoryConfig, Save

LEMMA AliasesSaved ==
  ASSUME SettingsOK, SavedInv, config' \in Configs, config'.permissions = config.permissions,
         config'.safe = config.safe, config'.allowed = config.allowed, SaveModelAliases
  PROVE  SavedInv'
<1> DEFINE z == ModelAliases(config', yaml)
           u == Unmarshal(yaml)
<1>1. yaml \in Files /\ (yaml.text = "garbled" => yaml = Garbled) /\ config.permissions # <<>>
  BY DEF SettingsOK, SavedInv
<1>2. CASE yaml' = z /\ behind' = behind \ {"aliases"}
  <2>1. /\ z \in Files /\ u \in Files /\ u.text = "good" /\ u.rest = yaml.rest
        /\ LoadHarveyYAML(u) = LoadHarveyYAML(yaml)
    BY <1>1, SavedType, UnmarshalLoads
  <2>2. /\ z.aliases = IF config'.aliases = {} THEN u.aliases ELSE config'.aliases
        /\ z.safe = u.safe /\ z.permissions = u.permissions /\ z.allowed = u.allowed
        /\ z.rest = u.rest /\ z.text = u.text
    BY <1>1, ModelAliasesParts
  <2> HIDE DEF z, u
  <2>3. SUFFICES ASSUME ~Misfit(z)
                 PROVE  LET then == LoadHarveyYAML(z) IN
                        /\ "rules" \notin behind =>
                             /\ then.safe = config'.safe /\ then.permissions = config'.permissions
                             /\ config'.allowed = {} \/ then.allowed = config'.allowed
                        /\ config'.aliases = {} \/ then.aliases = config'.aliases
    BY <1>1, <1>2, <2>1, <2>2 DEF SavedInv, SavedAreInForce
  <2>4. ~Misfit(yaml) /\ ~Misfit(u)
    BY <2>1, <2>2, <2>3, MisfitSame
  <2>5. LET then == LoadHarveyYAML(z)
            was == LoadHarveyYAML(u)
        IN /\ then.safe = was.safe /\ then.permissions = was.permissions
           /\ then.allowed = was.allowed /\ then.aliases = z.aliases
    BY <2>1, <2>2, <2>3, <2>4, LoadedParts
  <2> QED
    BY <2>1, <2>2, <2>4, <2>5 DEF SavedInv, SavedAreInForce
<1>3. CASE UNCHANGED yaml /\ behind' = behind \cup {"aliases"}
  <2>1. "aliases" \in behind' /\ ("rules" \notin behind' => "rules" \notin behind)
    BY <1>3
  <2> QED
    BY <1>1, <1>3, <2>1 DEF SavedInv, SavedAreInForce
<1>4. CASE yaml' \in {Blank, Garbled} /\ behind' = {"rules", "aliases"}
  BY <1>1, <1>4 DEF SavedInv, SavedAreInForce, Blank
<1> QED
  BY <1>2, <1>3, <1>4 DEF SaveModelAliases, Save

LEMMA SavedCommandStep ==
  ASSUME SettingsOK, SavedInv, NEW c \in Lines, SafeMode(c) \/ Permissions(c) \/ ModelAlias(c)
  PROVE  SavedInv'
<1> config \in Configs /\ config.permissions # <<>>
  BY DEF SettingsOK, SavedInv
<1>1. config' \in Configs
  BY SettingsCommandType DEF SettingsOK
<1>2. CASE SafeMode(c)
  <2>1. /\ config'.permissions = config.permissions /\ config'.aliases = config.aliases
        /\ SaveMemoryConfig
    BY <1>2 DEF SafeMode, AddAllowedCommand, RemoveAllowedCommand, ResetAllowedCommands, Configs
  <2> QED
    BY <1>1, <2>1, RulesSaved
<1>3. CASE Permissions(c)
  <2>1. SaveMemoryConfig
    BY <1>3 DEF Permissions
  <2>2. \E new : config' = [config EXCEPT !.permissions = new] /\ new # <<>>
    <3>1. CASE SetPermission(c.on, c.rights)
      <4> DEFINE old == config.permissions
                 new == [q \in DOMAIN old \cup {c.on} |-> IF q = c.on THEN c.rights ELSE old[q]]
      <4>1. config' = [config EXCEPT !.permissions = new]
        BY <3>1 DEF SetPermission
      <4>2. c.on \in DOMAIN new /\ DOMAIN <<>> = {}
        OBVIOUS
      <4>3. new # <<>>
        BY <4>2
      <4> QED
        BY <4>1, <4>3
    <3>2. CASE ResetPermissions
      <4>1. <<>> \in DOMAIN DefaultConfig.permissions /\ DOMAIN <<>> = {}
        BY DEF DefaultConfig
      <4>2. DefaultConfig.permissions # <<>>
        BY <4>1
      <4> QED
        BY <3>2, <4>2 DEF ResetPermissions
    <3> QED
      BY <1>3, <3>1, <3>2 DEF Permissions
  <2>3. config'.permissions # <<>> /\ config'.aliases = config.aliases
    BY <2>2 DEF Configs
  <2> QED
    BY <1>1, <2>1, <2>3, RulesSaved
<1>4. CASE ModelAlias(c)
  <2>1. CASE UNCHANGED settings
    BY <2>1 DEF settings, SavedInv, SavedAreInForce
  <2>2. CASE ~UNCHANGED settings
    <3>1. SaveModelAliases /\ \E S : config' = [config EXCEPT !.aliases = S]
      BY <1>4, <2>2 DEF ModelAlias
    <3>2. /\ config'.permissions = config.permissions /\ config'.safe = config.safe
          /\ config'.allowed = config.allowed
      BY <3>1 DEF Configs
    <3> QED
      BY <1>1, <3>1, <3>2, AliasesSaved
  <2> QED
    BY <2>1, <2>2
<1> QED
  BY <1>2, <1>3, <1>4

\* A configuration that was read has rules, be it the default ones.
LEMMA LoadedRules ==
  ASSUME NEW y \in Files
  PROVE  LoadHarveyYAML(y).permissions # <<>>
<1>1. DefaultConfig.permissions # <<>>
  <2>1. <<>> \in DOMAIN DefaultConfig.permissions /\ DOMAIN <<>> = {}
    BY DEF DefaultConfig
  <2> QED
    BY <2>1
<1> QED
  BY <1>1 DEF LoadHarveyYAML

LEMMA SavedStep ==
  ASSUME SettingsOK, SavedInv, Next
  PROVE  SavedInv'
<1>1. CASE SettingsCommand
  BY <1>1, SavedCommandStep DEF SettingsCommand
<1>2. CASE Restart
  BY <1>2, LoadedRules DEF Restart, Startup, SettingsOK, SavedInv, SavedAreInForce
<1>3. CASE Edited
  BY <1>3, SettingsAssumption DEF Edited, AuthorEdits, SavedInv, SavedAreInForce
<1>4. CASE UNCHANGED settings
  BY <1>4 DEF settings, SavedInv, SavedAreInForce
<1> QED
  BY <1>1, <1>2, <1>3, <1>4 DEF Next, Calls, Reply, Offered, OfferDenied, OfferAsked,
    OfferAnswered, OfferAfterAll, OfferSkipped, OfferAborted, OfferCommand, OffersOver,
    UntaggedLeft, UntaggedWritten, AuditClear, Command, Read, ReadDir, ReadNext,
    ReadAnother, WalkOn, ReadOver, Ask

\* What a command reported as saved is in force again after a restart, whatever was
\* saved or failed to be saved in between, and whatever the file held before.
THEOREM SavedSettingsReturn == Spec => []SavedAreInForce
<1> DEFINE Inv == AccessInv /\ SavedInv
<1>1. Init => Inv
  <2> SUFFICES ASSUME Init PROVE SavedInv
    BY AccessInit
  <2>1. yaml \in Files /\ config = LoadHarveyYAML(yaml)
        /\ (yaml.text = "garbled" => yaml = Garbled)
    BY SettingsAssumption DEF Init, SettingsInit
  <2> QED
    BY <2>1, LoadedRules DEF SavedInv, SavedAreInForce
<1>2. Inv /\ [Next]_vars => Inv'
  <2> SUFFICES ASSUME Inv, [Next]_vars PROVE Inv'
    OBVIOUS
  <2>1. SettingsOK
    BY InvParts
  <2>2. CASE Next
    BY <2>1, <2>2, AccessStep, SavedStep
  <2>3. CASE UNCHANGED vars
    BY <2>3, AccessStep DEF vars, SavedInv, SavedAreInForce
  <2> QED
    BY <2>2, <2>3
<1>3. Inv => SavedAreInForce
  BY DEF SavedInv
<1> QED
  BY <1>1, <1>2, <1>3, PTL DEF Spec

=============================================================================
