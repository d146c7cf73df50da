----------------------------- MODULE SessionLog -----------------------------
(***************************************************************************)
(* The append-only JSONL record of one session and its live index          *)
(* (sessionlog.go, sessionindex.go).                                       *)
(*                                                                         *)
(* The file is a sequence of PIECES, one per write that left something:    *)
(* the event whose line was being written, the offset it starts at and how *)
(* much of the line is there.  A line is abstracted to three bytes: the    *)
(* first half of its JSON, the rest of the JSON, and the newline.          *)
(*                                                                         *)
(* An append writes the whole line and then syncs the file, under l.mu.    *)
(* Between the two the machine may crash; either may return an error.      *)
(***************************************************************************)
EXTENDS Integers, Sequences

CONSTANTS
  Debug,        \* the log was opened with --debug
  Faults,       \* the errors the disk may return: see AllFaults
  MaxSeq,       \* bound: event ids minted in one session
  MaxErrors     \* bound: appends that fail in one session

AllFaults == {"nowrite", "shortwrite", "nosync"}

ASSUME ConstantsOK ==
  /\ Debug \in BOOLEAN
  /\ Faults \subseteq AllFaults
  /\ MaxSeq \in Nat
  /\ MaxErrors \in Nat

VARIABLES
  status,       \* of the log: "absent", "open", "closed"; "crashed" at the end
  file,         \* the pieces written so far
  synced,       \* how many of them are known to be on the disk
  seq,          \* l.seq: ids minted so far
  size,         \* l.size: where the writer believes the next line starts
  idx,          \* l.index
  pending,      \* the event written but not yet synced, or None
  acked,        \* the events whose append returned an id, in order
  errors        \* appends that returned an error

logVars == <<status, file, synced, seq, size, idx, pending, acked, errors>>

-----------------------------------------------------------------------------
(* Events.  The kinds that differ for the file or the index keep their     *)
(* name; "injection" stands for every other one.                           *)

Kinds == {"session_start", "session_end", "user_input", "injection", "pin", "unpin", "fault"}
Levels == {"info", "debug"}

\* pin: the id an unpin event names; 0 for every other event.
Event == [seq : 1..MaxSeq, kind : Kinds, level : Levels, pin : 0..MaxSeq]
None == [seq |-> 0, kind |-> "none", level |-> "info", pin |-> 0]

Parts == {"half", "body", "line"}
Lengths == [half |-> 1, body |-> 2, line |-> 3]
Piece == [ev : Event, at : Nat, got : Parts]

FileEnd(f) == IF f = <<>> THEN 0 ELSE f[Len(f)].at + Lengths[f[Len(f)].got]
Written(f, e, got) == Append(f, [ev |-> e, at |-> FileEnd(f), got |-> got])

-----------------------------------------------------------------------------
(* The live index.                                                         *)

EmptyIndex == [entries |-> <<>>, turns |-> <<>>, pins |-> <<>>]

\* The first x of s is taken out, if there is one.
Without(s, x) ==
  IF \E j \in DOMAIN s : s[j] = x
  THEN LET j == CHOOSE k \in DOMAIN s : s[k] = x /\ \A i \in 1..(k - 1) : s[i] # x
       IN SubSeq(s, 1, j - 1) \o SubSeq(s, j + 1, Len(s))
  ELSE s

\* Variant: the unpin event does not reach the index.
IndexAddIgnoringUnpin(x, e, off) ==
  LET turns == IF e.kind = "user_input" /\ e.level # "debug"
               THEN Append(x.turns, Len(x.entries) + 1) ELSE x.turns
  IN [entries |-> Append(x.entries, [id |-> e.seq, kind |-> e.kind, turn |-> Len(turns), off |-> off]),
      turns   |-> turns,
      pins    |-> IF e.kind = "pin" THEN Append(x.pins, e.seq) ELSE x.pins]

IndexAdd(x, e, off) ==
  LET turns == IF e.kind = "user_input" /\ e.level # "debug"
               THEN Append(x.turns, Len(x.entries) + 1) ELSE x.turns
  IN [entries |-> Append(x.entries, [id |-> e.seq, kind |-> e.kind, turn |-> Len(turns), off |-> off]),
      turns   |-> turns,
      pins    |-> CASE e.kind = "pin"   -> Append(x.pins, e.seq)
                    [] e.kind = "unpin" -> Without(x.pins, e.pin)
                    [] OTHER            -> x.pins]

-----------------------------------------------------------------------------
(* Reading a log file back.  A newline ends a line; pieces that share a    *)
(* line, or a piece cut short, are not JSON.                               *)

StartsLine(f, i) == i = 1 \/ f[i - 1].got = "line"

Parses(f, i) == StartsLine(f, i) /\ (f[i].got = "line" \/ (f[i].got = "body" /\ i = Len(f)))

Newlines(f) == {i \in DOMAIN f : f[i].got = "line"}

\* Rejected with a data error: a bad line that is not a torn last
\* one, a first event that is not session_start, or an id out of sequence.
Rejected(f) ==
  \/ \E n \in Newlines(f) : \E i \in 1..n : ~Parses(f, i)
  \/ \E i \in DOMAIN f : Parses(f, i) /\ f[i].ev.seq # i
  \/ f # <<>> /\ Parses(f, 1) /\ f[1].ev.kind # "session_start"

\* The events ReadSessionLog returns of a file it does not reject: with the ids
\* in sequence, event i is the one on the i-th line.
ReadSessionLog(f) == [i \in {j \in DOMAIN f : Parses(f, j)} |-> f[i].ev]

\* BuildSessionIndex: the index of the events read, each at the start of its line.
BuildSessionIndex(f) ==
  LET events == ReadSessionLog(f)
      build[n \in 0..Len(events)] ==
        IF n = 0 THEN EmptyIndex ELSE IndexAdd(build[n - 1], events[n], f[n].at)
  IN build[Len(events)]

-----------------------------------------------------------------------------
LogInit ==
  /\ status = "absent"
  /\ file = <<>> /\ synced = 0
  /\ seq = 0 /\ size = 0
  /\ idx = EmptyIndex
  /\ pending = None
  /\ acked = <<>> /\ errors = 0

\* What becomes of the log when the append of e fails: it is gone if e was to be its
\* first or last event, and may be if e is a note about the first.
AfterFailed(e) ==
  IF e.kind \in {"session_start", "session_end"} THEN {"closed"}
  ELSE IF e.kind = "fault" /\ seq = 1 THEN {"open", "closed"}
  ELSE {"open"}

\* An append that returned an error: nothing it was to record is recorded.
Failed(e) ==
  /\ errors < MaxErrors
  /\ errors' = errors + 1
  /\ status' \in AfterFailed(e)
  /\ UNCHANGED <<seq, size, idx, acked>>

\* l.f.Write of the whole line: all of it, or an error and a part of it.
WriteLine(e) ==
  \/ /\ file' = Written(file, e, "line")
     /\ pending' = e
     /\ status' = "open"
     /\ UNCHANGED <<synced, seq, size, idx, acked, errors>>
  \/ /\ "nowrite" \in Faults
     /\ Failed(e)
     /\ UNCHANGED <<file, synced, pending>>
  \/ /\ "shortwrite" \in Faults
     /\ Failed(e)
     /\ \E got \in {"half", "body"} : file' = Written(file, e, got)
     /\ UNCHANGED <<synced, pending>>

NewEvent(kind, level, pin) == [seq |-> seq + 1, kind |-> kind, level |-> level, pin |-> pin]

\* OpenSessionLog: the file is created, never overwritten, and event 1 written.
Open ==
  /\ status = "absent"
  /\ seq < MaxSeq
  /\ WriteLine(NewEvent("session_start", "info", 0))

CanAppend == status = "open" /\ pending = None /\ seq < MaxSeq

AppendEvent(kind) ==
  /\ CanAppend
  /\ WriteLine(NewEvent(kind, "info", 0))

\* A level-debug event is dropped, without an id, unless the log is a debug one.
AppendDebug ==
  /\ CanAppend
  /\ Debug
  /\ WriteLine(NewEvent("fault", "debug", 0))

AppendUnpin(p) ==
  /\ CanAppend
  /\ \E j \in DOMAIN idx.pins : idx.pins[j] = p
  /\ WriteLine(NewEvent("unpin", "info", p))

\* Close writes session_end; the log is closed whether or not that succeeds.
Close ==
  /\ CanAppend
  /\ WriteLine(NewEvent("session_end", "info", 0))

\* Variant: Append returns with the event still in the page cache.
NotSynced ==
  /\ status = "open" /\ pending # None
  /\ seq' = seq + 1
  /\ idx' = IndexAdd(idx, pending, size)
  /\ size' = size + Lengths["line"]
  /\ acked' = Append(acked, pending)
  /\ status' = IF pending.kind = "session_end" THEN "closed" ELSE "open"
  /\ pending' = None
  /\ UNCHANGED <<file, synced, errors>>

\* l.f.Sync succeeds: the event gets its id, its entry and its place.
Synced ==
  /\ status = "open" /\ pending # None
  /\ synced' = Len(file)
  /\ seq' = seq + 1
  /\ idx' = IndexAdd(idx, pending, size)
  /\ size' = size + Lengths["line"]
  /\ acked' = Append(acked, pending)
  /\ status' = IF pending.kind = "session_end" THEN "closed" ELSE "open"
  /\ pending' = None
  /\ UNCHANGED <<file, errors>>

SyncFails ==
  /\ "nosync" \in Faults
  /\ status = "open" /\ pending # None
  /\ Failed(pending)
  /\ pending' = None
  /\ UNCHANGED <<file, synced>>

\* The machine stops.  What was synced is on the disk; what was not may be
\* there up to any byte.
Crash ==
  /\ status = "open"
  /\ status' = "crashed"
  /\ \E n \in synced..Len(file) :
       \/ file' = SubSeq(file, 1, n)
       \/ /\ n < Len(file)
          /\ \E got \in Parts :
               /\ Lengths[got] < Lengths[file[n + 1].got]
               /\ file' = Append(SubSeq(file, 1, n), [file[n + 1] EXCEPT !.got = got])
  /\ UNCHANGED <<synced, seq, size, idx, pending, acked, errors>>

LogNext ==
  \/ Open \/ Close \/ AppendDebug \/ Synced \/ SyncFails \/ Crash
  \/ \E kind \in {"user_input", "injection", "pin"} : AppendEvent(kind)
  \/ \E p \in 1..seq : AppendUnpin(p)

LogSpec == LogInit /\ [][LogNext]_logVars

-----------------------------------------------------------------------------
(* What the log guarantees.                                                *)

\* TypeOK: every variable has its type.
TypeOK ==
  /\ status \in {"absent", "open", "closed", "crashed"}
  /\ file \in Seq(Piece)
  /\ synced \in 0..Len(file)
  /\ seq \in 0..MaxSeq /\ size \in Nat
  /\ DOMAIN idx = {"entries", "turns", "pins"}
  /\ idx.entries \in Seq([id : 1..MaxSeq, kind : Kinds, turn : 0..MaxSeq, off : Nat])
  /\ idx.turns \in Seq(1..MaxSeq) /\ idx.pins \in Seq(1..MaxSeq)
  /\ pending \in Event \cup {None}
  /\ acked \in Seq(Event)
  /\ errors \in 0..MaxErrors

\* ReaderSeesAcked: at any moment, crashed or not, a reader of the file gets
\* every event an append acknowledged, in order, and at most one more, the one
\* in flight (doc of SessionLog: "a crash loses at most the event in flight").
ReaderSeesAcked ==
  /\ ~Rejected(file)
  /\ ReadSessionLog(file) \in {acked, Append(acked, pending)}

\* Between appends the live index is the one a reader of the file would build, as
\* long as failed appends left nothing in the file.
IndexIsReaders ==
  status # "crashed" /\ pending = None /\ Len(file) = seq => idx = BuildSessionIndex(file)

\* The index lists exactly the pins no later event unpinned, oldest first, and each once.
PinsAreLive ==
  /\ \A p \in 1..Len(acked) :
       (\E j \in DOMAIN idx.pins : idx.pins[j] = p) <=>
         /\ acked[p].kind = "pin"
         /\ \A q \in (p + 1)..Len(acked) : ~(acked[q].kind = "unpin" /\ acked[q].pin = p)
  /\ \A i, j \in DOMAIN idx.pins : i < j => idx.pins[i] < idx.pins[j]

\* LiveIndexAgrees: the index kept while a session is logged is the one that is built
\* from its file, whatever appends failed before, and its pins are those that live
\* (sessionindex.go: "can be rebuilt from the file; the two must agree").
LiveIndexAgrees == IndexIsReaders /\ PinsAreLive

\* A disk that may refuse a write but leaves no part of one.
CleanWrites == Faults \subseteq {"nowrite"}

\* ImplementsDurableLog: the log, its crashes and the errors of the disk included,
\* is the list that only grows that DurableLog specifies: what a reader gets once
\* the log is closed or lost is every acknowledged event and at most one more, or
\* nothing at all, and that only if the disk left a part of a failed write.
Over == status \in {"closed", "crashed"}
Durable == INSTANCE DurableLog WITH
  Reliable <- CleanWrites,
  log   <- IF Over /\ ~Rejected(file) THEN ReadSessionLog(file) ELSE acked,
  state <- CASE Over /\ Rejected(file) -> "refused"
             [] Over /\ ~Rejected(file) /\ status = "closed"  -> "ended"
             [] Over /\ ~Rejected(file) /\ status = "crashed" -> "crashed"
             [] OTHER -> "open"
ImplementsDurableLog == Durable!Spec

AckedRead == \A k \in DOMAIN acked : /\ k \in DOMAIN ReadSessionLog(file)
                                     /\ ReadSessionLog(file)[k] = acked[k]

\* RejectedOrComplete: whatever the disk did, a reader either refuses the file or
\* gets every acknowledged event in its place, never another one in its stead
\* (the checks of ReadSessionLog on lines, ids and sequence).
RejectedOrComplete == ~Rejected(file) => AckedRead

=============================================================================
