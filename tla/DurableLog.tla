----------------------------- MODULE DurableLog -----------------------------
(***************************************************************************)
(* What harvey's session log promises its readers, with no file in sight   *)
(* (doc comment of type SessionLog, sessionlog.go): a log is a list that   *)
(* only grows, at its end, one event at a time, until it is ended; and a   *)
(* crash loses at most the event being appended when it struck.            *)
(***************************************************************************)
EXTENDS Sequences

CONSTANTS
  Event,              \* every event that can be logged
  Reliable            \* (a Boolean) the disk leaves nothing of a write that failed

VARIABLES
  log,                \* the events a reader of the log gets
  state               \* "open", "ended", "crashed" or "refused"

vars == <<log, state>>

Init == log = <<>> /\ state = "open"

Record ==
  /\ state = "open"
  /\ UNCHANGED state
  /\ \E e \in Event : log' = Append(log, e)

\* The log is sealed, with a last event or, if that event could not be
\* written, without one.
End ==
  /\ state = "open"
  /\ state' = "ended"
  /\ \/ UNCHANGED log
     \/ \E e \in Event : log' = Append(log, e)

\* The event in flight is in the log or it is not; nothing else changes.
Crash ==
  /\ state = "open"
  /\ state' = "crashed"
  /\ \/ UNCHANGED log
     \/ \E e \in Event : log' = Append(log, e)

\* A disk that is not reliable may leave a log that no reader accepts: it is
\* refused whole, never read as something else.
Refuse ==
  /\ ~Reliable
  /\ state = "open"
  /\ state' = "refused"
  /\ \/ UNCHANGED log
     \/ \E e \in Event : log' = Append(log, e)

Next == Record \/ End \/ Crash \/ Refuse

Spec == Init /\ [][Next]_vars

=============================================================================
