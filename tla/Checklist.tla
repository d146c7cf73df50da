----------------------------- MODULE Checklist -----------------------------
(***************************************************************************)
(* What /plan promises of a plan: it is written or removed at any time; a  *)
(* step is begun from the plan as it is then, and when it has run to its   *)
(* end that plan is written with its first open step, and no other, marked *)
(* done. A write that breaks off leaves the beginning of what it writes.   *)
(***************************************************************************)
EXTENDS Naturals, Sequences

CONSTANTS
  Plans,   \* what may be written: sequences of [title, done]
  Pieces   \* what a title cut short may read

VARIABLES
  steps,   \* the plan; <<>> when there is none
  read,    \* the plan as the step under way found it; <<>> when none is
  clean    \* the step has run, with no failed call in sight

vars == <<steps, read, clean>>

Init == steps = <<>> /\ read = <<>> /\ clean = FALSE

IsFirstOpen(p, i) ==
  i \in DOMAIN p /\ ~p[i].done /\ \A j \in 1 .. i - 1 : p[j].done

Beginnings(p) ==
  {SubSeq(p, 1, n) : n \in 0 .. Len(p)} \cup
  UNION {{Append(SubSeq(p, 1, n - 1), step) : step \in [title : Pieces, done : {p[n].done}]} :
           n \in DOMAIN p}

Write(p) == steps' \in Beginnings(p) /\ UNCHANGED <<read, clean>>

Begin ==
  /\ read = <<>> /\ \E i \in DOMAIN steps : ~steps[i].done
  /\ read' = steps
  /\ UNCHANGED <<steps, clean>>

Run == read # <<>> /\ clean' = TRUE /\ UNCHANGED <<steps, read>>

MarkDone ==
  /\ clean
  /\ \E i \in DOMAIN read :
       IsFirstOpen(read, i) /\ steps' \in Beginnings([read EXCEPT ![i].done = TRUE])
  /\ read' = <<>> /\ clean' = FALSE

GiveUp == read' = <<>> /\ clean' = FALSE /\ UNCHANGED steps

Next == (\E p \in Plans \cup {<<>>} : Write(p)) \/ Begin \/ Run \/ MarkDone \/ GiveUp

Spec == Init /\ [][Next]_vars
=============================================================================
