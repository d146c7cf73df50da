---------------------------- MODULE SessionNames ----------------------------
(***************************************************************************)
(* What the sessions directory promises, with no file in sight: a recorded *)
(* session has one name, no two sessions have the same one, a session may  *)
(* be renamed but never goes away, and what it holds only grows.           *)
(***************************************************************************)
EXTENDS Naturals

CONSTANTS Sessions, Names, NoName

VARIABLES
  called,   \* the name of each session; NoName before it has one
  held      \* how many events its log holds

vars == <<called, held>>

Free(name) == \A s \in Sessions : called[s] # name

Init ==
  /\ called = [s \in Sessions |-> NoName]
  /\ held = [s \in Sessions |-> 0]

Create(s, name) ==
  /\ called[s] = NoName
  /\ Free(name)
  /\ called' = [called EXCEPT ![s] = name]
  /\ UNCHANGED held

Rename(s, name) ==
  /\ called[s] # NoName
  /\ Free(name)
  /\ called' = [called EXCEPT ![s] = name]
  /\ UNCHANGED held

Log(s) ==
  /\ called[s] # NoName
  /\ held' = [held EXCEPT ![s] = @ + 1]
  /\ UNCHANGED called

Next ==
  \E s \in Sessions :
    \/ Log(s)
    \/ \E name \in Names : Create(s, name) \/ Rename(s, name)

Spec == Init /\ [][Next]_vars
=============================================================================
