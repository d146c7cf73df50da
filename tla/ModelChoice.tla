----------------------------- MODULE ModelChoice -----------------------------
(***************************************************************************)
(* What selecting models promises: one model is in use; only choosing      *)
(* another changes it; a step may be lent another model, inside a step     *)
(* another, and each gives back what was in use before it.                 *)
(***************************************************************************)
EXTENDS Naturals, Sequences

CONSTANTS Picks, None, Depth

VARIABLES
  inUse,   \* the model in use; None before the first
  kept     \* what was in use before each step under way, the innermost last

vars == <<inUse, kept>>

Init == inUse = None /\ kept = <<>>

Choose(c) == kept = <<>> /\ inUse' = c /\ UNCHANGED kept

Lend(c) ==
  /\ inUse # None /\ Len(kept) < Depth
  /\ kept' = Append(kept, inUse)
  /\ inUse' = c

GiveBack ==
  /\ kept # <<>>
  /\ inUse' = kept[Len(kept)]
  /\ kept' = SubSeq(kept, 1, Len(kept) - 1)

Restart == inUse' = None /\ kept' = <<>>

Next == (\E c \in Picks : Choose(c) \/ Lend(c)) \/ GiveBack \/ Restart

Spec == Init /\ [][Next]_vars
=============================================================================
