------------------------------- MODULE Dialog -------------------------------
(***************************************************************************)
(* What the conversation promises, seen from outside: a list of questions, *)
(* each with the reply it got.  A turn that gets a reply adds both at the   *)
(* end; a turn that does not adds nothing; the conversation forgets only   *)
(* its oldest exchanges.                                                   *)
(***************************************************************************)
EXTENDS Integers, Sequences

CONSTANTS Line, Answer

VARIABLE dialog

\* The first of each pair is the question, the second its reply.
TypeOK == dialog \in Seq(Line \X Answer)

Init == dialog = <<>>

Newest(d, n) == SubSeq(d, Len(d) - n + 1, Len(d))

\* A turn ends with a reply; older exchanges may be summarised then.
Exchange ==
  \E n \in 0 .. Len(dialog) :
    /\ Len(dialog') = n + 1
    /\ SubSeq(dialog', 1, n) = Newest(dialog, n)
    /\ dialog'[n + 1] \in Line \X Answer

\* Exchanges are left out to fit a limit, or the conversation is cleared.
Forget == \E n \in 0 .. Len(dialog) : dialog' = Newest(dialog, n)

Next == Exchange \/ Forget

Spec == Init /\ [][Next]_dialog

=============================================================================
