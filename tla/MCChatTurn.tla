---------------------------- MODULE MCChatTurn ----------------------------
(* Instances of ChatTurn for TLC. A setup chooses what the model, the author and *)
(* the program may do in a session, and what is known of the model's window.     *)
EXTENDS ChatTurn

\* A session whose limit fills: the commands between turns and a retry with a file.
Filling ==
  [features |-> {"cantread", "memory", "summary", "clear", "pin", "unpin", "fold"},
   compaction |-> TRUE, limit |-> 8, window |-> 0, maxTurns |-> 3, maxCommands |-> 2]

\* A limit that is not known and a small window: four turns, a read and a switch.
Narrow ==
  [features |-> {"memory", "summary", "switch", "read", "fold"},
   compaction |-> TRUE, limit |-> 0, window |-> 5, maxTurns |-> 4, maxCommands |-> 1]

\* As Filling, the tool results kept whole.
Whole == [Filling EXCEPT !.compaction = FALSE, !.limit = 7, !.maxTurns = 2, !.maxCommands = 1]

\* What goes wrong in a turn.
Faulty ==
  [features |-> {"parallel", "exceeded", "selfedit", "prose", "padded", "shrink", "cantread",
                 "latecancel"},
   compaction |-> TRUE, limit |-> 0, window |-> 5, maxTurns |-> 2, maxCommands |-> 0]

MCDialogSetups == {Filling, Narrow, Whole}
MCFaultySetups == {Faulty}
===========================================================================
