----------------------------- MODULE MCReadings -----------------------------
(***************************************************************************)
(* Two things that are computed from a list, in one run: what the prompt   *)
(* code makes of a conversation, and what the readers make of a session's  *)
(* log.  A behaviour of the run grows a conversation or writes a log; the  *)
(* other stays as it began.                                                *)
(***************************************************************************)
EXTENDS PromptAlgorithms, SessionReaders

\* In bytes: a line is more than a pass of the smaller windows carries.
MCBytes == [user_input |-> 3000, model_response |-> 520, tool_call |-> 200, kb_call |-> 100, result |-> 400]

ReadingsInit == PromptInit /\ ReadersInit

ReadingsNext ==
  \/ log = <<Event("session_start", "", "", 0, "")>> /\ doing = "prompt" /\ PromptNext /\ UNCHANGED readersVars
  \/ Len(conversation) = 1 /\ rewritten = <<>> /\ allowed = 0 /\ ReadersNext /\ UNCHANGED promptVars

ReadingsSpec == ReadingsInit /\ [][ReadingsNext]_<<promptVars, readersVars>>
=============================================================================
