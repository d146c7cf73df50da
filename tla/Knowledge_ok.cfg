SPECIFICATION Spec
CONSTANTS
  Bodies = {"a", "b", "c"}
  Similar <- MCSimilar
  Proposals <- MCProposals
  Passes = {2}
  Limits = {0, 1}
  Docs = {"d", "e"}
  Items = {"s", "bare", "whole"}
  DocOf <- MCDocOf
  Gists = {"whole"}
  Blank = {"bare"}
  Fountain = {}
  Texts = {"t", "u"}
  NoText = ""
  Concepts = {"x", "y"}
  Mentions <- MCMentions
  Faults = {"answer", "write", "reply", "ingest", "restore", "accept", "concept", "file", "refused"}
  MaxCommands = 3
  MaxOthers = 1
INVARIANTS DraftsOnce TagsInBothOrNeither
PROPERTIES TrustedWasShown
CHECK_DEADLOCK FALSE
