----------------------------- MODULE MCKnowledge -----------------------------
(***************************************************************************)
(* An instance of Knowledge: three bodies of which the second is like both *)
(* others, one document in three parts, of which one may be bare, and one  *)
(* that has no part of its own.                                            *)
(***************************************************************************)
EXTENDS Knowledge, TLC

MCSimilar == {<<"a", "a">>, <<"b", "b">>, <<"c", "c">>,
              <<"a", "b">>, <<"b", "a">>, <<"b", "c">>, <<"c", "b">>}
MCProposals == {<<"a", "b">>, <<"c">>}
MCDocOf == [i \in {"s", "bare", "whole"} |-> "d"]
MCMentions == [d \in {"d", "e"} |-> IF d = "d" THEN {"x", "y"} ELSE {"x"}]
=============================================================================
