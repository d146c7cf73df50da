--------------------------- MODULE MCTurnContext ---------------------------
(* Small and large files, one of them too large for the window, and memories that *)
(* are more than their share.                                                    *)
EXTENDS TurnContext, TLC

Para(n, closes) == [bytes |-> n, closes |-> closes]
Doc(source, paragraphs) == [source |-> source, paragraphs |-> paragraphs]
None == Doc(FALSE, <<>>)

MCFiles ==
  [f \in {"a", "b", "large", "prose", "code", "gone", "binary"} |->
    CASE f = "a" -> File(3, "text", None)
      [] f = "b" -> File(2, "text", None)
      [] f = "large" -> File(9, "text", Doc(FALSE, <<Para(3, FALSE), Para(9, FALSE), Para(2, FALSE), Para(8, FALSE)>>))
      [] f = "prose" -> File(19, "text", Doc(FALSE, <<Para(9, FALSE), Para(2, FALSE), Para(3, FALSE), Para(1, FALSE), Para(4, FALSE)>>))
      [] f = "code" -> File(20, "text", Doc(TRUE, <<Para(4, TRUE), Para(4, FALSE), Para(2, TRUE), Para(5, FALSE), Para(1, FALSE)>>))
      [] f = "gone" -> File(1, "missing", None)
      [] OTHER -> File(1, "other", None)]

MCPrompts ==
  {<<>>, <<"a", "gone", "b", "a">>, <<"a", "large", "b">>, <<"large", "b", "a">>, <<"b", "prose">>,
   <<"code", "a">>, <<"binary", "large">>}

M(id, type, tokens) == [id |-> id, type |-> type, tokens |-> tokens]

MCStores ==
  LET f == M("f", "fact", 1) g == M("g", "fact", 2) e == M("e", "lesson", 1) d == M("d", "lesson", 2)
      c == M("c", "lesson", 1)
  IN  {[facts |-> <<>>, words |-> <<e, d>>, alike |-> <<d, c, e>>],
       [facts |-> <<f, g>>, words |-> <<g, e>>, alike |-> <<e, f, c>>],
       [facts |-> <<g, M("h", "fact", 4), f>>, words |-> <<>>, alike |-> <<e>>]}

\* kb may be missing, have rows nobody reviewed, or a row of a kind unknown here.
MCKBs ==
  LET row(id, kind, tokens, text, retracted) ==
        [id |-> id, type |-> "kb", kind |-> kind, tokens |-> tokens, text |-> text, retracted |-> retracted]
      answered(rows) == [status |-> "answered", rows |-> rows]
      none == [status |-> "negative", rows |-> <<>>]
      failed == [status |-> "unavailable", rows |-> <<>>]
      cited == row("record:1", "record", 1, TRUE, "yes")
      drafted == row("document:2", "document_gist", 0, FALSE, "no")
      newer == row("thing:3", "thing", 1, TRUE, "no")
      o(i, n, text) == row("observation:" \o ToString(i), "observation", n, text, "no")
      kb(concepts, project, observations) ==
        [concepts |-> concepts, project |-> project, observations |-> observations]
  IN  {kb(failed, TRUE, none),
       kb(answered(<<drafted, cited, newer, o(1, 1, TRUE)>>), TRUE, none),
       kb(answered(<<drafted>>), TRUE, answered(<<o(1, 1, TRUE), o(2, 2, FALSE), o(3, 2, TRUE), o(4, 1, TRUE)>>)),
       kb(none, TRUE, failed), kb(none, FALSE, none)}

MCNamedModels == {[name |-> "granite", found |-> "lent"], [name |-> "pi", found |-> "route"]}
=============================================================================
