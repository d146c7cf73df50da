------------------------------- MODULE MCRepl -------------------------------
(* Two routes, one of them with the name of a model that the one alias names; a tag; remote *)
(* files.                                                                                  *)
EXTENDS Repl

P == [form |-> "plain"]
C(c) == [form |-> "command", cmd |-> c]
To(n) == Mention(n, P)

MCAliases == [w \in {"fast"} |-> "m1"]
MCTags == [w \in {"code"} |-> "m1"]

MCTyped ==
  {P, [form |-> "shell"], To("pi"), To("fast"), Mention("fast", NoLine), Mention("fast", To("pi")),
   Mention("fast", [form |-> "shell"]), To("code"), Mention("code", To("pi")), To("who"),
   To("m1"), Mention("m1", To("m1")), [form |-> "at"], Mention("fast", [form |-> "at"]),
   C([op |-> "add", name |-> "pi", url |-> "u1", model |-> Unnamed]),
   C([op |-> "add", name |-> "pi", url |-> "ssh:", model |-> Unnamed]),
   C([op |-> "add", name |-> "m1", url |-> "u1", model |-> Unnamed]),
   C([op |-> "rm", name |-> "pi"]),
   C([op |-> "set", name |-> "pi", on |-> TRUE]),
   C([op |-> "on", on |-> TRUE]), C([op |-> "off", on |-> FALSE]),
   C([op |-> "use", name |-> "pi"]), C([op |-> "use", name |-> "m1"]), C([op |-> "use", name |-> Unnamed]),
   C([op |-> "read", uris |-> <<"sftp:a", "s3:c">>]), C([op |-> "read", uris |-> <<"sftp:e", "d">>]),
   C([op |-> "attach", uris |-> <<"http:b">>]), C([op |-> "exit"])}

MCSchemeOf == [u \in {"sftp:a", "sftp:e", "http:b", "s3:c", "d"} |->
  CASE u \in {"sftp:a", "sftp:e"} -> "sftp" [] u = "http:b" -> "https" [] u = "s3:c" -> "s3" [] OTHER -> "local"]

MCContents == {<<1>>, <<2, 3, 4>>}

MCRouteFiles ==
  {[text |-> "none", enabled |-> FALSE, endpoints |-> Empty],
   [text |-> "good", enabled |-> TRUE,
    endpoints |-> [Empty EXCEPT !["pi"] = [url |-> "u1", model |-> "m2", tools |-> TRUE]]],
   [text |-> "good", enabled |-> TRUE, endpoints |-> [Empty EXCEPT !["pi"] = Removed]]}
=============================================================================
