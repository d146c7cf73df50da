------------------------------ MODULE MCAccess ------------------------------
EXTENDS Access

Line(op, on) == [op |-> op, on |-> on]
In(d, f) == <<d, f>>
A == In("src", "a")
B == <<"b">>
\* src/a as it may be written, too.
Odd == <<".", "doc", "..", "src", "a">>

MCDirectories == {<<>>, <<"src">>}
MCPaths == {A, B}
MCSpellings == {A, B, Odd}
MCReplies == {<<Odd, A>>}
MCSuggested == {B}

MCLines ==
  {Line("safemode off", ""), Line("safemode deny", "ls"), Line("safemode allow", "rm"),
   [op |-> "permissions set", on |-> <<"src">>, rights |-> {"read"}],
   Line("permissions reset", ""),
   Line("alias add", "m"), Line("alias remove", "m"),
   Line("audit clear", ""), Line("run", "rm"), Line("!", "ls"), Line("write", B),
   Line("write", Odd), Line("format", A), Line("git", "log"),
   Line("read", <<A, B>>), Line("read-dir", <<"src">>), Line("safemode on", ""),
   Line("safemode reset", "")}

\* The file may be missing, set rules of its own, also none for the root, or not be
\* understood.
MCEdits == {Blank, Garbled,
            [Blank EXCEPT !.permissions = [q \in {<<>>, <<"src">>} |->
                                             IF q = <<>> THEN AllPermissions ELSE {}],
                          !.allowed = {"rm"}, !.aliases = {"m"}],
            [Blank EXCEPT !.rest = "catalog", !.allowed = {"rm"}],
            [Blank EXCEPT !.rest = "services", !.aliases = {"m"},
                          !.permissions = [q \in {<<"src">>} |-> {"read"}]]}
=============================================================================
