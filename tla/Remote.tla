------------------------------- MODULE Remote -------------------------------
(***************************************************************************)
(* Reading a file of another machine, over SFTP or HTTP. The server may    *)
(* send less than it was asked for, refuse, break off, or send what cannot *)
(* be understood; the file may change while it is read. A file of this     *)
(* machine is read at once.                                                *)
(***************************************************************************)
EXTENDS Naturals, Sequences, SequencesExt

CONSTANTS
  URIs, SchemeOf,       \* addresses of files; "sftp", "http", "https", "local", or "s3", refused
  Contents,             \* what a remote file may hold: sequences of bytes
  ChunkSize,            \* what one SFTP request asks for
  MaxHTTPResponse,      \* maxHTTPResponseBytes
  MaxHops,              \* redirects that are followed
  Credentials,          \* addresses a key or password is set for
  ServerKeys, HostKey,  \* what keys the server may show; SFTP_HOST_KEY
  MaxChanges

Schemes == {"sftp", "http", "https", "s3", "local"}

ASSUME RemoteAssumption ==
  /\ SchemeOf \in [URIs -> Schemes]
  /\ ChunkSize \in Nat \ {0} /\ {MaxHTTPResponse, MaxHops, MaxChanges} \subseteq Nat
  /\ Credentials \subseteq URIs /\ Contents \subseteq Seq(0 .. 255)

VARIABLES
  held,    \* what the server holds of the file being read
  fetch    \* how far the reading is; see NoFetch

\* stage: "idle", "dial", "open", "read", "request", "body", "done" or "failed"; mixed: it
\* changed between two answers; class: why it failed.
NoFetch == [stage |-> "idle", uri |-> "none", got |-> <<>>, offset |-> 0, hops |-> 0,
            changes |-> 0, mixed |-> FALSE, class |-> "ok"]

NotFetching == fetch = NoFetch /\ held = <<>>

Stops == fetch' = NoFetch /\ held' = <<>>

Fails(class) ==
  fetch' = [fetch EXCEPT !.stage = "failed", !.class = class, !.got = <<>>, !.offset = 0]

\* No answer, a refusal, or one that cannot be understood; or an answer cut short.
Unanswered == Fails("unavailable") \/ Fails("data")

----------------------------------------------------------------------------
\* NewRemoteReader: what is wrong with the address or the settings is found before
\* anything is sent; the file of a key that is named may be missing.
Starts(u) ==
  /\ fetch.stage = "idle"
  /\ held' \in Contents
  /\ \E stage \in {"dial", "request", "failed", "done"},
         class \in {"ok", "usage", "no_permission", "no_input", "io"} :
       /\ CASE SchemeOf[u] = "sftp" /\ u \in Credentials -> stage = "dial" /\ class = "ok"
            [] SchemeOf[u] = "sftp" /\ u \notin Credentials -> stage = "failed" /\ class \in {"usage", "no_input"}
            [] SchemeOf[u] = "local" ->
                 \/ stage = "done" /\ class = "ok"
                 \/ stage = "failed" /\ class \in {"no_permission", "no_input", "io"}
            [] SchemeOf[u] = "s3" -> stage = "failed" /\ class = "usage"
            [] SchemeOf[u] \in {"http", "https"} -> stage = "request" /\ class = "ok"
       /\ fetch' = [NoFetch EXCEPT !.uri = u, !.stage = stage, !.class = class,
                      !.got = IF stage = "done" THEN held' ELSE <<>>]

\* Each server has one key; any but the one that was set ends it. Then the subsystem and
\* the version are asked for.
Dial ==
  /\ fetch.stage = "dial"
  /\ \/ HostKey \in ServerKeys /\ fetch' = [fetch EXCEPT !.stage = "open"]
     \/ Fails("unavailable")
  /\ UNCHANGED held

\* A handle, or a status, or something else; from here on the file may change under us.
Open ==
  /\ fetch.stage = "open"
  /\ fetch' = [fetch EXCEPT !.stage = "read"] \/ Unanswered
  /\ UNCHANGED held

\* Variant: every answer is taken for a full one.
NextOffsetAsAsked(n) == fetch.offset + ChunkSize

NextOffset(n) == fetch.offset + n

\* One answer to a read: as much as the server likes of what was asked for, the end of
\* the file, or a failure.
Read ==
  /\ fetch.stage = "read"
  /\ \/ \E n \in 1 .. ChunkSize :
          /\ fetch.offset + n <= Len(held)
          /\ fetch' = [fetch EXCEPT !.offset = NextOffset(n),
                         !.got = @ \o SubSeq(held, fetch.offset + 1, fetch.offset + n)]
     \/ fetch.offset >= Len(held) /\ fetch' = [fetch EXCEPT !.stage = "done"]
     \/ Unanswered
  /\ UNCHANGED held

(* HTTP: the answer is a status, or a redirect to another place; the body     *)
(* comes whole, is cut off, or is longer than Harvey takes.                   *)

Request ==
  /\ fetch.stage = "request"
  /\ \/ fetch' = [fetch EXCEPT !.stage = "body"]
     \/ Fails("unavailable")
  /\ UNCHANGED held

\* httpsDowngradeCheck looks at the first request of all.
Redirect(secure) ==
  /\ fetch.stage = "request"
  /\ IF fetch.hops >= MaxHops \/ (SchemeOf[fetch.uri] = "https" /\ ~secure)
     THEN Fails("unavailable")
     ELSE fetch' = [fetch EXCEPT !.hops = @ + 1]
  /\ UNCHANGED held

\* A body of exactly the limit counts as too long: no more than that is read.
TooLong(n) == n = MaxHTTPResponse

\* A body that ends early is an error where its length was given, as it is assumed to be.
Body ==
  /\ fetch.stage = "body"
  /\ LET n == IF Len(held) < MaxHTTPResponse THEN Len(held) ELSE MaxHTTPResponse IN
     \/ ~TooLong(n) /\ fetch' = [fetch EXCEPT !.stage = "done", !.got = SubSeq(held, 1, n)]
     \/ TooLong(n) /\ Fails("unavailable")
     \/ Unanswered
  /\ UNCHANGED held

Fetching == Dial \/ Open \/ Read \/ Request \/ (\E s \in BOOLEAN : Redirect(s)) \/ Body

\* Somebody else writes the file.
RemoteChanges ==
  /\ fetch.stage \in {"dial", "open", "read", "request", "body"} /\ fetch.changes < MaxChanges
  /\ held' \in Contents \ {held}
  /\ fetch' = [fetch EXCEPT !.changes = @ + 1, !.mixed = @ \/ fetch.offset > 0]

----------------------------------------------------------------------------
\* A file that is taken is taken whole, however an SFTP server divides its answers and
\* however long it is, unless it changed between them, which nothing notices (a body over
\* HTTP comes whole by assumption, see Body; of it this says that none is cut at the limit).
FetchedWhole ==
  [][fetch.stage \in {"read", "body"} /\ fetch'.stage = "done" /\ ~fetch.mixed
       => fetch'.got = held]_<<held, fetch>>
=============================================================================
