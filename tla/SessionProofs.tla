---------------------------- MODULE SessionProofs ----------------------------
(***************************************************************************)
(* Proofs about a session's lines and about what is read of it afterwards. *)
(*                                                                         *)
(* About Repl, for every set of lines, routes, aliases and remote files:   *)
(* what is addressed to a route goes there or nowhere, saved routes are    *)
(* read back, a script's status is that of the first failure that counts,  *)
(* and a remote file is taken whole.                                       *)
(*                                                                         *)
(* About SessionReaders, for every length of a log and of its texts and    *)
(* every window of a drafter: the passes of a transcript carry every turn  *)
(* whole and in order, fit, and are as few as can be; and the turns a      *)
(* session is continued from are those of its conversation.                *)
(***************************************************************************)
EXTENDS Repl, SessionReaders, SequenceTheorems, WellFoundedInduction, TLAPS

Classes == {"ok", "usage", "negative", "io", "unavailable", "data", "no_permission", "no_input"}

-----------------------------------------------------------------------------
(* Routes.                                                                 *)

Registry == [enabled : BOOLEAN, endpoints : [RouteNames -> Endpoints \cup {NoRoute}]]
RouteFile == [text : {"good", "none", "garbled"}, enabled : BOOLEAN, endpoints : [RouteNames -> Filed]]

\* The registry never holds a route of a removed kind, so writing and reading it back
\* gives the same registry.
RoutesInv == routes \in Registry /\ file \in RouteFile /\ RoutesReadBack

LEMMA LoadedIsRegistry ==
  ASSUME NEW f \in RouteFile
  PROVE  LoadRouteConfig(f) \in Registry
BY DEF LoadRouteConfig, Registry, RouteFile, Filed, Empty

LEMMA SavedIsRead ==
  ASSUME NEW r \in Registry
  PROVE  RouteConfig(r) \in RouteFile /\ LoadRouteConfig(RouteConfig(r)) = r
<1> DEFINE e == r.endpoints
           back == [n \in RouteNames |-> IF e[n] = Removed THEN NoRoute ELSE e[n]]
<1>1. e \in [RouteNames -> Endpoints \cup {NoRoute}] /\ r = [enabled |-> r.enabled, endpoints |-> e]
        /\ r.enabled \in BOOLEAN
  BY DEF Registry
<1>2. \A n \in RouteNames : back[n] = e[n]
  BY <1>1, RoutesAssumption
<1>3. back = e
  BY <1>1, <1>2
<1>4. RouteConfig(r) \in RouteFile
  BY <1>1 DEF RouteConfig, RouteFile, Filed
<1>5. LoadRouteConfig(RouteConfig(r)) = [enabled |-> r.enabled, endpoints |-> back]
  BY DEF LoadRouteConfig, RouteConfig
<1> QED
  BY <1>1, <1>3, <1>4, <1>5

LEMMA SaveKeeps ==
  ASSUME RoutesInv, routes' \in Registry, NEW ok \in BOOLEAN, SaveRouteConfig(ok)
  PROVE  RoutesInv'
<1>1. CASE file' = RouteConfig(routes') /\ behind' = FALSE
  BY <1>1, SavedIsRead DEF RoutesInv, RoutesReadBack
<1>2. CASE file' = file /\ behind' = TRUE
  BY <1>2 DEF RoutesInv, RoutesReadBack
<1>3. CASE file' = [file EXCEPT !.text = "garbled"] /\ behind' = TRUE
  <2>1. file' \in RouteFile
    BY <1>3 DEF RoutesInv, RouteFile
  <2> QED
    BY <1>3, <2>1 DEF RoutesInv, RoutesReadBack
<1> QED
  BY <1>1, <1>2, <1>3 DEF SaveRouteConfig

LEMMA RegistersKeeps ==
  ASSUME RoutesInv, NEW r \in Registry, NEW class, Registers(r, class)
  PROVE  RoutesInv'
BY SaveKeeps DEF Registers

LEMMA UnchangedKeeps ==
  ASSUME RoutesInv, UNCHANGED <<routes, file, behind>>
  PROVE  RoutesInv'
BY DEF RoutesInv, RoutesReadBack

\* Every /route command leaves the registry one that can be written and read back.
LEMMA CommandKeepsRoutes ==
  ASSUME RoutesInv, NEW c, Parsed(c), NEW class, CmdRoute(c, class)
  PROVE  RoutesInv'
<1> DEFINE with(e) == [routes EXCEPT !.endpoints[c.name] = e]
<1>1. ASSUME NEW e \in Endpoints \cup {NoRoute}, c.name \in RouteNames
      PROVE  with(e) \in Registry
  BY <1>1 DEF RoutesInv, Registry
<1>2. CASE c.op = "add" /\ RouteAdd(c, class)
  <2>1. CASE c.url \in BadURLs
    BY <1>2, <2>1, UnchangedKeeps DEF RouteAdd, Unchanged, routing
  <2>2. CASE c.url \notin BadURLs
    <3>1. [url |-> c.url, model |-> c.model, tools |-> FALSE] \in Endpoints /\ c.name \in RouteNames
      BY <1>2, <2>2 DEF Parsed, Endpoints
    <3> QED
      BY <1>1, <1>2, <2>2, <3>1, RegistersKeeps DEF RouteAdd
  <2> QED
    BY <2>1, <2>2
<1>3. CASE c.op = "rm" /\ RouteRemove(c, class)
  <2>1. CASE Known(c.name)
    BY <1>1, <1>3, <2>1, RegistersKeeps DEF RouteRemove, Known
  <2>2. CASE ~Known(c.name)
    BY <1>3, <2>2, UnchangedKeeps DEF RouteRemove, Unchanged, routing
  <2> QED
    BY <2>1, <2>2
<1>4. CASE c.op = "set" /\ RouteSet(c, class)
  <2>1. CASE Known(c.name)
    <3> DEFINE r == [routes EXCEPT !.endpoints[c.name].tools = c.on]
    <3>1. c.name \in RouteNames /\ routes.endpoints[c.name] \in Endpoints /\ c.on \in BOOLEAN
      BY <1>4, <2>1 DEF Known, Lookup, RoutesInv, Registry, Parsed
    <3>2. [routes.endpoints[c.name] EXCEPT !.tools = c.on] \in Endpoints
      BY <3>1 DEF Endpoints
    <3>3. r = with([routes.endpoints[c.name] EXCEPT !.tools = c.on])
      BY <3>1 DEF RoutesInv, Registry
    <3>4. r \in Registry
      BY <1>1, <3>1, <3>2, <3>3
    <3> QED
      BY <1>4, <2>1, <3>4, RegistersKeeps DEF RouteSet
  <2>2. CASE ~Known(c.name)
    BY <1>4, <2>2, UnchangedKeeps DEF RouteSet, Unchanged, routing
  <2> QED
    BY <2>1, <2>2
<1>5. CASE c.op \in {"on", "off"} /\ RouteOnOff(c, class)
  <2>1. [routes EXCEPT !.enabled = c.on] \in Registry
    BY <1>5 DEF Parsed, RoutesInv, Registry
  <2> QED
    BY <1>5, <2>1, RegistersKeeps DEF RouteOnOff
<1>6. CASE c.op = "use" /\ RouteUse(c, class)
  BY <1>6, UnchangedKeeps DEF RouteUse, Unchanged, routing
<1> QED
  BY <1>2, <1>3, <1>4, <1>5, <1>6 DEF CmdRoute

-----------------------------------------------------------------------------
(* Remote files.                                                           *)

Byte == 0 .. 255
Stages == {"idle", "dial", "open", "read", "request", "body", "done", "failed"}
Fetches == [stage : Stages, uri : URIs \cup {"none"}, got : Seq(Byte), offset : Nat, hops : Nat,
            changes : Nat, mixed : BOOLEAN, class : Classes]

\* Nothing is taken before the reading starts; what was taken since is the beginning of
\* the file, unless the file changed under it.
SoFar(f, h) ==
  /\ f.stage \in {"dial", "open", "request", "body"} => f.offset = 0 /\ f.got = <<>>
  /\ f.stage = "read" /\ ~f.mixed => f.offset <= Len(h) /\ f.got = SubSeq(h, 1, f.offset)

FetchInv == held \in Seq(Byte) /\ fetch \in Fetches /\ SoFar(fetch, held)

LEMMA NoFetchIsFetch == NoFetch \in Fetches /\ SoFar(NoFetch, <<>>) /\ <<>> \in Seq(Byte)
<1>1. <<>> \in Seq(Byte)
  OBVIOUS
<1> QED
  BY <1>1 DEF NoFetch, Fetches, Stages, Classes, SoFar

LEMMA StopsFetch == ASSUME Stops PROVE FetchInv'
BY NoFetchIsFetch DEF Stops, FetchInv

LEMMA FailsFetch ==
  ASSUME FetchInv, NEW class \in Classes, Fails(class), UNCHANGED held
  PROVE  FetchInv'
<1>1. <<>> \in Seq(Byte)
  OBVIOUS
<1>2. fetch' \in Fetches /\ fetch'.stage = "failed"
  BY <1>1 DEF FetchInv, Fails, Fetches, Stages
<1> QED
  BY <1>2 DEF FetchInv, SoFar

LEMMA StartsFetch ==
  ASSUME NEW u \in URIs, Starts(u)
  PROVE  FetchInv'
<1>1. held' \in Seq(Byte)
  BY RemoteAssumption DEF Starts, Byte
<1>2. PICK stage \in {"dial", "request", "failed", "done"},
           class \in {"ok", "usage", "no_permission", "no_input", "io"} :
        fetch' = [NoFetch EXCEPT !.uri = u, !.stage = stage, !.class = class,
                    !.got = IF stage = "done" THEN held' ELSE <<>>]
  BY DEF Starts
<1>3. <<>> \in Seq(Byte)
  OBVIOUS
<1>4. fetch' = [stage |-> stage, uri |-> u, got |-> IF stage = "done" THEN held' ELSE <<>>,
                offset |-> 0, hops |-> 0, changes |-> 0, mixed |-> FALSE, class |-> class]
  BY <1>2 DEF NoFetch
<1>5. fetch' \in Fetches
  BY <1>1, <1>3, <1>4 DEF Fetches, Stages, Classes
<1> QED
  BY <1>1, <1>4, <1>5 DEF FetchInv, SoFar

\* An answer adds what follows in the file to what was taken.
LEMMA AnswerAdds ==
  ASSUME NEW h \in Seq(Byte), NEW o \in Nat, NEW n \in Nat \ {0}, o + n <= Len(h)
  PROVE  /\ SubSeq(h, 1, o) \o SubSeq(h, o + 1, o + n) = SubSeq(h, 1, o + n)
         /\ SubSeq(h, o + 1, o + n) \in Seq(Byte)
<1>1. Len(h) \in Nat /\ \A i \in 1 .. Len(h) : h[i] \in Byte
  BY LenProperties
<1>2. 1 \in 1 .. Len(h) + 1 /\ o \in 1 - 1 .. Len(h) /\ o + n \in o .. Len(h)
  BY <1>1
<1>3. SubSeq(h, 1, o) \o SubSeq(h, o + 1, o + n) = SubSeq(h, 1, o + n)
  BY <1>2, ConcatAdjacentSubSeq
<1>4. \A i \in o + 1 .. o + n : h[i] \in Byte
  BY <1>1
<1>5. SubSeq(h, o + 1, o + n) \in Seq(Byte)
  BY <1>4, SubSeqProperties
<1> QED
  BY <1>3, <1>5

LEMMA ReadFetch ==
  ASSUME FetchInv, Read
  PROVE  FetchInv'
<1>1. CASE \E n \in 1 .. ChunkSize :
             /\ fetch.offset + n <= Len(held)
             /\ fetch' = [fetch EXCEPT !.offset = NextOffset(n),
                            !.got = @ \o SubSeq(held, fetch.offset + 1, fetch.offset + n)]
  <2>1. PICK n \in 1 .. ChunkSize :
          /\ fetch.offset + n <= Len(held)
          /\ fetch' = [fetch EXCEPT !.offset = fetch.offset + n,
                         !.got = fetch.got \o SubSeq(held, fetch.offset + 1, fetch.offset + n)]
    BY <1>1 DEF NextOffset, FetchInv, Fetches
  <2> DEFINE more == SubSeq(held, fetch.offset + 1, fetch.offset + n)
             one == [fetch EXCEPT !.offset = fetch.offset + n]
  <2>2. n \in Nat \ {0} /\ fetch.offset \in Nat /\ fetch.got \in Seq(Byte) /\ held \in Seq(Byte)
    BY RemoteAssumption DEF FetchInv, Fetches
  <2>3. SubSeq(held, 1, fetch.offset) \o more = SubSeq(held, 1, fetch.offset + n) /\ more \in Seq(Byte)
    BY <2>1, <2>2, AnswerAdds
  <2>4. fetch.got \o more \in Seq(Byte)
    BY <2>2, <2>3, ConcatProperties
  <2>5. fetch' = [one EXCEPT !.got = fetch.got \o more]
    BY <2>1 DEF FetchInv, Fetches
  <2>6. one \in Fetches /\ one.offset = fetch.offset + n /\ one.stage = fetch.stage /\ one.mixed = fetch.mixed
    BY SMTT(30), <2>2 DEF FetchInv, Fetches
  <2> HIDE DEF one, more
  <2>7. /\ fetch' \in Fetches /\ fetch'.offset = fetch.offset + n /\ fetch'.got = fetch.got \o more
        /\ fetch'.stage = "read" /\ fetch'.mixed = fetch.mixed
    BY <2>4, <2>5, <2>6 DEF Fetches, Read
  <2>8. held' = held
    BY DEF Read
  <2>9. SoFar(fetch', held')
    BY <2>1, <2>3, <2>7, <2>8 DEF SoFar, FetchInv, Read
  <2> QED
    BY <2>2, <2>7, <2>8, <2>9 DEF FetchInv
<1>2. CASE fetch' = [fetch EXCEPT !.stage = "done"]
  <2>1. fetch' \in Fetches /\ fetch'.stage = "done"
    BY <1>2 DEF FetchInv, Fetches, Stages
  <2> QED
    BY <2>1 DEF FetchInv, SoFar, Read
<1>3. CASE Unanswered
  BY <1>3, FailsFetch DEF Unanswered, Read, Classes
<1> QED
  BY <1>1, <1>2, <1>3 DEF Read

LEMMA BodyFetch ==
  ASSUME FetchInv, Body
  PROVE  FetchInv'
<1> DEFINE n == IF Len(held) < MaxHTTPResponse THEN Len(held) ELSE MaxHTTPResponse
<1>1. CASE fetch' = [fetch EXCEPT !.stage = "done", !.got = SubSeq(held, 1, n)]
  <2>1. held \in Seq(Byte) /\ Len(held) \in Nat /\ n \in Nat /\ n <= Len(held)
    BY RemoteAssumption, LenProperties DEF FetchInv
  <2>2. \A i \in 1 .. n : held[i] \in Byte
    BY <2>1, LenProperties
  <2>3. SubSeq(held, 1, n) \in Seq(Byte)
    BY <2>1, <2>2, SubSeqProperties
  <2> HIDE DEF n
  <2>4. fetch' \in Fetches /\ fetch'.stage = "done"
    BY <1>1, <2>3 DEF FetchInv, Fetches, Stages
  <2> QED
    BY <2>1, <2>4 DEF FetchInv, SoFar, Body
<1>2. CASE Fails("unavailable") \/ Unanswered
  BY <1>2, FailsFetch DEF Unanswered, Body, Classes
<1> QED
  BY <1>1, <1>2 DEF Body

LEMMA FetchingFetch ==
  ASSUME FetchInv, Fetching
  PROVE  FetchInv'
<1>1. CASE Dial \/ Open \/ Request
  <2>1. CASE \E stage \in {"open", "read", "body"} :
               /\ fetch' = [fetch EXCEPT !.stage = stage]
               /\ fetch.stage \in {"dial", "open", "request"}
               /\ UNCHANGED held
    <3>1. PICK stage \in {"open", "read", "body"} : fetch' = [fetch EXCEPT !.stage = stage]
      BY <2>1
    <3>2. fetch' \in Fetches /\ fetch'.stage = stage /\ fetch'.offset = 0 /\ fetch'.got = <<>>
      BY <2>1, <3>1 DEF FetchInv, Fetches, Stages, SoFar
    <3>3. Len(held) \in Nat /\ SubSeq(held, 1, 0) = <<>>
      BY LenProperties, SubSeqEmpty DEF FetchInv
    <3>4. held' = held
      BY <2>1
    <3>5. fetch'.offset <= Len(held')
      BY <3>2, <3>3, <3>4
    <3>6. fetch'.got = SubSeq(held', 1, fetch'.offset)
      BY <3>2, <3>3, <3>4, Zenon
    <3>7. SoFar(fetch', held')
      BY <3>2, <3>5, <3>6 DEF SoFar
    <3> QED
      BY <2>1, <3>2, <3>7 DEF FetchInv
  <2>2. CASE (Fails("unavailable") \/ Unanswered) /\ UNCHANGED held
    BY <2>2, FailsFetch DEF Unanswered, Classes
  <2> QED
    BY <1>1, <2>1, <2>2 DEF Dial, Open, Request
<1>2. CASE \E s \in BOOLEAN : Redirect(s)
  <2>1. CASE fetch' = [fetch EXCEPT !.hops = @ + 1] /\ UNCHANGED held
    <3>0. fetch \in Fetches /\ fetch.hops + 1 \in Nat
      BY DEF FetchInv, Fetches
    <3>1. fetch' \in Fetches /\ fetch'.stage = fetch.stage /\ fetch'.offset = fetch.offset
            /\ fetch'.got = fetch.got /\ fetch'.mixed = fetch.mixed
      BY <2>1, <3>0 DEF Fetches
    <3>2. held' = held /\ SoFar(fetch, held)
      BY <2>1 DEF FetchInv
    <3>3. SoFar(fetch', held')
      BY <3>1, <3>2 DEF SoFar
    <3> QED
      BY <3>1, <3>2, <3>3 DEF FetchInv
  <2>2. CASE Fails("unavailable") /\ UNCHANGED held
    BY <2>2, FailsFetch DEF Classes
  <2> QED
    BY <1>2, <2>1, <2>2 DEF Redirect
<1> QED
  BY <1>1, <1>2, ReadFetch, BodyFetch DEF Fetching

LEMMA ChangesFetch ==
  ASSUME FetchInv, RemoteChanges
  PROVE  FetchInv'
<1>1. held' \in Seq(Byte) /\ Len(held') \in Nat
  BY RemoteAssumption, LenProperties DEF RemoteChanges, Byte
<1> DEFINE one == [fetch EXCEPT !.changes = fetch.changes + 1]
           m == fetch.mixed \/ fetch.offset > 0
<1>2. fetch' = [one EXCEPT !.mixed = m]
  BY DEF RemoteChanges, FetchInv, Fetches
<1>3. one \in Fetches /\ one.stage = fetch.stage /\ one.offset = fetch.offset /\ one.got = fetch.got
  BY DEF FetchInv, Fetches
<1>4. m \in BOOLEAN /\ (~m => ~fetch.mixed /\ fetch.offset = 0)
  BY DEF FetchInv, Fetches
<1> HIDE DEF one, m
<1>5. /\ fetch' \in Fetches /\ fetch'.stage = fetch.stage /\ fetch'.offset = fetch.offset
      /\ fetch'.got = fetch.got /\ fetch'.mixed = m
  BY <1>2, <1>3, <1>4 DEF Fetches
<1>6. SubSeq(held, 1, 0) = <<>> /\ SubSeq(held', 1, 0) = <<>>
  BY SubSeqEmpty
<1> QED
  BY <1>1, <1>4, <1>5, <1>6 DEF FetchInv, SoFar

\* What is taken is what the server holds.
LEMMA TakenWhole ==
  ASSUME FetchInv, Fetching
  PROVE  fetch.stage \in {"read", "body"} /\ fetch'.stage = "done" /\ ~fetch.mixed => fetch'.got = held
<1> SUFFICES ASSUME fetch.stage \in {"read", "body"}, fetch'.stage = "done", ~fetch.mixed
             PROVE  fetch'.got = held
  OBVIOUS
<1>1. held \in Seq(Byte) /\ Len(held) \in Nat /\ SubSeq(held, 1, Len(held)) = held
  BY LenProperties, SubSeqFull DEF FetchInv
<1>2. ~Fails("unavailable") /\ ~Unanswered
  <2>1. \A class : Fails(class) => fetch'.stage = "failed"
    BY DEF Fails, FetchInv, Fetches
  <2> QED
    BY <2>1 DEF Unanswered
<1>3. CASE fetch.stage = "read"
  <2>1. Read
    BY <1>3 DEF Fetching, Dial, Open, Request, Redirect, Body
  <2>2. fetch.offset >= Len(held) /\ fetch' = [fetch EXCEPT !.stage = "done"]
    <3>1. ASSUME NEW o, NEW g, fetch' = [fetch EXCEPT !.offset = o, !.got = g]
          PROVE  FALSE
      BY <1>3, <3>1 DEF FetchInv, Fetches
    <3> QED
      BY <1>2, <2>1, <3>1 DEF Read
  <2>3. fetch.offset = Len(held) /\ fetch.got = SubSeq(held, 1, fetch.offset)
    BY <1>1, <1>3, <2>2 DEF FetchInv, Fetches, SoFar
  <2>4. fetch'.got = fetch.got
    BY <2>2 DEF FetchInv, Fetches
  <2> QED
    BY <1>1, <2>3, <2>4
<1>4. CASE fetch.stage = "body"
  <2>1. Body
    BY <1>4 DEF Fetching, Dial, Open, Request, Redirect, Read
  <2> DEFINE n == IF Len(held) < MaxHTTPResponse THEN Len(held) ELSE MaxHTTPResponse
  <2>2. ~TooLong(n) /\ fetch' = [fetch EXCEPT !.stage = "done", !.got = SubSeq(held, 1, n)]
    BY <1>2, <2>1 DEF Body
  <2>3. n = Len(held)
    BY <1>1, <2>2, RemoteAssumption DEF TooLong
  <2>4. fetch'.got = SubSeq(held, 1, n)
    BY <2>2 DEF FetchInv, Fetches
  <2> QED
    BY <1>1, <2>3, <2>4
<1> QED
  BY <1>3, <1>4

-----------------------------------------------------------------------------
(* The status.                                                             *)

Handlers == {"switch", "route", "name", "turn", "shell", "command"}
Counts == {"command", "turn", "switch"}
Failure == [by : Handlers, class : Classes \ {"ok"}]
Sessions == [interactive : BOOLEAN, status : Classes, failures : Seq(Failure), lines : Nat, starts : Nat]

\* The places of the failures that count.
Counted(fs) == {k \in DOMAIN fs : fs[k].by \in Counts}

\* First is the least of them, if there is any; of infinitely many nothing is said, so that
\* it exists is part of the invariant.
IsFirst(k, fs) == k \in Counted(fs) /\ \A j \in Counted(fs) : k <= j

\* The status is the class of the first failure that counts.
SessionInv ==
  /\ session \in Sessions
  /\ Counted(session.failures) = {} \/ session.interactive => session.status = "ok"
  /\ Counted(session.failures) # {} => \E k \in Nat :
       /\ IsFirst(k, session.failures)
       /\ ~session.interactive => session.status = session.failures[k].class

LEMMA LeastIsMin ==
  ASSUME NEW S, S \subseteq Nat, NEW m \in S, \A k \in S : m <= k
  PROVE  Min(S) = m
<1> DEFINE c == CHOOSE x \in S : \A y \in S : x <= y
<1>1. c \in S /\ \A y \in S : c <= y
  OBVIOUS
<1>2. c <= m /\ m <= c /\ c \in Nat /\ m \in Nat
  BY <1>1
<1>3. c = m
  BY <1>2
<1> QED
  BY <1>3 DEF Min

LEMMA SessionInvIsStatus == SessionInv => StatusIsFirst
<1> SUFFICES ASSUME SessionInv PROVE StatusIsFirst
  OBVIOUS
<1> DEFINE fs == session.failures
<1>1. fs \in Seq(Failure) /\ DOMAIN fs \subseteq Nat
  BY LenProperties DEF SessionInv, Sessions
<1>2. FirstOf(Counts) = IF session.interactive \/ Counted(fs) = {} THEN "ok" ELSE fs[Min(Counted(fs))].class
  BY DEF FirstOf, Counted
<1>3. session.status = FirstOf(Counts)
  <2>1. CASE session.interactive \/ Counted(fs) = {}
    BY <1>2, <2>1 DEF SessionInv
  <2>2. CASE ~session.interactive /\ Counted(fs) # {}
    <3>1. PICK k \in Nat : IsFirst(k, fs) /\ session.status = fs[k].class
      BY <2>2 DEF SessionInv
    <3>2. Counted(fs) \subseteq Nat
      BY <1>1 DEF Counted
    <3>3. Min(Counted(fs)) = k
      BY <3>1, <3>2, LeastIsMin DEF IsFirst
    <3> QED
      BY <1>2, <2>2, <3>1, <3>3
  <2> QED
    BY <2>1, <2>2
<1> QED
  BY <1>3 DEF StatusIsFirst, Counts

\* A new session, after any number of lines and starts.
LEMMA NewSession ==
  ASSUME NEW i \in BOOLEAN, NEW l \in Nat, NEW s \in Nat
  PROVE  LET n == Session(i, l, s) IN
         n \in Sessions /\ n.status = "ok" /\ Counted(n.failures) = {}
<1>1. <<>> \in Seq(Failure) /\ DOMAIN <<>> = {}
  OBVIOUS
<1> QED
  BY <1>1 DEF Session, Sessions, Counted, Classes

LEMMA OverSession ==
  ASSUME SessionInv, NEW by \in Handlers, NEW class \in Classes, Over(by, class)
  PROVE  SessionInv'
<1> DEFINE fs == session.failures
           n == Len(fs)
           stays == class = "ok" \/ \E f \in Range(fs) : f.by = by
           st == IF session.interactive \/ by \in {"route", "shell", "name"} THEN session.status
                 ELSE KeepFirstFailure(session.status, class)
           gs == IF stays THEN fs ELSE Append(fs, [by |-> by, class |-> class])
           one == [session EXCEPT !.status = st]
<1>1. session' = [one EXCEPT !.failures = gs]
  BY DEF Over, SessionInv, Sessions
<1>2. fs \in Seq(Failure) /\ n \in Nat /\ DOMAIN fs = 1 .. n /\ session \in Sessions
        /\ session.status \in Classes /\ session.interactive \in BOOLEAN
  BY LenProperties DEF SessionInv, Sessions
<1>3. st \in Classes
  BY <1>2 DEF KeepFirstFailure
<1>4. one \in Sessions /\ one.status = st /\ one.interactive = session.interactive
  BY <1>2, <1>3 DEF Sessions
<1>5. ~stays => [by |-> by, class |-> class] \in Failure
  BY DEF Failure
<1>6. gs \in Seq(Failure)
  BY <1>2, <1>5, AppendProperties
<1> HIDE DEF one
<1>7. /\ session' \in Sessions /\ session'.status = st /\ session'.failures = gs
      /\ session'.interactive = session.interactive
  BY <1>1, <1>4, <1>6 DEF Sessions
<1>8. CASE stays
  <2>1. gs = fs
    BY <1>8
  <2>2. CASE session.interactive \/ by \notin Counts
    <3>1. st = session.status
      BY <2>2 DEF Counts, Handlers
    <3> QED
      BY <1>2, <1>7, <2>1, <3>1 DEF SessionInv
  <2>3. CASE class = "ok"
    <3>1. st = session.status
      BY <2>3 DEF KeepFirstFailure
    <3> QED
      BY <1>2, <1>7, <2>1, <3>1 DEF SessionInv
  <2>4. CASE by \in Counts /\ class # "ok" /\ ~session.interactive
    <3>1. PICK j \in 1 .. n : fs[j].by = by
      BY <1>2, <1>8, <2>4 DEF Range
    <3>2. j \in Counted(fs)
      BY <1>2, <2>4, <3>1 DEF Counted
    <3>3. PICK k \in Nat : IsFirst(k, fs) /\ session.status = fs[k].class
      BY <2>4, <3>2 DEF SessionInv
    <3>4. k \in 1 .. n
      BY <1>2, <3>3 DEF IsFirst, Counted
    <3>5. fs[k] \in Failure
      BY <1>2, <3>4, LenProperties
    <3>6. session.status # "ok"
      BY <3>3, <3>5 DEF Failure
    <3>7. st = session.status
      BY <3>6 DEF KeepFirstFailure
    <3> QED
      BY <1>2, <1>7, <2>1, <3>7 DEF SessionInv
  <2> QED
    BY <2>2, <2>3, <2>4
<1>9. CASE ~stays
  <2> DEFINE f == [by |-> by, class |-> class]
  <2>1. gs = Append(fs, f) /\ f \in Failure /\ f.by = by /\ f.class = class
    BY <1>5, <1>9
  <2>2. Len(gs) = n + 1 /\ DOMAIN gs = 1 .. n + 1 /\ gs[n + 1] = f /\ \A k \in 1 .. n : gs[k] = fs[k]
    BY <1>2, <2>1, AppendProperties, LenProperties
  <2>3. Counted(fs) \subseteq 1 .. n
    BY <1>2 DEF Counted
  <2> HIDE DEF gs, f
  <2>4. CASE by \notin Counts
    <3>1. Counted(gs) = Counted(fs)
      BY <1>2, <2>1, <2>2, <2>4 DEF Counted
    <3>2. st = session.status
      BY <2>4 DEF Counts, Handlers
    <3>3. \A k : IsFirst(k, fs) => IsFirst(k, gs) /\ gs[k] = fs[k]
      BY <2>2, <2>3, <3>1 DEF IsFirst
    <3> HIDE DEF st
    <3> QED
      BY <1>7, <3>1, <3>2, <3>3 DEF SessionInv
  <2>5. CASE by \in Counts /\ Counted(fs) = {}
    <3>1. Counted(gs) = {n + 1}
      <4>1. n + 1 \in Counted(gs)
        BY <1>2, <2>1, <2>2, <2>5 DEF Counted
      <4>2. \A k \in Counted(gs) : k = n + 1
        <5>1. \A k \in 1 .. n : fs[k].by \notin Counts
          BY <1>2, <2>5 DEF Counted
        <5> QED
          BY <1>2, <2>2, <5>1 DEF Counted
      <4> QED
        BY <4>1, <4>2
    <3>2. IsFirst(n + 1, gs)
      BY <1>2, <3>1 DEF IsFirst
    <3>3. session.status = "ok"
      BY <2>5 DEF SessionInv
    <3>4. session.interactive => st = "ok"
      BY <3>3
    <3>5. ~session.interactive => st = class
      BY <2>5, <3>3 DEF KeepFirstFailure, Counts
    <3>6. n + 1 \in Nat /\ gs[n + 1].class = class
      BY <1>2, <2>1, <2>2
    <3> HIDE DEF st, n
    <3> QED
      BY <1>7, <3>1, <3>2, <3>4, <3>5, <3>6 DEF SessionInv
  <2>6. CASE by \in Counts /\ Counted(fs) # {}
    <3>1. PICK k \in Nat : IsFirst(k, fs) /\ (~session.interactive => session.status = fs[k].class)
      BY <2>6 DEF SessionInv
    <3>2. k \in 1 .. n
      BY <2>3, <3>1 DEF IsFirst
    <3>3. fs[k] \in Failure
      BY <1>2, <3>2, LenProperties
    <3>4. \A j \in Counted(gs) : j \in Counted(fs) \/ j = n + 1
      BY <1>2, <2>2 DEF Counted
    <3>5. k \in Counted(gs) /\ gs[k] = fs[k]
      BY <1>2, <2>2, <3>1, <3>2 DEF Counted, IsFirst
    <3>6. IsFirst(k, gs)
      BY <1>2, <3>1, <3>2, <3>4, <3>5 DEF IsFirst
    <3>7. ~session.interactive => st = session.status
      BY <3>1, <3>3 DEF KeepFirstFailure, Failure
    <3>8. session.interactive => st = "ok"
      BY DEF SessionInv
    <3> HIDE DEF st
    <3> QED
      BY <1>7, <3>1, <3>5, <3>6, <3>7, <3>8 DEF SessionInv
  <2> QED
    BY <2>4, <2>5, <2>6
<1> QED
  BY <1>8, <1>9

-----------------------------------------------------------------------------
(* The line.                                                               *)

Names == Switchable \cup DOMAIN Tags

\* What is read of a line typed under a sticky route.
Under(via, l) ==
  IF via # Unnamed /\ Bare(l) THEN Mention(via, l) ELSE l

\* Until somebody is given it, what is left of a line says whom it was addressed to; when
\* it has become a prompt, all those were models.
LineInv ==
  /\ sent = [line |-> sent.line, via |-> sent.via, who |-> sent.who]
  /\ at \in {"typed", "switched", "chat"} => sent.who = Nobody /\ sent.line \in Typed
  /\ at = "typed" => sent.via = active /\ line = Under(sent.via, sent.line)
  /\ at = "switched" =>
       \/ /\ sent.line.form = "mention" /\ sent.line.name \in Switchable
          /\ line = sent.line.rest /\ line # NoLine
       \/ /\ Bare(sent.line) /\ sent.via \in Switchable
          /\ line = sent.line
  /\ at = "chat" => Addressed \subseteq Names
  /\ AddressedStays

LEMMA TypedIsLine ==
  ASSUME NEW l \in Typed
  PROVE  /\ l # NoLine
         /\ l.form = "command" => Parsed(l.cmd)
         /\ l.form = "mention" /\ l.rest # NoLine /\ l.rest.form = "command" => Parsed(l.rest.cmd)
BY ReplAssumption DEF Line

LEMMA UnderIs ==
  ASSUME NEW via, NEW l, via # Unnamed, Bare(l)
  PROVE  Under(via, l).form = "mention" /\ Under(via, l).name = via /\ Under(via, l).rest = l
BY DEF Under, Mention

LEMMA UnderIsNot ==
  ASSUME NEW via, NEW l, via = Unnamed \/ ~Bare(l)
  PROVE  Under(via, l) = l
BY DEF Under

\* A name that is read is one of those addressed, and any other is an alias or a model.
LEMMA NameIsAddressed ==
  ASSUME LineInv, Reading, IsMention
  PROVE  line.name \in Addressed /\ Addressed \subseteq {line.name} \cup Switchable
<1>1. CASE at = "typed"
  <2>1. sent.line \in Typed /\ line = Under(sent.via, sent.line) /\ line.name \notin Switchable
    BY <1>1 DEF LineInv, Reading, IsMention, IsAlias
  <2>2. sent.line # NoLine
    BY <2>1, TypedIsLine
  <2>3. CASE sent.line.form = "mention"
    <3>1. line = sent.line
      BY <2>1, <2>3, UnderIsNot DEF Bare
    <3>2. Mentioned(sent.line) = {line.name}
      BY <2>1, <2>2, <2>3, <3>1 DEF Mentioned
    <3> QED
      BY <3>2 DEF Addressed
  <2>4. CASE sent.line.form # "mention"
    <3>1. sent.via # Unnamed /\ Bare(sent.line)
      BY <1>1, <2>1, <2>4, UnderIsNot DEF Reading, IsMention
    <3>2. line.name = sent.via
      BY <2>1, <2>4, <3>1, UnderIs
    <3>3. Mentioned(sent.line) = {}
      BY <2>4 DEF Mentioned
    <3> QED
      BY <3>1, <3>2, <3>3 DEF Addressed
  <2> QED
    BY <2>3, <2>4
<1>2. CASE at = "switched"
  <2>1. sent.line \in Typed /\ sent.line # NoLine
    BY <1>2, TypedIsLine DEF LineInv
  <2>2. /\ sent.line.form = "mention" /\ sent.line.name \in Switchable
        /\ line = sent.line.rest /\ line # NoLine
    BY <1>2 DEF LineInv, IsMention, Bare
  <2>3. Mentioned(sent.line) = {sent.line.name, line.name}
    BY <2>1, <2>2 DEF Mentioned, IsMention
  <2> QED
    BY <2>2, <2>3 DEF Addressed
<1> QED
  BY <1>1, <1>2 DEF Reading

\* A prompt that is read names aliases and models only, or nobody.
LEMMA PromptIsForModels ==
  ASSUME LineInv, Reading, line.form \in {"plain", "at", "shell"}
  PROVE  Addressed \subseteq Names
<1>1. CASE at = "typed"
  <2>1. sent.line \in Typed /\ line = Under(sent.via, sent.line)
    BY <1>1 DEF LineInv
  <2>2. sent.via = Unnamed \/ ~Bare(sent.line)
    BY <2>1, UnderIs
  <2>3. line = sent.line
    BY <2>1, <2>2, UnderIsNot
  <2>4. Mentioned(sent.line) = {}
    BY <2>3 DEF Mentioned
  <2> QED
    BY <2>2, <2>4 DEF Addressed
<1>2. CASE at = "switched"
  <2>1. CASE /\ sent.line.form = "mention" /\ sent.line.name \in Switchable
             /\ line = sent.line.rest /\ line # NoLine
    <3>1. Mentioned(sent.line) = {sent.line.name}
      <4>1. sent.line \in Typed /\ sent.line # NoLine
        BY <1>2, TypedIsLine DEF LineInv
      <4> QED
        BY <2>1, <4>1 DEF Mentioned
    <3> QED
      BY <2>1, <3>1 DEF Addressed, Names
  <2>2. CASE Bare(sent.line) /\ sent.via \in Switchable
    <3>1. Mentioned(sent.line) = {}
      BY <2>2 DEF Mentioned, Bare
    <3> QED
      BY <2>2, <3>1 DEF Addressed, Names
  <2> QED
    BY <1>2, <2>1, <2>2 DEF LineInv
<1> QED
  BY <1>1, <1>2 DEF Reading

LEMMA CommandIsParsed ==
  ASSUME LineInv, Reading, line.form = "command"
  PROVE  Parsed(line.cmd)
<1>1. sent.line \in Typed
  BY DEF LineInv, Reading
<1>2. CASE at = "typed"
  <2>1. line = Under(sent.via, sent.line)
    BY <1>2 DEF LineInv
  <2>2. sent.via = Unnamed \/ ~Bare(sent.line)
    BY <2>1, UnderIs
  <2>3. line = sent.line
    BY <2>1, <2>2, UnderIsNot
  <2> QED
    BY <1>1, <2>3, TypedIsLine
<1>3. CASE at = "switched"
  BY <1>1, <1>3, TypedIsLine DEF LineInv
<1> QED
  BY <1>2, <1>3 DEF Reading

\* Nothing but what was typed and who was given it matters once nobody reads it.
LEMMA NoLongerRead ==
  ASSUME LineInv, sent' = sent, at' \notin {"typed", "switched", "chat"}
  PROVE  LineInv'
BY DEF LineInv, AddressedStays, Addressed

LEMMA GivenTo ==
  ASSUME LineInv, NEW w, sent' = [sent EXCEPT !.who = w], at' \notin {"typed", "switched", "chat"},
         w.to = "local" => Addressed \subseteq Names,
         w.to = "route" => w.name \in Addressed /\ Addressed \subseteq {w.name} \cup Switchable
  PROVE  LineInv'
<1>1. sent' = [line |-> sent.line, via |-> sent.via, who |-> w]
  BY DEF LineInv
<1>2. sent'.line = sent.line /\ sent'.via = sent.via /\ sent'.who = w
  BY <1>1
<1>3. Addressed' = Addressed
  BY <1>2 DEF Addressed
<1>4. AddressedStays'
  BY <1>2, <1>3 DEF AddressedStays, Names
<1> QED
  BY <1>1, <1>2, <1>4 DEF LineInv

LEMMA OverGoes ==
  /\ \A by, class : Over(by, class) => at' = "prompt"
  /\ \A stage, rest : Goes(stage, rest) => at' = stage /\ line' = rest
BY DEF Over, Goes

LEMMA NobodyIsNobody == Nobody.to = "nobody"
BY DEF Nobody

LEMMA TypeLine ==
  ASSUME LineInv, Type
  PROVE  LineInv'
<1>1. PICK l \in Typed : line' = WithActiveRoute(l) /\ sent' = [line |-> l, via |-> active, who |-> Nobody]
  BY DEF Type
<1>2. at' = "typed" /\ active' = active
  BY DEF Type, routing
<1>3. line' = Under(active, l)
  BY <1>1 DEF WithActiveRoute, Under
<1>4. sent'.line = l /\ sent'.via = active /\ sent'.who = Nobody
  BY <1>1
<1>5. AddressedStays'
  BY <1>4, NobodyIsNobody DEF AddressedStays
<1> QED
  BY <1>1, <1>2, <1>3, <1>4, <1>5 DEF LineInv

LEMMA SwitchLine ==
  ASSUME LineInv, Switch
  PROVE  LineInv'
<1>1. at = "typed" /\ IsAlias /\ sent' = sent
  BY DEF Switch
<1>2. CASE at' = "prompt"
  BY <1>1, <1>2, NoLongerRead
<1>3. CASE at' = "switched" /\ line' = line.rest /\ line.rest # NoLine
  <2>1. sent.line \in Typed /\ line = Under(sent.via, sent.line) /\ sent.who = Nobody
    BY <1>1 DEF LineInv
  <2>2. line.form = "mention" /\ line.name \in Switchable
    BY <1>1 DEF IsAlias, IsMention
  <2>3. CASE sent.line.form = "mention"
    <3>1. line = sent.line
      BY <2>1, <2>3, UnderIsNot DEF Bare
    <3> QED
      BY <1>1, <1>3, <2>1, <2>2, <3>1 DEF LineInv, AddressedStays, Addressed
  <2>4. CASE sent.line.form # "mention"
    <3>1. sent.via # Unnamed /\ Bare(sent.line)
      BY <2>1, <2>2, <2>4, UnderIsNot
    <3>2. line.name = sent.via /\ line.rest = sent.line
      BY <2>1, <2>4, <3>1, UnderIs
    <3> QED
      BY <1>1, <1>3, <2>1, <2>2, <2>4, <3>1, <3>2 DEF LineInv, AddressedStays, Addressed
  <2> QED
    BY <2>3, <2>4
<1> QED
  BY <1>2, <1>3, OverGoes DEF Switch

LEMMA SwitchByTagLine ==
  ASSUME LineInv, SwitchByTag
  PROVE  LineInv'
<1>1. sent' = sent /\ Reading /\ IsMention /\ line.name \in Names
  BY DEF SwitchByTag, Names
<1>2. CASE at' = "prompt"
  BY <1>1, <1>2, NoLongerRead
<1>3. CASE at' = "chat"
  <2>1. Addressed \subseteq Names
    BY <1>1, NameIsAddressed DEF Names
  <2>2. sent.who = Nobody /\ sent.line \in Typed
    BY <1>1 DEF LineInv, Reading
  <2> QED
    BY <1>1, <1>3, <2>1, <2>2 DEF LineInv, AddressedStays, Addressed
<1> QED
  BY <1>2, <1>3, OverGoes DEF SwitchByTag

LEMMA ReadsLine ==
  ASSUME LineInv, Reads
  PROVE  LineInv'
<1>1. CASE Switch
  BY <1>1, SwitchLine
<1>2. CASE AskRoute
  <2> DEFINE e == Lookup(line.name)
             w == [to |-> "route", name |-> line.name, url |-> e.url,
                   model |-> IF e.model = Unnamed THEN model ELSE e.model, tools |-> e.tools]
  <2>1. sent' = [sent EXCEPT !.who = w] /\ at' = "routed" /\ Reading /\ IsMention
    BY <1>2, OverGoes DEF AskRoute, Routed
  <2>2. w.to = "route" /\ w.name = line.name
    OBVIOUS
  <2>3. line.name \in Addressed /\ Addressed \subseteq {line.name} \cup Switchable
    BY <2>1, NameIsAddressed
  <2> HIDE DEF w
  <2> QED
    BY <2>1, <2>2, <2>3, GivenTo
<1>3. CASE SwitchByTag
  BY <1>3, SwitchByTagLine
<1>4. CASE NotFound
  BY <1>4, NoLongerRead, OverGoes DEF NotFound
<1>5. CASE Chat
  <2>1. CASE at' = "prompt" /\ sent' = sent
    BY <2>1, NoLongerRead
  <2>2. CASE at' = "asked" /\ sent' = [sent EXCEPT !.who = [to |-> "local", model |-> model]]
    <3>1. Addressed \subseteq Names
      BY <1>5, PromptIsForModels DEF Chat, LineInv
    <3> QED
      BY <2>2, <3>1, GivenTo
  <2> QED
    BY <1>5, <2>1, <2>2, OverGoes DEF Chat
<1>6. CASE Shell
  BY <1>6, GivenTo, OverGoes DEF Shell
<1>7. CASE Command
  <2>1. at' \in {"prompt", "taking", "ended"} /\ sent' = [sent EXCEPT !.who = [to |-> "command"]]
    BY <1>7, OverGoes DEF Command
  <2> QED
    BY <2>1, GivenTo
<1> QED
  BY <1>1, <1>2, <1>3, <1>4, <1>5, <1>6, <1>7 DEF Reads

LEMMA LineStep ==
  ASSUME LineInv, [Next]_vars
  PROVE  LineInv'
<1>1. CASE Type
  BY <1>1, TypeLine
<1>2. CASE Reads
  BY <1>2, ReadsLine
<1>3. CASE Answered
  BY <1>3, NoLongerRead, OverGoes DEF Answered
<1>4. CASE Take \/ Fetch \/ Taken \/ Changes \/ UNCHANGED vars
  <2>1. sent' = sent /\ at' = at /\ line' = line
    BY <1>4 DEF Take, Fetch, Taken, Changes, vars
  <2>2. active' = active
    BY <1>4 DEF Take, Fetch, Taken, Changes, vars, routing
  <2> QED
    BY <2>1, <2>2 DEF LineInv, AddressedStays, Addressed
<1>5. CASE AllTaken \/ Quit
  BY <1>5, NoLongerRead, OverGoes DEF AllTaken, Quit
<1>6. CASE \E interactive \in BOOLEAN : Start(interactive)
  <2>1. sent' = [line |-> NoLine, via |-> Unnamed, who |-> Nobody] /\ at' = "prompt"
    BY <1>6 DEF Start
  <2>2. sent'.who = Nobody
    BY <2>1
  <2> QED
    BY <2>1, <2>2, NobodyIsNobody DEF LineInv, AddressedStays
<1> QED
  BY <1>1, <1>2, <1>3, <1>4, <1>5, <1>6 DEF Next, Takes

-----------------------------------------------------------------------------
(* What a /read or /attach takes.                                          *)

Part == [uri : URIs \cup {"none"}, body : Seq(Byte), as : {"text", "image", "note"}]
Takings == [op : {"none", "read", "attach"}, todo : Seq(URIs), parts : Seq(Part), first : Classes]

\* A file is being read only for a command that has it still to take.
TakingInv ==
  /\ taking \in Takings
  /\ fetch.stage # "idle" => at = "taking" /\ taking.todo # <<>>

LEMMA NothingIsTaking == Nothing \in Takings
<1>1. <<>> \in Seq(URIs) /\ <<>> \in Seq(Part)
  OBVIOUS
<1> QED
  BY <1>1 DEF Nothing, Takings, Classes

LEMMA NewTaking ==
  ASSUME NEW op \in {"read", "attach"}, NEW uris \in Seq(URIs)
  PROVE  [Nothing EXCEPT !.op = op, !.todo = uris] \in Takings
<1> DEFINE one == [Nothing EXCEPT !.op = op]
<1>1. one \in Takings
  BY NothingIsTaking DEF Takings
<1>2. [Nothing EXCEPT !.op = op, !.todo = uris] = [one EXCEPT !.todo = uris]
  BY DEF Nothing
<1> HIDE DEF one
<1>3. [one EXCEPT !.todo = uris] \in Takings
  BY <1>1 DEF Takings
<1> QED
  BY <1>2, <1>3

LEMMA TakenTaking ==
  ASSUME TakingInv, FetchInv, Taken
  PROVE  TakingInv'
<1> DEFINE rest == Tail(taking.todo)
           part == [uri |-> fetch.uri, body |-> fetch.got, as |-> As(fetch.uri)]
           more == Append(taking.parts, part)
           class == KeepFirstFailure(taking.first, IF fetch.stage = "failed" THEN fetch.class ELSE "data")
           one == [taking EXCEPT !.todo = rest]
<1>1. taking \in Takings /\ taking.todo \in Seq(URIs) /\ taking.parts \in Seq(Part)
  BY DEF TakingInv, Takings
<1>2. rest \in Seq(URIs)
  BY <1>1, HeadTailProperties DEF TakingInv, Taken
<1>3. part \in Part
  BY DEF Part, As, FetchInv, Fetches
<1>4. more \in Seq(Part)
  BY <1>1, <1>3, AppendProperties
<1>5. class \in Classes
  BY <1>1 DEF Takings, KeepFirstFailure, FetchInv, Fetches, Classes
<1>6. one \in Takings
  BY <1>1, <1>2 DEF Takings
<1>7. taking' = [one EXCEPT !.parts = more] \/ taking' = [one EXCEPT !.first = class]
  BY <1>1 DEF Taken, FailedLeft, Takings
<1> HIDE DEF one, more, class, part
<1>8. taking' \in Takings
  BY <1>4, <1>5, <1>6, <1>7 DEF Takings
<1>9. fetch'.stage = "idle"
  BY DEF Taken, Stops, NoFetch
<1> QED
  BY <1>8, <1>9 DEF TakingInv

LEMMA CommandTaking ==
  ASSUME TakingInv, LineInv, Command
  PROVE  TakingInv'
<1>1. fetch' = fetch /\ fetch.stage = "idle" /\ Reading /\ line.form = "command"
  BY DEF Command, TakingInv, Reading
<1>2. CASE taking' = taking
  BY <1>1, <1>2 DEF TakingInv
<1>3. CASE /\ line.cmd.op \in {"read", "attach"}
           /\ taking' = [Nothing EXCEPT !.op = line.cmd.op, !.todo = line.cmd.uris]
  <2>1. line.cmd.uris \in Seq(URIs)
    BY <1>1, <1>3, CommandIsParsed DEF Parsed
  <2>2. taking' \in Takings
    BY <1>3, <2>1, NewTaking
  <2> QED
    BY <1>1, <2>2 DEF TakingInv
<1> QED
  BY <1>2, <1>3 DEF Command

LEMMA TakingStep ==
  ASSUME TakingInv, LineInv, FetchInv, [Next]_vars
  PROVE  TakingInv'
<1>1. CASE Command
  BY <1>1, CommandTaking
<1>2. CASE Taken
  BY <1>2, TakenTaking
<1>3. CASE AllTaken \/ (\E interactive \in BOOLEAN : Start(interactive))
  <2>1. taking' = Nothing
    BY <1>3 DEF AllTaken, Start
  <2>2. fetch'.stage = "idle"
    BY <1>3 DEF AllTaken, Start, Stops, NoFetch, TakingInv
  <2> QED
    BY <2>1, <2>2, NothingIsTaking DEF TakingInv
<1>4. CASE Take
  BY <1>4 DEF Take, TakingInv
<1>5. CASE Fetch \/ Changes
  <2>1. taking' = taking /\ at' = at
    BY <1>5 DEF Fetch, Changes
  <2>2. fetch.stage # "idle"
    BY <1>5 DEF Fetch, Changes, Fetching, Dial, Open, Read, Request, Redirect, Body, RemoteChanges
  <2> QED
    BY <2>1, <2>2 DEF TakingInv
<1>6. CASE Type \/ Answered \/ Quit \/ Switch \/ AskRoute \/ SwitchByTag \/ NotFound \/ Chat \/ Shell
  <2>1. taking' = taking /\ fetch' = fetch /\ at # "taking"
    BY <1>6 DEF Type, Answered, Quit, Switch, AskRoute, SwitchByTag, NotFound, Chat, Shell,
      Routed, Reading
  <2> QED
    BY <2>1 DEF TakingInv
<1>7. CASE UNCHANGED vars
  BY <1>7 DEF vars, TakingInv
<1> QED
  BY <1>1, <1>2, <1>3, <1>4, <1>5, <1>6, <1>7 DEF Next, Reads, Takes

-----------------------------------------------------------------------------
(* Every step keeps the rest.                                              *)

LEMMA RoutesStep ==
  ASSUME RoutesInv, LineInv, [Next]_vars
  PROVE  RoutesInv'
<1>1. CASE Command
  <2>1. CASE UNCHANGED routing
    BY <2>1, UnchangedKeeps DEF routing
  <2>2. CASE \E class : CmdRoute(line.cmd, class)
    <3>1. Parsed(line.cmd)
      BY <1>1, CommandIsParsed DEF Command
    <3> QED
      BY <2>2, <3>1, CommandKeepsRoutes
  <2> QED
    BY <1>1, <2>1, <2>2 DEF Command
<1>2. CASE \E interactive \in BOOLEAN : Start(interactive)
  BY <1>2, LoadedIsRegistry DEF Start, RoutesStartup, RoutesInv, RoutesReadBack
<1>3. CASE UNCHANGED routing
  BY <1>3, UnchangedKeeps DEF routing
<1> QED
  BY <1>1, <1>2, <1>3 DEF Next, Reads, Takes, Type, Switch, AskRoute, SwitchByTag, NotFound, Chat, Shell,
    Answered, Take, Taken, AllTaken, Fetch, Quit, Changes, vars, routing

LEMMA FetchStep ==
  ASSUME FetchInv, TakingInv, [Next]_vars
  PROVE  FetchInv'
<1>1. CASE Take
  <2>1. Head(taking.todo) \in URIs
    BY <1>1, HeadTailProperties DEF Take, TakingInv, Takings
  <2> QED
    BY <1>1, <2>1, StartsFetch DEF Take
<1>2. CASE Fetch
  BY <1>2, FetchingFetch DEF Fetch
<1>3. CASE Changes
  BY <1>3, ChangesFetch DEF Changes
<1>4. CASE Taken \/ (\E interactive \in BOOLEAN : Start(interactive))
  BY <1>4, StopsFetch DEF Taken, Start
<1>5. CASE UNCHANGED <<held, fetch>>
  BY <1>5 DEF FetchInv
<1> QED
  BY <1>1, <1>2, <1>3, <1>4, <1>5 DEF Next, Reads, Takes, Type, Switch, AskRoute, SwitchByTag, NotFound,
    Chat, Shell, Command, Answered, AllTaken, Quit, vars

LEMMA SessionStep ==
  ASSUME SessionInv, TakingInv, [Next]_vars
  PROVE  SessionInv'
<1>1. CASE session' = session
  BY <1>1 DEF SessionInv
<1>2. CASE \E by \in Handlers, class \in Classes : Over(by, class)
  BY <1>2, OverSession
<1>3. CASE Type
  <2>1. session' = [session EXCEPT !.lines = session.lines + 1] /\ session \in Sessions
    BY <1>3 DEF Type, SessionInv, Sessions
  <2>2. session' \in Sessions /\ session'.failures = session.failures /\ session'.status = session.status
          /\ session'.interactive = session.interactive
    BY <2>1 DEF Sessions
  <2> QED
    BY <2>2 DEF SessionInv
<1>4. CASE \E interactive \in BOOLEAN : Start(interactive)
  <2>1. PICK i \in BOOLEAN : session' = Session(i, session.lines, session.starts + 1)
    BY <1>4 DEF Start
  <2>2. session.lines \in Nat /\ session.starts + 1 \in Nat
    BY DEF SessionInv, Sessions
  <2> QED
    BY <2>1, <2>2, NewSession DEF SessionInv
<1>5. CASE Reads
  <2>1. \A stage, rest : Goes(stage, rest) => session' = session
    BY DEF Goes
  <2>2. CASE \E by \in Handlers, class \in Classes : Over(by, class)
    BY <1>2, <2>2
  <2> QED
    BY <1>1, <1>5, <2>1, <2>2 DEF Reads, Switch, AskRoute, SwitchByTag, NotFound, Chat, Shell, Command,
      Handlers, Classes
<1>6. CASE Answered
  BY <1>2, <1>6 DEF Answered, Handlers, Classes
<1>7. CASE AllTaken
  BY <1>2, <1>7 DEF AllTaken, TakingInv, Takings, Handlers
<1>8. CASE Take \/ Taken \/ Fetch \/ Changes \/ Quit \/ UNCHANGED vars
  BY <1>1, <1>8 DEF Take, Taken, Fetch, Changes, Quit, Goes, vars
<1> QED
  BY <1>3, <1>4, <1>5, <1>6, <1>7, <1>8 DEF Next, Takes

-----------------------------------------------------------------------------
(* The theorems.                                                           *)

ReplInv == RoutesInv /\ LineInv /\ SessionInv /\ FetchInv /\ TakingInv

LEMMA ReplInit == Init => ReplInv
<1> SUFFICES ASSUME Init PROVE ReplInv
  OBVIOUS
<1>1. RoutesInv
  <2>1. file \in RouteFile
    BY RoutesAssumption DEF Init, RoutesInit, RouteFile
  <2> QED
    BY <2>1, LoadedIsRegistry DEF Init, RoutesInit, RoutesInv, RoutesReadBack
<1>2. LineInv
  <2>1. sent.who = Nobody
    BY DEF Init
  <2> QED
    BY <2>1, NobodyIsNobody DEF Init, LineInv, AddressedStays
<1>3. SessionInv
  <2>1. PICK i \in BOOLEAN : session = Session(i, 0, 1)
    BY DEF Init
  <2> QED
    BY <2>1, NewSession DEF SessionInv
<1>4. FetchInv /\ fetch.stage = "idle"
  BY NoFetchIsFetch DEF Init, NotFetching, FetchInv, NoFetch
<1>5. TakingInv
  BY <1>4, NothingIsTaking DEF Init, TakingInv
<1> QED
  BY <1>1, <1>2, <1>3, <1>4, <1>5 DEF ReplInv

LEMMA ReplStep == ReplInv /\ [Next]_vars => ReplInv'
BY RoutesStep, LineStep, SessionStep, FetchStep, TakingStep DEF ReplInv

LEMMA ReplInvariant == Spec => []ReplInv
BY ReplInit, ReplStep, PTL DEF Spec

\* Whatever the names of routes, aliases, models and tags are, and however routes come and
\* go, the model in use answers a line only when every name in it is an alias, a model an
\* alias names or a tag; a line without a name that begins with neither @ nor / goes to the
\* sticky route or nowhere, unless that route has such a name (terminal.go:559 to 813).
THEOREM AddressedGoesThere == Spec => []AddressedStays
<1>1. ReplInv => AddressedStays
  BY DEF ReplInv, LineInv
<1> QED
  BY <1>1, ReplInvariant, PTL

\* What was saved of the routes is what the next start reads, whatever the file was before
\* and however saves fail (SaveRouteConfig, LoadRouteConfig).
THEOREM SavedRoutesReturn == Spec => []RoutesReadBack
<1>1. ReplInv => RoutesReadBack
  BY DEF ReplInv, RoutesInv
<1> QED
  BY <1>1, ReplInvariant, PTL

\* The status of a script of any length is that of the first command, turn of the model in
\* use, or change of models before routes are looked up, that failed; other failures count
\* for nothing (keepFirstFailure, and where it is called: terminal.go:579, 595).
THEOREM FirstFailureStays == Spec => []StatusIsFirst
<1>1. ReplInv => StatusIsFirst
  BY SessionInvIsStatus DEF ReplInv
<1> QED
  BY <1>1, ReplInvariant, PTL

\* A file of any length is taken whole, in answers of any lengths (sftpSession.read, Get).
THEOREM FilesAreWhole == Spec => FetchedWhole
<1> DEFINE A == fetch.stage \in {"read", "body"} /\ fetch'.stage = "done" /\ ~fetch.mixed
                  => fetch'.got = held
<1>1. ReplInv /\ [Next]_vars => [A]_<<held, fetch>>
  <2> SUFFICES ASSUME ReplInv, [Next]_vars, ~UNCHANGED <<held, fetch>>
               PROVE  A
    OBVIOUS
  <2>1. CASE Fetch
    BY <2>1, TakenWhole DEF Fetch, ReplInv
  <2>2. CASE Take
    BY <2>2 DEF Take, Starts
  <2>3. CASE Taken \/ (\E interactive \in BOOLEAN : Start(interactive))
    BY <2>3 DEF Taken, Start, Stops, NoFetch
  <2>4. CASE Changes
    <3>1. fetch'.stage = fetch.stage
      BY <2>4 DEF Changes, RemoteChanges, ReplInv, FetchInv, Fetches
    <3> QED
      BY <3>1
  <2> QED
    BY <2>1, <2>2, <2>3, <2>4 DEF Next, Reads, Takes, Type, Switch, AskRoute, SwitchByTag, NotFound,
      Chat, Shell, Command, Answered, AllTaken, Quit, vars
<1> QED
  BY <1>1, ReplInvariant, PTL DEF Spec, FetchedWhole



\* A set of naturals that is not empty has a least member.
LEMMA LeastNatural ==
  ASSUME NEW T, T \subseteq Nat, T # {}
  PROVE  \E x \in T : \A y \in T : x <= y
<1>1. PICK x \in T : \A y \in T : ~ (<<y, x>> \in OpToRel(<, Nat))
  BY NatLessThanWellFounded, WFMin
<1>2. \A y \in T : ~ (y < x)
  BY <1>1 DEF OpToRel
<1> QED
  BY <1>2

LEMMA LastOf ==
  ASSUME NEW m \in Nat, NEW s \in SUBSET (1 .. m + 1), m + 1 \in s
  PROVE  Max(s) = m + 1
<1>1. \A x \in s : x \in Nat /\ x <= m + 1
  OBVIOUS
<1>2. \A y \in s : m + 1 >= y
  BY <1>1
<1>3. Max(s) \in s /\ Max(s) >= m + 1
  <2>1. \E x \in s : \A y \in s : x >= y
    BY <1>2
  <2>2. Max(s) = CHOOSE x \in s : \A y \in s : x >= y
    BY DEF Max
  <2>3. Max(s) \in s /\ \A y \in s : Max(s) >= y
    BY <2>1, <2>2, Zenon
  <2> QED
    BY <2>3
<1>4. Max(s) \in Nat /\ Max(s) <= m + 1
  BY <1>1, <1>3
<1> QED
  BY <1>3, <1>4

-----------------------------------------------------------------------------
(* Folds. A fold of the community modules is a recursive function on the   *)
(* sets of positions, of which the greatest is done last. What it computes *)
(* is said here once, of any step that is a function: the values after     *)
(* each position (f), that there is such a function on sets (g), and that  *)
(* every one of them (h) has these values.                                 *)

LEMMA UpTo ==
  ASSUME NEW n \in Nat, NEW T, 0 \in T, \A i \in 1 .. n : i - 1 \in T => i \in T
  PROVE  \A i \in 0 .. n : i \in T
<1> DEFINE U == {i \in 0 .. n : i \notin T}
<1> SUFFICES ASSUME U # {} PROVE FALSE
  OBVIOUS
<1>1. U \subseteq Nat
  OBVIOUS
<1>2. PICK m \in U : \A k \in U : m <= k
  <2> HIDE DEF U
  <2> QED BY <1>1, LeastNatural
<1>3. m \in 1 .. n /\ m - 1 \in 0 .. n /\ m - 1 < m
  BY <1>2
<1>4. m - 1 \in T
  BY <1>2, <1>3
<1> QED
  BY <1>2, <1>3, <1>4

LEMMA GreatestIn ==
  ASSUME NEW n \in Nat, NEW s \in SUBSET (1 .. n), s # {}
  PROVE  Max(s) \in s /\ s \ {Max(s)} \in SUBSET (1 .. n)
<1> DEFINE T == {n - x : x \in s}
<1>1. T \subseteq Nat /\ T # {}
  OBVIOUS
<1>2. PICK y \in T : \A z \in T : y <= z
  <2> HIDE DEF T
  <2> QED BY <1>1, LeastNatural
<1>3. PICK x \in s : y = n - x
  BY <1>2
<1>4. \A z \in s : x >= z
  <2> SUFFICES ASSUME NEW z \in s PROVE x >= z
    OBVIOUS
  <2>1. n - x <= n - z
    BY <1>2, <1>3
  <2> QED
    BY <2>1
<1>5. \E u \in s : \A z \in s : u >= z
  BY <1>4
<1>6. Max(s) \in s
  BY <1>5, Zenon DEF Max
<1> QED
  BY <1>6

\* The values of a fold after each position.
Folded(f, A, st, base, p) ==
  /\ f \in [0 .. Len(p) -> A] /\ f[0] = base
  /\ \A i \in 1 .. Len(p) : f[i] = st[<<f[i - 1], p[i]>>]

\* A function on sets of positions that folds, where its values are in A.
FoldsIn(h, A, st, base, p, n) ==
  /\ h[{}] = base
  /\ \A s \in SUBSET (1 .. n) : s # {} /\ h[s \ {Max(s)}] \in A =>
       h[s] = st[<<h[s \ {Max(s)}], p[Max(s)]>>]

FoldsOn(g, A, st, base, p, n) ==
  /\ g \in [SUBSET (1 .. n) -> A] /\ g[{}] = base
  /\ \A s \in SUBSET (1 .. n) : s # {} => g[s] = st[<<g[s \ {Max(s)}], p[Max(s)]>>]

\* What is used of the two.
Steps(g, A, B, st, base, p) ==
  /\ g = [s \in SUBSET (DOMAIN p) |-> g[s]] /\ g[{}] = base
  /\ \A s \in SUBSET (DOMAIN p) : s # {} =>
       /\ g[s \ {Max(s)}] \in A /\ p[Max(s)] \in B
       /\ g[s] = st[<<g[s \ {Max(s)}], p[Max(s)]>>]
ValuesOf(f, A, st, base, p) ==
  /\ Folded(f, A, st, base, p)
  /\ \A h : FoldsIn(h, A, st, base, p, Len(p)) => h[1 .. Len(p)] = f[Len(p)]

LEMMA FoldOneMore ==
  ASSUME NEW A, NEW B, NEW st \in [A \X B -> A], NEW base \in A, NEW p \in Seq(B),
         NEW m \in Nat, m + 1 <= Len(p), NEW g, FoldsOn(g, A, st, base, p, m)
  PROVE  \E h : FoldsOn(h, A, st, base, p, m + 1)
<1> DEFINE h == [s \in SUBSET (1 .. m + 1) |->
                   IF s \in SUBSET (1 .. m) THEN g[s] ELSE st[<<g[s \ {m + 1}], p[m + 1]>>]]
<1>1. p[m + 1] \in B
  BY LenProperties
<1>2. \A s \in SUBSET (1 .. m) : g[s] \in A
  BY DEF FoldsOn
<1>3. \A s \in SUBSET (1 .. m + 1) : s \ {m + 1} \in SUBSET (1 .. m) /\ (s \notin SUBSET (1 .. m) => m + 1 \in s)
  <2>1. \A x \in 1 .. m + 1 : x \in 1 .. m \/ x = m + 1
    OBVIOUS
  <2> QED
    BY <2>1
<1>4. h \in [SUBSET (1 .. m + 1) -> A]
  <2>1. ASSUME NEW s \in SUBSET (1 .. m + 1) PROVE st[<<g[s \ {m + 1}], p[m + 1]>>] \in A
    <3>1. g[s \ {m + 1}] \in A
      BY <1>2, <1>3
    <3> QED
      BY <1>1, <3>1
  <2> QED
    BY <1>2, <2>1
<1>5. h[{}] = base
  BY DEF FoldsOn
<1>6. ASSUME NEW s \in SUBSET (1 .. m + 1), s # {}
      PROVE  h[s] = st[<<h[s \ {Max(s)}], p[Max(s)]>>]
  <2>1. CASE s \in SUBSET (1 .. m)
    <3>1. s \ {Max(s)} \in SUBSET (1 .. m) /\ s \ {Max(s)} \in SUBSET (1 .. m + 1)
      BY <2>1
    <3>2. h[s] = g[s] /\ h[s \ {Max(s)}] = g[s \ {Max(s)}]
      BY <2>1, <3>1
    <3>3. g[s] = st[<<g[s \ {Max(s)}], p[Max(s)]>>]
      BY <1>6, <2>1 DEF FoldsOn
    <3> HIDE DEF h
    <3> QED
      BY <3>2, <3>3
  <2>2. CASE s \notin SUBSET (1 .. m)
    <3>1. Max(s) = m + 1
      BY <1>3, <2>2, LastOf
    <3>2. s \ {m + 1} \in SUBSET (1 .. m) /\ s \ {m + 1} \in SUBSET (1 .. m + 1)
      BY <1>3
    <3>3. h[s] = st[<<g[s \ {m + 1}], p[m + 1]>>] /\ h[s \ {m + 1}] = g[s \ {m + 1}]
      BY <2>2, <3>2
    <3> HIDE DEF h
    <3> QED
      BY <3>1, <3>3
  <2> QED
    BY <2>1, <2>2
<1> HIDE DEF h
<1> QED
  BY <1>4, <1>5, <1>6 DEF FoldsOn

LEMMA FoldExists ==
  ASSUME NEW A, NEW B, NEW st \in [A \X B -> A], NEW base \in A, NEW p \in Seq(B)
  PROVE  \E g : FoldsOn(g, A, st, base, p, Len(p))
<1> DEFINE T == {m \in Nat : \E g : FoldsOn(g, A, st, base, p, m)}
<1>1. 0 \in T
  <2> DEFINE g == [s \in SUBSET (1 .. 0) |-> base]
  <2>1. \A s \in SUBSET (1 .. 0) : s = {}
    OBVIOUS
  <2>2. g \in [SUBSET (1 .. 0) -> A] /\ g[{}] = base
    OBVIOUS
  <2> HIDE DEF g
  <2>3. FoldsOn(g, A, st, base, p, 0)
    BY <2>1, <2>2 DEF FoldsOn
  <2> QED
    BY <2>3
<1>2. ASSUME NEW i \in 1 .. Len(p), i - 1 \in T PROVE i \in T
  <2>1. Len(p) \in Nat /\ i - 1 \in Nat /\ i \in Nat /\ i - 1 + 1 = i /\ i <= Len(p)
    BY LenProperties
  <2>2. PICK g : FoldsOn(g, A, st, base, p, i - 1)
    BY <1>2
  <2>3. \E h : FoldsOn(h, A, st, base, p, i - 1 + 1)
    BY <2>1, <2>2, FoldOneMore
  <2> QED
    BY <2>1, <2>3
<1>3. Len(p) \in Nat /\ Len(p) \in 0 .. Len(p)
  BY LenProperties
<1> HIDE DEF T
<1>4. Len(p) \in T
  BY <1>1, <1>2, <1>3, UpTo
<1> QED
  BY <1>4 DEF T

LEMMA Prefix == \A i \in Nat : i # 0 => Max(1 .. i) = i /\ (1 .. i) \ {i} = 1 .. i - 1 /\ 1 .. i # {}
<1> SUFFICES ASSUME NEW i \in Nat, i # 0 PROVE Max(1 .. i) = i /\ (1 .. i) \ {i} = 1 .. i - 1 /\ 1 .. i # {}
  OBVIOUS
<1>1. i - 1 \in Nat /\ i - 1 + 1 = i /\ 1 .. i \in SUBSET (1 .. i - 1 + 1) /\ i - 1 + 1 \in 1 .. i
  OBVIOUS
<1>2. Max(1 .. i) = i - 1 + 1
  BY <1>1, LastOf
<1>3. ASSUME NEW x PROVE x \in (1 .. i) \ {i} <=> x \in 1 .. i - 1
  OBVIOUS
<1> QED
  BY <1>1, <1>2, <1>3

LEMMA Folding ==
  ASSUME NEW A, NEW B, NEW st \in [A \X B -> A], NEW base \in A, NEW p \in Seq(B)
  PROVE  \E f : ValuesOf(f, A, st, base, p)
<1>1. PICK g : FoldsOn(g, A, st, base, p, Len(p))
  BY FoldExists
<1>2. Len(p) \in Nat
  BY LenProperties
<1> DEFINE f == [i \in 0 .. Len(p) |-> g[1 .. i]]
<1>3. \A i \in 0 .. Len(p) : 1 .. i \in SUBSET (1 .. Len(p))
  BY <1>2
<1>4. f \in [0 .. Len(p) -> A]
  BY <1>1, <1>3 DEF FoldsOn
<1>5. f[0] = base
  <2>1. 1 .. 0 = {} /\ 0 \in 0 .. Len(p)
    BY <1>2
  <2> QED
    BY <1>1, <2>1 DEF FoldsOn
<1>6. ASSUME NEW i \in 1 .. Len(p)
      PROVE  /\ f[i] = st[<<f[i - 1], p[i]>>]
             /\ i - 1 \in 0 .. Len(p) /\ i \in 0 .. Len(p) /\ i \in Nat /\ i # 0
  <2>1. i - 1 \in 0 .. Len(p) /\ i \in 0 .. Len(p) /\ i \in Nat /\ i # 0
    BY <1>2
  <2>2. Max(1 .. i) = i /\ (1 .. i) \ {i} = 1 .. i - 1 /\ 1 .. i # {}
    BY <2>1, Prefix
  <2>3. g[1 .. i] = st[<<g[1 .. i - 1], p[i]>>]
    BY <1>1, <1>3, <2>1, <2>2 DEF FoldsOn
  <2> QED
    BY <2>1, <2>3
<1> HIDE DEF f
<1>7. Folded(f, A, st, base, p)
  BY <1>4, <1>5, <1>6 DEF Folded
<1>8. ASSUME NEW h, FoldsIn(h, A, st, base, p, Len(p)) PROVE h[1 .. Len(p)] = f[Len(p)]
  <2> DEFINE T == {i \in 0 .. Len(p) : h[1 .. i] = f[i]}
  <2>1. 0 \in T
    <3>1. 1 .. 0 = {} /\ 0 \in 0 .. Len(p)
      BY <1>2
    <3> QED
      BY <1>5, <1>8, <3>1 DEF FoldsIn
  <2>2. ASSUME NEW i \in 1 .. Len(p), i - 1 \in T PROVE i \in T
    <3>1. f[i] = st[<<f[i - 1], p[i]>>] /\ i - 1 \in 0 .. Len(p) /\ i \in 0 .. Len(p) /\ i \in Nat /\ i # 0
      BY <1>6
    <3>2. Max(1 .. i) = i /\ (1 .. i) \ {i} = 1 .. i - 1 /\ 1 .. i # {}
      BY <3>1, Prefix
    <3>3. h[1 .. i - 1] = f[i - 1] /\ f[i - 1] \in A
      BY <1>4, <2>2, <3>1
    <3>4. h[1 .. i] = st[<<h[1 .. i - 1], p[i]>>]
      BY <1>3, <1>8, <3>1, <3>2, <3>3 DEF FoldsIn
    <3> QED
      BY <3>1, <3>3, <3>4
  <2>3. Len(p) \in 0 .. Len(p)
    BY <1>2
  <2> HIDE DEF T
  <2>4. Len(p) \in T
    BY <1>2, <2>1, <2>2, <2>3, UpTo
  <2> QED
    BY <2>4 DEF T
<1> QED
  BY <1>7, <1>8 DEF ValuesOf

LEMMA FoldSteps ==
  ASSUME NEW A, NEW B, NEW st \in [A \X B -> A], NEW base \in A, NEW p \in Seq(B)
  PROVE  \E g : Steps(g, A, B, st, base, p)
<1>1. PICK g : FoldsOn(g, A, st, base, p, Len(p))
  BY FoldExists
<1>2. DOMAIN p = 1 .. Len(p) /\ Len(p) \in Nat /\ \A i \in 1 .. Len(p) : p[i] \in B
  BY LenProperties
<1>3. \A s \in SUBSET (1 .. Len(p)) : s # {} => Max(s) \in 1 .. Len(p) /\ s \ {Max(s)} \in SUBSET (1 .. Len(p))
  BY <1>2, GreatestIn
<1>4. \A s \in SUBSET (1 .. Len(p)) : s # {} =>
        g[s \ {Max(s)}] \in A /\ p[Max(s)] \in B /\ g[s] = st[<<g[s \ {Max(s)}], p[Max(s)]>>]
  BY <1>1, <1>2, <1>3 DEF FoldsOn
<1>5. g = [s \in SUBSET (DOMAIN p) |-> g[s]] /\ g[{}] = base
  BY <1>1, <1>2 DEF FoldsOn
<1> QED
  BY <1>2, <1>4, <1>5 DEF Steps

Stepped(st, a, x) == st[<<a, x>>]

OneStepMore(A, B, st, base, p, x, q, f, g) ==
  /\ p \in Seq(B) /\ x \in B /\ q = Append(p, x)
  /\ Folded(f, A, st, base, p) /\ Folded(g, A, st, base, q)

\* A fold over one more message is one more step.
LEMMA FoldedMore ==
  ASSUME NEW A, NEW B, NEW st, NEW base, NEW p, NEW x, NEW q, NEW f, NEW g, OneStepMore(A, B, st, base, p, x, q, f, g)
  PROVE  f[Len(p)] \in A /\ g[Len(q)] = Stepped(st, f[Len(p)], x)
<1>1. /\ q \in Seq(B) /\ Len(q) = Len(p) + 1 /\ Len(p) \in Nat /\ q[Len(p) + 1] = x
      /\ \A i \in 1 .. Len(p) : q[i] = p[i]
  BY AppendProperties, LenProperties DEF OneStepMore
<1>2. Folded(g, A, st, base, q) /\ Folded(f, A, st, base, p)
  BY DEF OneStepMore
<1> USE DEF Folded
<1> DEFINE T == {i \in 0 .. Len(p) : g[i] = f[i]}
<1>3. 0 \in T
  BY <1>1, <1>2
<1>4. ASSUME NEW i \in 1 .. Len(p), i - 1 \in T PROVE i \in T
  <2>1. i \in 1 .. Len(q) /\ i \in 0 .. Len(p) /\ i - 1 \in 0 .. Len(p)
    BY <1>1
  <2>2. g[i] = st[<<g[i - 1], q[i]>>] /\ f[i] = st[<<f[i - 1], p[i]>>]
    BY <1>2, <2>1
  <2> QED
    BY <1>1, <1>4, <2>1, <2>2
<1>5. Len(p) \in 0 .. Len(p) /\ Len(q) \in 1 .. Len(q) /\ Len(q) - 1 = Len(p)
  BY <1>1
<1> HIDE DEF T, Folded
<1>6. Len(p) \in T
  BY <1>1, <1>3, <1>4, <1>5, UpTo
<1>7. g[Len(p)] = f[Len(p)]
  BY <1>6 DEF T
<1>8. g[Len(q)] = st[<<g[Len(q) - 1], q[Len(q)]>>]
  BY <1>2, <1>5 DEF Folded
<1>9. f[Len(p)] \in A
  BY <1>2, <1>5 DEF Folded
<1> QED
  BY <1>1, <1>5, <1>7, <1>8, <1>9 DEF Stepped

Grows(F, A, B, st, base) ==
  /\ base \in A /\ \A p \in Seq(B) : F[p] \in A
  /\ F[<<>>] = base
  /\ \A p \in Seq(B), x \in B : F[Append(p, x)] = st[<<F[p], x>>]

LEMMA FoldGrows ==
  ASSUME NEW A, NEW B, NEW st \in [A \X B -> A], NEW base \in A, NEW F,
         \A p \in Seq(B) : \E f : Folded(f, A, st, base, p) /\ F[p] = f[Len(p)]
  PROVE  Grows(F, A, B, st, base)
<1>1. F[<<>>] = base
  <2>1. <<>> \in Seq(B) /\ Len(<<>>) = 0
    BY EmptySeq
  <2>2. PICK f : Folded(f, A, st, base, <<>>) /\ F[<<>>] = f[Len(<<>>)]
    BY <2>1
  <2> QED
    BY <2>1, <2>2 DEF Folded
<1>2. ASSUME NEW p \in Seq(B) PROVE F[p] \in A
  <2>1. PICK f : Folded(f, A, st, base, p) /\ F[p] = f[Len(p)]
    OBVIOUS
  <2>2. Len(p) \in 0 .. Len(p)
    BY LenProperties
  <2> QED
    BY <2>1, <2>2 DEF Folded
<1>3. ASSUME NEW p \in Seq(B), NEW x \in B PROVE F[Append(p, x)] = st[<<F[p], x>>]
  <2>1. PICK q : q = Append(p, x)
    OBVIOUS
  <2>2. q \in Seq(B)
    BY <2>1, AppendProperties
  <2>3. PICK f : Folded(f, A, st, base, p) /\ F[p] = f[Len(p)]
    OBVIOUS
  <2>4. PICK g : Folded(g, A, st, base, q) /\ F[q] = g[Len(q)]
    BY <2>2
  <2>5. OneStepMore(A, B, st, base, p, x, q, f, g)
    BY <2>1, <2>3, <2>4 DEF OneStepMore
  <2>6. g[Len(q)] = Stepped(st, f[Len(p)], x)
    BY <2>5, FoldedMore
  <2> QED
    BY <2>1, <2>3, <2>4, <2>6 DEF Stepped
<1> QED
  BY <1>1, <1>2, <1>3 DEF Grows

-----------------------------------------------------------------------------
(* FlattenSeq, by the same argument, and what it does of one sequence more.*)

FlatAt(f, U, s) ==
  /\ f \in [0 .. Len(s) -> Seq(U)]
  /\ f[0] = <<>> /\ FlattenSeq(s) = f[Len(s)]
  /\ \A i \in 1 .. Len(s) : f[i] = f[i - 1] \o s[i]

LEMMA FlattenFold ==
  ASSUME NEW U, NEW s \in Seq(Seq(U))
  PROVE  \E f : FlatAt(f, U, s)
<1> DEFINE A == Seq(U)
           st == [x \in A \X A |-> x[1] \o x[2]]
           n == Len(s)
           Flat(g) == g = [i \in 1 .. n |-> IF i = 1 THEN s[i] ELSE g[i - 1] \o s[i]]
           flatten == CHOOSE g : Flat(g)
<1>1. n \in Nat /\ DOMAIN s = 1 .. n /\ \A i \in 1 .. n : s[i] \in A
  BY LenProperties
<1>2. n # 0 => FlattenSeq(s) = flatten[n]
  BY Zenon DEF FlattenSeq
<1>3. n = 0 => FlattenSeq(s) = <<>>
  <2>1. n = 0 => FlattenSeq(s) = s
    BY Zenon DEF FlattenSeq
  <2>2. n = 0 => s = <<>>
    BY EmptySeq
  <2> QED
    BY <2>1, <2>2
<1>4. <<>> \in A /\ \A a, c \in A : a \o c \in A
  BY ConcatProperties
<1>5. \A c \in A : <<>> \o c = c
  BY ConcatEmptySeq
<1> HIDE DEF A
<1>6. st \in [A \X A -> A] /\ \A a, c \in A : st[<<a, c>>] = a \o c
  BY <1>4
<1>7. PICK f : ValuesOf(f, A, st, <<>>, s)
  <2> HIDE DEF st, n
  <2>1. s \in Seq(A)
    BY DEF A
  <2> QED
    BY <1>4, <1>6, <2>1, Folding
<1> HIDE DEF st
<1>8. f \in [0 .. n -> A] /\ f[0] = <<>> /\ \A i \in 1 .. n : f[i] = st[<<f[i - 1], s[i]>>]
  BY <1>7 DEF ValuesOf, Folded
<1> HIDE DEF n
<1>9. \A i \in 1 .. n : i - 1 \in 0 .. n /\ f[i - 1] \in A /\ f[i] = f[i - 1] \o s[i]
  <2> SUFFICES ASSUME NEW i \in 1 .. n PROVE i - 1 \in 0 .. n /\ f[i - 1] \in A /\ f[i] = f[i - 1] \o s[i]
    OBVIOUS
  <2>1. i - 1 \in 0 .. n
    BY <1>1
  <2>2. f[i - 1] \in A /\ s[i] \in A
    BY <1>1, <1>8, <2>1
  <2> QED
    BY <1>6, <1>8, <2>1, <2>2
<1>10. Flat([i \in 1 .. n |-> f[i]])
  <2> DEFINE g == [i \in 1 .. n |-> f[i]]
  <2>1. ASSUME NEW i \in 1 .. n PROVE g[i] = IF i = 1 THEN s[i] ELSE g[i - 1] \o s[i]
    <3>1. CASE i = 1
      <4>0. 1 \in 1 .. n /\ 1 - 1 = 0
        BY <3>1
      <4>1. f[1] = <<>> \o s[1] /\ s[1] \in A
        BY <1>1, <1>8, <1>9, <4>0
      <4>2. f[1] = s[1]
        BY <1>5, <4>1
      <4> QED
        BY <3>1, <4>2
    <3>2. CASE i # 1
      <4>1. i - 1 \in 1 .. n
        BY <1>1, <3>2
      <4>2. g[i - 1] = f[i - 1] /\ g[i] = f[i]
        BY <4>1
      <4> HIDE DEF g
      <4> QED
        BY <1>9, <3>2, <4>2
    <3> QED
      BY <3>1, <3>2
  <2>2. g = [i \in 1 .. n |-> g[i]]
    OBVIOUS
  <2> HIDE DEF g
  <2>3. Flat(g)
    BY <2>1, <2>2
  <2> QED
    BY <2>3 DEF g
<1>11. Flat(flatten)
  BY <1>10, Zenon
<1> HIDE DEF flatten
<1>12. \A i \in 1 .. n : flatten[i] = IF i = 1 THEN s[i] ELSE flatten[i - 1] \o s[i]
  BY <1>11
<1> DEFINE T == {i \in 0 .. n : i # 0 => flatten[i] = f[i]}
<1>13. 0 \in T
  BY <1>1
<1>14. ASSUME NEW i \in 1 .. n, i - 1 \in T PROVE i \in T
  <2>1. i \in 0 .. n /\ f[i] = f[i - 1] \o s[i] /\ i - 1 \in 0 .. n
    BY <1>1, <1>9
  <2>2. CASE i = 1
    <3>1. f[i] = <<>> \o s[i] /\ s[i] \in A
      BY <1>1, <1>8, <2>1, <2>2
    <3>2. f[i] = s[i]
      BY <1>5, <3>1
    <3> QED
      BY <1>12, <2>1, <2>2, <3>2
  <2>3. CASE i # 1
    <3>1. i - 1 # 0
      BY <2>3
    <3>2. flatten[i - 1] = f[i - 1]
      BY <1>14, <3>1
    <3> QED
      BY <1>12, <2>1, <2>3, <3>2
  <2> QED
    BY <2>2, <2>3
<1>15. n \in 0 .. n
  BY <1>1
<1> HIDE DEF T
<1>16. n \in T
  BY <1>1, <1>13, <1>14, <1>15, UpTo
<1>17. FlattenSeq(s) = f[n]
  BY <1>2, <1>3, <1>8, <1>16 DEF T
<1> QED
  BY <1>8, <1>9, <1>17 DEF FlatAt, A, n

LEMMA FlattenMore ==
  ASSUME NEW U, NEW s \in Seq(Seq(U)), NEW c \in Seq(U)
  PROVE  FlattenSeq(s) \in Seq(U) /\ FlattenSeq(Append(s, c)) = FlattenSeq(s) \o c
<1> DEFINE A == Seq(U)
           q == Append(s, c)
           n == Len(s)
<1>1. /\ q \in Seq(Seq(U)) /\ Len(q) = n + 1 /\ n \in Nat /\ q[n + 1] = c
      /\ \A i \in 1 .. n : q[i] = s[i]
  <2>1. s \in Seq(A) /\ c \in A
    OBVIOUS
  <2> HIDE DEF A
  <2>2. q \in Seq(A) /\ Len(q) = n + 1 /\ n \in Nat /\ q[n + 1] = c /\ \A i \in 1 .. n : q[i] = s[i]
    BY <2>1, AppendProperties, LenProperties
  <2> QED
    BY <2>2 DEF A
<1> HIDE DEF q, A
<1>2. PICK f : FlatAt(f, U, s)
  BY FlattenFold
<1>3. PICK h : FlatAt(h, U, q)
  BY <1>1, FlattenFold
<1> USE DEF FlatAt
<1> DEFINE T == {i \in 0 .. n : h[i] = f[i]}
<1>4. 0 \in T
  BY <1>1, <1>2, <1>3
<1>5. ASSUME NEW i \in 1 .. n, i - 1 \in T PROVE i \in T
  <2>1. i \in 1 .. Len(q) /\ i \in 0 .. n
    BY <1>1
  <2>2. h[i] = h[i - 1] \o q[i] /\ f[i] = f[i - 1] \o s[i] /\ h[i - 1] = f[i - 1] /\ q[i] = s[i]
    BY <1>1, <1>2, <1>3, <1>5, <2>1
  <2> QED
    BY <2>1, <2>2
<1>6. n \in 0 .. n /\ n + 1 \in 1 .. Len(q) /\ (n + 1) - 1 = n
  BY <1>1
<1> HIDE DEF T
<1>7. n \in T
  BY <1>1, <1>4, <1>5, <1>6, UpTo
<1>8. h[n] = f[n] /\ f[n] = FlattenSeq(s) /\ f[n] \in Seq(U)
  BY <1>2, <1>6, <1>7 DEF T
<1>9. FlattenSeq(q) = h[n + 1]
  BY <1>1, <1>3
<1>10. h[n + 1] = h[n] \o q[n + 1]
  <2>1. \A i \in 1 .. Len(q) : h[i] = h[i - 1] \o q[i]
    BY <1>3
  <2>2. h[n + 1] = h[(n + 1) - 1] \o q[n + 1]
    BY <1>6, <2>1, Zenon
  <2> QED
    BY <1>6, <2>2, Zenon
<1>11. FlattenSeq(q) = f[n] \o c
  BY <1>1, <1>6, <1>8, <1>9, <1>10
<1> QED
  BY <1>8, <1>11 DEF q
-----------------------------------------------------------------------------
(* What entries cost.                                                      *)

Entries == [first : Nat, last : Nat, bytes : Nat]
Cost(e) == EstimateTokens(e.bytes)

LEMMA LeastOf ==
  ASSUME NEW S, S \subseteq Nat, S # {}
  PROVE  Min(S) \in S /\ \A y \in S : Min(S) <= y
<1>1. \E x \in S : \A y \in S : x =< y
  BY LeastNatural
<1>2. Min(S) = CHOOSE x \in S : \A y \in S : x =< y
  BY DEF Min
<1> QED
  BY <1>1, <1>2, Zenon

LEMMA TokensAre ==
  ASSUME NEW b \in Nat
  PROVE  EstimateTokens(b) = IF b \div 4 <= 1 THEN 1 ELSE b \div 4
<1>1. b \div 4 \in Nat
  OBVIOUS
<1> DEFINE q == b \div 4
           S == {1, q}
<1> HIDE DEF q
<1>2. q \in Nat
  BY <1>1 DEF q
<1>3. \E x \in S : \A y \in S : x >= y
  BY <1>2
<1>4. Max(S) = CHOOSE x \in S : \A y \in S : x >= y
  BY DEF Max
<1>5. Max(S) \in S /\ \A y \in S : Max(S) >= y
  BY <1>3, <1>4, Zenon
<1>6. Max(S) = IF q <= 1 THEN 1 ELSE q
  BY <1>2, <1>5
<1>7. EstimateTokens(b) = Max(S)
  BY DEF EstimateTokens, q
<1> QED
  BY <1>6, <1>7 DEF q

LEMMA CostType == \A e \in Entries : Cost(e) \in Nat /\ Cost(e) >= 1
<1> SUFFICES ASSUME NEW e \in Entries PROVE Cost(e) \in Nat /\ Cost(e) >= 1
  OBVIOUS
<1>1. e.bytes \in Nat
  BY DEF Entries
<1>2. e.bytes \div 4 \in Nat
  BY <1>1
<1> QED
  BY <1>1, <1>2, TokensAre DEF Cost

Adding == [x \in Nat \X Entries |-> x[1] + Cost(x[2])]

LEMMA PassTokensFolds ==
  ASSUME NEW p \in Seq(Entries)
  PROVE  \E f : Folded(f, Nat, Adding, 0, p) /\ PassTokens(p) = f[Len(p)]
<1> DEFINE Folds(g) == g = [s \in SUBSET (DOMAIN p) |->
                              IF s = {} THEN 0 ELSE g[s \ {Max(s)}] + Cost(p[Max(s)])]
           fold == CHOOSE g : Folds(g)
<1>1. PassTokens(p) = fold[DOMAIN p]
  BY Zenon DEF PassTokens, Cost, FoldLeft, MapThenFoldSet
<1>2. DOMAIN p = 1 .. Len(p) /\ Len(p) \in Nat /\ \A i \in 1 .. Len(p) : p[i] \in Entries
  BY LenProperties
<1>3. 0 \in Nat /\ \A a \in Nat, x \in Entries : a + Cost(x) \in Nat
  BY CostType
<1>4. Adding \in [Nat \X Entries -> Nat] /\ \A a \in Nat, x \in Entries : Adding[<<a, x>>] = a + Cost(x)
  BY <1>3 DEF Adding
<1>5. Folds(fold)
  <2>1. PICK g : Steps(g, Nat, Entries, Adding, 0, p)
    BY <1>3, <1>4, FoldSteps
  <2>2. \A s \in SUBSET (DOMAIN p) : g[s] = IF s = {} THEN 0 ELSE g[s \ {Max(s)}] + Cost(p[Max(s)])
    BY <1>4, <2>1 DEF Steps
  <2>3. Folds(g)
    BY <2>1, <2>2 DEF Steps
  <2> HIDE DEF Folds
  <2> QED BY <2>3, Zenon
<1>6. FoldsIn(fold, Nat, Adding, 0, p, Len(p))
  <2> HIDE DEF fold
  <2>1. \A s \in SUBSET (1 .. Len(p)) : fold[s] = IF s = {} THEN 0 ELSE fold[s \ {Max(s)}] + Cost(p[Max(s)])
    BY <1>2, <1>5
  <2>2. \A s \in SUBSET (1 .. Len(p)) : s # {} => Max(s) \in 1 .. Len(p)
    BY <1>2, GreatestIn
  <2> QED
    BY <1>2, <1>4, <2>1, <2>2 DEF FoldsIn
<1>7. PICK f : ValuesOf(f, Nat, Adding, 0, p)
  BY <1>3, <1>4, Folding
<1> HIDE DEF fold, Folds
<1>8. Folded(f, Nat, Adding, 0, p) /\ fold[DOMAIN p] = f[Len(p)]
  BY <1>2, <1>6, <1>7 DEF ValuesOf
<1> QED
  BY <1>1, <1>8

LEMMA PassTokensGrow ==
  /\ PassTokens(<<>>) = 0
  /\ \A p \in Seq(Entries) : PassTokens(p) \in Nat
  /\ \A p \in Seq(Entries), e \in Entries : PassTokens(Append(p, e)) = PassTokens(p) + Cost(e)
<1> DEFINE F == [p \in Seq(Entries) |-> PassTokens(p)]
<1>1. \A p \in Seq(Entries) : \E f : Folded(f, Nat, Adding, 0, p) /\ PassTokens(p) = f[Len(p)]
  BY PassTokensFolds
<1>2. Adding \in [Nat \X Entries -> Nat] /\ \A a \in Nat, x \in Entries : Adding[<<a, x>>] = a + Cost(x)
  BY CostType DEF Adding
<1>3. \A p \in Seq(Entries) : F[p] = PassTokens(p)
  OBVIOUS
<1>4. <<>> \in Seq(Entries) /\ \A p \in Seq(Entries), e \in Entries : Append(p, e) \in Seq(Entries)
  BY EmptySeq, AppendProperties
<1> HIDE DEF F
<1>5. Grows(F, Nat, Entries, Adding, 0)
  BY <1>1, <1>2, <1>3, FoldGrows
<1> QED
  BY <1>2, <1>3, <1>4, <1>5 DEF Grows

\* What the entries up to each one cost together.
Sums(S, E) ==
  /\ S \in [0 .. Len(E) -> Nat]
  /\ \A j, k \in 0 .. Len(E) : j <= k => S[j] <= S[k] /\ PassTokens(SubSeq(E, j + 1, k)) = S[k] - S[j]
  /\ \A k \in 1 .. Len(E) : S[k] = S[k - 1] + Cost(E[k])

LEMMA SumsExist ==
  ASSUME NEW E \in Seq(Entries)
  PROVE  \E S : Sums(S, E)
<1> DEFINE n == Len(E)
           S == [k \in 0 .. n |-> PassTokens(SubSeq(E, 1, k))]
<1>1. n \in Nat /\ \A i \in 1 .. n : E[i] \in Entries
  BY LenProperties
<1>2. ASSUME NEW j \in 0 .. n, NEW k \in 0 .. n
      PROVE  SubSeq(E, j + 1, k) \in Seq(Entries) /\ PassTokens(SubSeq(E, j + 1, k)) \in Nat
  <2>1. \A i \in j + 1 .. k : E[i] \in Entries
    BY <1>1
  <2>2. SubSeq(E, j + 1, k) \in Seq(Entries)
    BY <1>1, <2>1, SubSeqProperties
  <2> QED
    BY <2>2, PassTokensGrow
<1>3. ASSUME NEW k \in 1 .. n, NEW j \in 0 .. n, j < k
      PROVE  PassTokens(SubSeq(E, j + 1, k)) = PassTokens(SubSeq(E, j + 1, k - 1)) + Cost(E[k])
  <2>1. j + 1 \in 1 .. Len(E) /\ k \in j + 1 .. Len(E) /\ k - 1 \in 0 .. n
    BY <1>1, <1>3
  <2>2. SubSeq(E, j + 1, k) = SubSeq(E, j + 1, k - 1) \o <<E[k]>>
    BY <2>1, SubSeqRecursiveSecond
  <2>3. SubSeq(E, j + 1, k - 1) \in Seq(Entries) /\ E[k] \in Entries
    BY <1>1, <1>2, <2>1
  <2>4. SubSeq(E, j + 1, k) = Append(SubSeq(E, j + 1, k - 1), E[k])
    BY <2>2, <2>3, AppendIsConcat
  <2> QED
    BY <2>3, <2>4, PassTokensGrow
<1>4. ASSUME NEW k \in 1 .. n PROVE S[k] = S[k - 1] + Cost(E[k])
  <2>1. k - 1 \in 0 .. n /\ k \in 0 .. n /\ 0 \in 0 .. n /\ 0 < k
    BY <1>1
  <2>2. PassTokens(SubSeq(E, 0 + 1, k)) = PassTokens(SubSeq(E, 0 + 1, k - 1)) + Cost(E[k])
    BY <1>3, <2>1
  <2> QED
    BY <2>1, <2>2
<1>5. S \in [0 .. n -> Nat]
  <2>1. \A k \in 0 .. n : PassTokens(SubSeq(E, 0 + 1, k)) \in Nat
    BY <1>1, <1>2
  <2> QED
    BY <2>1
<1> HIDE DEF S
<1>6. ASSUME NEW j \in 0 .. n
      PROVE  \A k \in 0 .. n : j <= k => PassTokens(SubSeq(E, j + 1, k)) = S[k] - S[j]
  <2> DEFINE T == {k \in 0 .. n : j <= k => PassTokens(SubSeq(E, j + 1, k)) = S[k] - S[j]}
  <2>1. PassTokens(SubSeq(E, j + 1, j)) = S[j] - S[j]
    <3>1. SubSeq(E, j + 1, j) = <<>>
      BY <1>1, SubSeqEmpty
    <3>2. S[j] \in Nat
      BY <1>5
    <3>3. PassTokens(<<>>) = 0 /\ S[j] - S[j] = 0
      BY <3>2, PassTokensGrow
    <3>4. PassTokens(SubSeq(E, j + 1, j)) = PassTokens(<<>>)
      BY <3>1, Zenon
    <3> QED
      BY <3>3, <3>4, Zenon
  <2>2. 0 \in T
    <3>1. j <= 0 => j = 0
      BY <1>1
    <3> QED
      BY <1>1, <2>1, <3>1
  <2>3. ASSUME NEW k \in 1 .. n, k - 1 \in T PROVE k \in T
    <3>1. k \in 0 .. n /\ k - 1 \in 0 .. n
      BY <1>1
    <3>2. CASE j < k
      <4>1. PassTokens(SubSeq(E, j + 1, k - 1)) = S[k - 1] - S[j]
        BY <2>3, <3>1, <3>2
      <4>2. S[k] \in Nat /\ S[k - 1] \in Nat /\ S[j] \in Nat /\ E[k] \in Entries
        BY <1>1, <1>5, <3>1
      <4>3. PassTokens(SubSeq(E, j + 1, k)) = PassTokens(SubSeq(E, j + 1, k - 1)) + Cost(E[k])
        BY <1>3, <3>2
      <4>4. S[k] = S[k - 1] + Cost(E[k]) /\ Cost(E[k]) \in Nat
        BY <1>4, <4>2, CostType
      <4> QED
        BY <3>1, <4>1, <4>2, <4>3, <4>4
    <3>3. CASE j = k
      BY <2>1, <3>1, <3>3
    <3>4. CASE j > k
      BY <3>1, <3>4
    <3> QED
      BY <1>1, <3>2, <3>3, <3>4
  <2> HIDE DEF T
  <2>4. \A k \in 0 .. n : k \in T
    BY <1>1, <2>2, <2>3, UpTo
  <2> QED
    BY <2>4 DEF T
<1>7. ASSUME NEW j \in 0 .. n, NEW k \in 0 .. n, j <= k
      PROVE  S[j] <= S[k] /\ PassTokens(SubSeq(E, j + 1, k)) = S[k] - S[j]
  <2>1. PassTokens(SubSeq(E, j + 1, k)) = S[k] - S[j] /\ PassTokens(SubSeq(E, j + 1, k)) \in Nat
    BY <1>2, <1>6, <1>7
  <2>2. S[j] \in Nat /\ S[k] \in Nat
    BY <1>5
  <2> QED
    BY <2>1, <2>2
<1> QED
  BY <1>4, <1>5, <1>7 DEF Sums

-----------------------------------------------------------------------------
(* The fewest passes. What FewestPasses computes is, for the first n       *)
(* entries, one more than for where the last pass may begin.               *)

\* Places a pass that ends with the entry at k may begin after.
FitsAfter(S, budget, k) == {j \in 0 .. k - 1 : S[k] - S[j] <= budget}

Fewest(f, S, n, budget) ==
  /\ f \in [0 .. n -> Nat] /\ f[0] = 0
  /\ \A k \in 1 .. n :
       /\ \E j \in FitsAfter(S, budget, k) : f[k] = 1 + f[j]
       /\ \A j \in FitsAfter(S, budget, k) : f[k] <= 1 + f[j]

LeastIn(f, s) == Min({f[j] : j \in s})

LEMMA LeastInIs ==
  ASSUME NEW m \in Nat, NEW f, NEW s, s \subseteq 0 .. m, s # {}, \A j \in 0 .. m : f[j] \in Nat
  PROVE  /\ LeastIn(f, s) \in Nat
         /\ \E j \in s : LeastIn(f, s) = f[j]
         /\ \A j \in s : LeastIn(f, s) <= f[j]
<1> DEFINE v == {f[j] : j \in s}
<1>1. v \subseteq Nat /\ v # {}
  OBVIOUS
<1>2. \A j \in s : f[j] \in v
  OBVIOUS
<1>3. \A x \in v : \E j \in s : x = f[j]
  OBVIOUS
<1>4. LeastIn(f, s) = Min(v)
  BY DEF LeastIn
<1> HIDE DEF v
<1>5. Min(v) \in v /\ \A y \in v : Min(v) <= y
  BY <1>1, LeastOf
<1> QED
  BY <1>1, <1>2, <1>3, <1>4, <1>5

LEMMA LeastInSame ==
  ASSUME NEW f, NEW g, NEW s, \A j \in s : f[j] = g[j]
  PROVE  LeastIn(f, s) = LeastIn(g, s)
<1>1. {f[j] : j \in s} = {g[j] : j \in s}
  OBVIOUS
<1> QED
  BY <1>1, Zenon DEF LeastIn

UpToEach(f, S, m, budget) ==
  /\ f \in [0 .. m -> Nat] /\ f[0] = 0
  /\ \A k \in 1 .. m : f[k] = 1 + LeastIn(f, FitsAfter(S, budget, k))

LEMMA FewestExists ==
  ASSUME NEW n \in Nat, NEW S, NEW budget, \A k \in 1 .. n : FitsAfter(S, budget, k) # {}
  PROVE  \E f : UpToEach(f, S, n, budget)
<1> DEFINE T == {m \in 0 .. n : \E f : UpToEach(f, S, m, budget)}
<1>1. 0 \in T
  <2> DEFINE f == [k \in 0 .. 0 |-> 0]
  <2>1. UpToEach(f, S, 0, budget)
    BY DEF UpToEach
  <2> QED
    BY <2>1
<1>2. ASSUME NEW m \in 1 .. n, m - 1 \in T PROVE m \in T
  <2>1. PICK f : UpToEach(f, S, m - 1, budget)
    BY <1>2
  <2>2. m \in Nat /\ m - 1 \in Nat /\ m \in 0 .. n
    OBVIOUS
  <2>3. \A k \in 1 .. m : FitsAfter(S, budget, k) \subseteq 0 .. m - 1 /\ FitsAfter(S, budget, k) # {}
    BY DEF FitsAfter
  <2>4. \A j \in 0 .. m - 1 : f[j] \in Nat
    BY <2>1 DEF UpToEach
  <2>5. LeastIn(f, FitsAfter(S, budget, m)) \in Nat
    <3>1. m \in 1 .. m
      BY <2>2
    <3> QED
      BY <2>2, <2>3, <2>4, <3>1, LeastInIs
  <2> DEFINE g == [k \in 0 .. m |-> IF k = m THEN 1 + LeastIn(f, FitsAfter(S, budget, m)) ELSE f[k]]
  <2>6. g \in [0 .. m -> Nat] /\ g[0] = 0
    <3>1. \A k \in 0 .. m : k # m => k \in 0 .. m - 1
      BY <2>2
    <3>2. 0 \in 0 .. m - 1 /\ 0 # m /\ 0 \in 0 .. m
      BY <2>2
    <3>3. f[0] = 0
      BY <2>1 DEF UpToEach
    <3> QED
      BY <2>4, <2>5, <3>1, <3>2, <3>3
  <2>7. \A j \in 0 .. m - 1 : g[j] = f[j]
    BY <2>2
  <2>8. g[m] = 1 + LeastIn(f, FitsAfter(S, budget, m))
    BY <2>2
  <2> HIDE DEF g
  <2>9. ASSUME NEW k \in 1 .. m PROVE g[k] = 1 + LeastIn(g, FitsAfter(S, budget, k))
    <3>1. LeastIn(g, FitsAfter(S, budget, k)) = LeastIn(f, FitsAfter(S, budget, k))
      <4>1. \A j \in FitsAfter(S, budget, k) : g[j] = f[j]
        BY <2>3, <2>7
      <4> QED
        BY <4>1, LeastInSame
    <3>2. CASE k = m
      BY <2>8, <3>1, <3>2, Zenon
    <3>3. CASE k # m
      <4>1. k \in 1 .. m - 1 /\ k \in 0 .. m - 1
        BY <2>2, <3>3
      <4>2. f[k] = 1 + LeastIn(f, FitsAfter(S, budget, k))
        BY <2>1, <4>1 DEF UpToEach
      <4> QED
        BY <2>7, <3>1, <4>1, <4>2
    <3> QED
      BY <3>2, <3>3
  <2>10. UpToEach(g, S, m, budget)
    BY <2>6, <2>9 DEF UpToEach
  <2> QED
    BY <2>2, <2>10
<1>3. n \in 0 .. n
  OBVIOUS
<1> HIDE DEF T
<1>4. n \in T
  BY <1>1, <1>2, <1>3, UpTo
<1> QED
  BY <1>4 DEF T

LEMMA FewestPassesIs ==
  ASSUME NEW E \in Seq(Entries), NEW S, Sums(S, E), NEW budget \in Nat, \A i \in 1 .. Len(E) : Cost(E[i]) <= budget
  PROVE  \E f : Fewest(f, S, Len(E), budget) /\ FewestPasses(E, budget) = f[Len(E)]
<1> DEFINE n == Len(E)
           Is(g) == g = [k \in 0 .. n |->
                           IF k = 0 THEN 0
                           ELSE 1 + Min({g[j] : j \in {j \in 0 .. k - 1 : PassTokens(SubSeq(E, j + 1, k)) <= budget}})]
           fewest == CHOOSE g : Is(g)
<1>1. FewestPasses(E, budget) = fewest[n]
  BY Zenon DEF FewestPasses
<1>2. n \in Nat /\ \A i \in 1 .. n : E[i] \in Entries
  BY LenProperties
<1>3. ASSUME NEW k \in 1 .. n
      PROVE  /\ {j \in 0 .. k - 1 : PassTokens(SubSeq(E, j + 1, k)) <= budget} = FitsAfter(S, budget, k)
             /\ FitsAfter(S, budget, k) # {} /\ FitsAfter(S, budget, k) \subseteq 0 .. n
  <2>1. k \in 0 .. n /\ \A j \in 0 .. k - 1 : j \in 0 .. n /\ j <= k
    BY <1>2
  <2>2. \A j \in 0 .. k - 1 : PassTokens(SubSeq(E, j + 1, k)) = S[k] - S[j]
    BY <2>1 DEF Sums
  <2>3. {j \in 0 .. k - 1 : PassTokens(SubSeq(E, j + 1, k)) <= budget} = FitsAfter(S, budget, k)
    BY <2>2 DEF FitsAfter
  <2>4. k - 1 \in 0 .. k - 1 /\ k - 1 \in 0 .. n
    BY <1>2
  <2>5. S[k] = S[k - 1] + Cost(E[k]) /\ S[k - 1] \in Nat /\ Cost(E[k]) \in Nat /\ Cost(E[k]) <= budget
    BY <1>2, <2>4, CostType DEF Sums
  <2>6. S[k] - S[k - 1] <= budget
    BY <2>5
  <2>7. k - 1 \in FitsAfter(S, budget, k)
    BY <2>4, <2>6 DEF FitsAfter
  <2>8. FitsAfter(S, budget, k) \subseteq 0 .. n
    BY <2>1 DEF FitsAfter
  <2> QED
    BY <2>3, <2>7, <2>8
<1>4. PICK f : UpToEach(f, S, n, budget)
  BY <1>2, <1>3, FewestExists
<1>5. Is(f)
  <2>1. f = [k \in 0 .. n |-> f[k]]
    BY <1>4 DEF UpToEach
  <2>2. ASSUME NEW k \in 0 .. n
        PROVE  f[k] = IF k = 0 THEN 0
                      ELSE 1 + Min({f[j] : j \in {j \in 0 .. k - 1 : PassTokens(SubSeq(E, j + 1, k)) <= budget}})
    <3>1. CASE k = 0
      BY <1>4, <3>1 DEF UpToEach
    <3>2. CASE k # 0
      <4>1. k \in 1 .. n
        BY <1>2, <3>2
      <4>2. f[k] = 1 + LeastIn(f, FitsAfter(S, budget, k))
        BY <1>4, <4>1 DEF UpToEach
      <4>3. {j \in 0 .. k - 1 : PassTokens(SubSeq(E, j + 1, k)) <= budget} = FitsAfter(S, budget, k)
        BY <1>3, <4>1
      <4>4. LeastIn(f, FitsAfter(S, budget, k))
              = Min({f[j] : j \in {j \in 0 .. k - 1 : PassTokens(SubSeq(E, j + 1, k)) <= budget}})
        BY <4>3, Zenon DEF LeastIn
      <4> QED
        BY <3>2, <4>2, <4>4, Zenon
    <3> QED
      BY <3>1, <3>2, Zenon
  <2> QED
    BY <2>1, <2>2, Zenon
<1>6. Is(fewest)
  <2> HIDE DEF Is
  <2> QED BY <1>5, Zenon
<1> HIDE DEF fewest
<1>7. fewest[0] = 0 /\ \A k \in 1 .. n : fewest[k] = 1 + LeastIn(fewest, FitsAfter(S, budget, k))
  <2>1. \A k \in 0 .. n :
          fewest[k] = IF k = 0 THEN 0
                      ELSE 1 + Min({fewest[j] : j \in {j \in 0 .. k - 1 : PassTokens(SubSeq(E, j + 1, k)) <= budget}})
    BY <1>6, Zenon
  <2>2. 0 \in 0 .. n /\ \A k \in 1 .. n : k \in 0 .. n /\ k # 0
    BY <1>2
  <2>3. fewest[0] = 0
    BY <2>1, <2>2, Zenon
  <2>4. ASSUME NEW k \in 1 .. n PROVE fewest[k] = 1 + LeastIn(fewest, FitsAfter(S, budget, k))
    <3>1. {j \in 0 .. k - 1 : PassTokens(SubSeq(E, j + 1, k)) <= budget} = FitsAfter(S, budget, k)
      BY <1>3
    <3>2. fewest[k] = 1 + Min({fewest[j] : j \in {j \in 0 .. k - 1 : PassTokens(SubSeq(E, j + 1, k)) <= budget}})
      BY <2>1, <2>2, Zenon
    <3> QED
      BY <3>1, <3>2, Zenon DEF LeastIn
  <2> QED
    BY <2>3, <2>4
<1>8. \A k \in 0 .. n : fewest[k] \in Nat
  <2> DEFINE T == {k \in 0 .. n : \A j \in 0 .. k : fewest[j] \in Nat}
  <2>1. 0 \in T
    BY <1>2, <1>7
  <2>2. ASSUME NEW k \in 1 .. n, k - 1 \in T PROVE k \in T
    <3>1. \A j \in 0 .. k - 1 : fewest[j] \in Nat
      BY <2>2
    <3>2. FitsAfter(S, budget, k) \subseteq 0 .. k - 1 /\ k - 1 \in Nat
      BY DEF FitsAfter
    <3>3. LeastIn(fewest, FitsAfter(S, budget, k)) \in Nat
      BY <1>3, <3>1, <3>2, LeastInIs
    <3>4. fewest[k] \in Nat
      BY <1>7, <3>3
    <3>5. k \in 0 .. n /\ \A j \in 0 .. k : j \in 0 .. k - 1 \/ j = k
      OBVIOUS
    <3> QED
      BY <3>1, <3>4, <3>5
  <2> HIDE DEF T
  <2>3. \A k \in 0 .. n : k \in T
    BY <1>2, <2>1, <2>2, UpTo
  <2> QED
    BY <2>3 DEF T
<1> DEFINE h == [k \in 0 .. n |-> fewest[k]]
<1>9. h \in [0 .. n -> Nat] /\ \A k \in 0 .. n : h[k] = fewest[k]
  BY <1>8
<1> HIDE DEF h
<1>10. ASSUME NEW k \in 1 .. n
       PROVE  /\ \E j \in FitsAfter(S, budget, k) : h[k] = 1 + h[j]
              /\ \A j \in FitsAfter(S, budget, k) : h[k] <= 1 + h[j]
  <2>1. FitsAfter(S, budget, k) # {} /\ FitsAfter(S, budget, k) \subseteq 0 .. n
    BY <1>3
  <2>2. PICK least : least = LeastIn(fewest, FitsAfter(S, budget, k))
    OBVIOUS
  <2>3. /\ least \in Nat /\ \E j \in FitsAfter(S, budget, k) : least = fewest[j]
        /\ \A j \in FitsAfter(S, budget, k) : least <= fewest[j]
    BY <1>2, <1>8, <2>1, <2>2, LeastInIs
  <2>4. h[k] = 1 + least
    BY <1>7, <1>9, <2>2
  <2>5. \A j \in FitsAfter(S, budget, k) : h[j] = fewest[j] /\ fewest[j] \in Nat
    BY <1>8, <1>9, <2>1
  <2>6. PICK j \in FitsAfter(S, budget, k) : least = fewest[j]
    BY <2>3
  <2>7. h[k] = 1 + h[j]
    BY <2>4, <2>5, <2>6
  <2>8. ASSUME NEW i \in FitsAfter(S, budget, k) PROVE h[k] <= 1 + h[i]
    <3>1. least <= fewest[i] /\ h[i] = fewest[i] /\ fewest[i] \in Nat
      BY <2>3, <2>5
    <3> QED
      BY <2>3, <2>4, <3>1
  <2> QED
    BY <2>7, <2>8
<1>11. h[0] = 0 /\ FewestPasses(E, budget) = h[n]
  BY <1>1, <1>2, <1>7, <1>9
<1> QED
  BY <1>9, <1>10, <1>11 DEF Fewest

-----------------------------------------------------------------------------
(* Filling a pass as far as it goes takes the fewest passes. A pass begun  *)
(* after the entry at from, of as many passes as count, holds what comes   *)
(* after it up to k; beginning it later takes as many passes, and where    *)
(* fewer passes would do, a pass could not hold what this one begins with. *)

Filled(f, S, budget, k, from, count) ==
  /\ from \in 0 .. k - 1 /\ count \in Nat \ {0}
  /\ f[from] = count - 1
  /\ \A j \in from + 1 .. k : f[j] = count
  /\ S[k] - S[from] <= budget
  /\ \A j \in 0 .. from : f[j] < count - 1 => S[from + 1] - S[j] > budget

Grow(S, n) == S \in [0 .. n -> Nat] /\ \A j, k \in 0 .. n : j <= k => S[j] <= S[k]

LEMMA FilledFirst ==
  ASSUME NEW n \in Nat, n # 0, NEW S, Grow(S, n), NEW budget \in Nat, NEW f, Fewest(f, S, n, budget), S[1] - S[0] <= budget
  PROVE  Filled(f, S, budget, 1, 0, 1)
<1>1. 0 \in 0 .. n /\ 1 \in 0 .. n /\ 1 \in 1 .. n /\ 0 \in 0 .. 1 - 1
  OBVIOUS
<1>2. FitsAfter(S, budget, 1) \subseteq {0}
  BY DEF FitsAfter
<1>3. f[0] = 0 /\ \E j \in FitsAfter(S, budget, 1) : f[1] = 1 + f[j]
  BY <1>1 DEF Fewest
<1>4. f[1] = 1
  BY <1>2, <1>3
<1>5. \A j \in 0 + 1 .. 1 : f[j] = 1
  BY <1>4
<1>6. \A j \in 0 .. 0 : ~(f[j] < 1 - 1)
  BY <1>3
<1> QED
  BY <1>1, <1>3, <1>5, <1>6 DEF Filled

LEMMA FilledMore ==
  ASSUME NEW n \in Nat, NEW S, Grow(S, n), NEW budget \in Nat, NEW f, Fewest(f, S, n, budget),
         NEW k \in 1 .. n, k < n, NEW from, NEW count, Filled(f, S, budget, k, from, count),
         S[k + 1] - S[from] <= budget
  PROVE  Filled(f, S, budget, k + 1, from, count)
<1>1. /\ k + 1 \in 1 .. n /\ k + 1 \in 0 .. n /\ from \in 0 .. n /\ from \in 0 .. (k + 1) - 1 /\ from + 1 \in 0 .. n
      /\ from + 1 <= k + 1 /\ count \in Nat /\ count # 0
  BY DEF Filled
<1>2. f[from] = count - 1
  BY DEF Filled
<1>3. from \in FitsAfter(S, budget, k + 1)
  BY <1>1 DEF FitsAfter
<1>4. f[k + 1] <= count
  <2>1. f[k + 1] <= 1 + f[from]
    BY <1>1, <1>3 DEF Fewest
  <2> QED
    BY <1>1, <1>2, <2>1
<1>5. PICK j \in FitsAfter(S, budget, k + 1) : f[k + 1] = 1 + f[j]
  BY <1>1 DEF Fewest
<1>6. j \in 0 .. k /\ j \in 0 .. n /\ S[k + 1] - S[j] <= budget
  BY <1>1 DEF FitsAfter
<1>7. f[j] \in Nat /\ f[k + 1] \in Nat
  BY <1>1, <1>6 DEF Fewest
<1>8. f[j] >= count - 1
  <2>1. CASE j \in from + 1 .. k
    <3>1. f[j] = count
      BY <2>1 DEF Filled
    <3> QED
      BY <1>1, <3>1
  <2>2. CASE j \in 0 .. from
    <3>1. S[from + 1] <= S[k + 1] /\ S[from + 1] \in Nat /\ S[k + 1] \in Nat /\ S[j] \in Nat
      BY <1>1, <1>6 DEF Grow
    <3>2. ~(S[from + 1] - S[j] > budget)
      BY <1>6, <3>1
    <3>3. ~(f[j] < count - 1)
      BY <2>2, <3>2 DEF Filled
    <3> QED
      BY <1>1, <1>7, <3>3
  <2> QED
    BY <1>1, <1>6, <2>1, <2>2
<1>9. f[k + 1] = count
  BY <1>1, <1>4, <1>5, <1>7, <1>8
<1>10. \A i \in from + 1 .. k + 1 : i \in from + 1 .. k \/ i = k + 1
  BY <1>1
<1>11. \A i \in from + 1 .. k + 1 : f[i] = count
  BY <1>9, <1>10 DEF Filled
<1> QED
  BY <1>1, <1>2, <1>11 DEF Filled

LEMMA FilledAnew ==
  ASSUME NEW n \in Nat, NEW S, Grow(S, n), NEW budget \in Nat, NEW f, Fewest(f, S, n, budget),
         NEW k \in 1 .. n, k < n, NEW from, NEW count, Filled(f, S, budget, k, from, count),
         S[k + 1] - S[from] > budget, S[k + 1] - S[k] <= budget
  PROVE  Filled(f, S, budget, k + 1, k, count + 1)
<1>1. /\ k + 1 \in 1 .. n /\ k + 1 \in 0 .. n /\ k \in 0 .. n /\ from \in 0 .. n /\ k \in 0 .. (k + 1) - 1
      /\ from \in Nat /\ from < k /\ count \in Nat /\ count # 0 /\ count + 1 \in Nat \ {0}
  BY DEF Filled
<1>2. ASSUME NEW j \in 0 .. from PROVE S[k + 1] - S[j] > budget
  <2>1. j \in 0 .. n /\ j <= from
    BY <1>1
  <2>2. S[j] <= S[from] /\ S[j] \in Nat /\ S[from] \in Nat /\ S[k + 1] \in Nat
    BY <1>1, <2>1 DEF Grow
  <2> QED
    BY <2>2
<1>3. \A j \in from + 1 .. k : f[j] = count
  BY DEF Filled
<1>4. f[k] = (count + 1) - 1
  BY <1>1, <1>3
<1>5. f[k + 1] = count + 1
  <2>1. PICK j \in FitsAfter(S, budget, k + 1) : f[k + 1] = 1 + f[j]
    BY <1>1 DEF Fewest
  <2>2. j \in 0 .. k /\ S[k + 1] - S[j] <= budget
    BY <1>1 DEF FitsAfter
  <2>3. j \notin 0 .. from
    <3>1. j \in 0 .. n /\ S[k + 1] \in Nat /\ S[j] \in Nat
      BY <1>1, <2>2 DEF Grow
    <3> QED
      BY <1>2, <2>2, <3>1
  <2>4. j \in from + 1 .. k
    BY <1>1, <2>2, <2>3
  <2> QED
    BY <1>1, <1>3, <2>1, <2>4
<1>6. \A j \in k + 1 .. k + 1 : f[j] = count + 1
  BY <1>1, <1>5
<1>7. ASSUME NEW j \in 0 .. k, f[j] < (count + 1) - 1 PROVE S[k + 1] - S[j] > budget
  <2>1. j \notin from + 1 .. k
    BY <1>1, <1>3, <1>7
  <2>2. j \in 0 .. from
    BY <1>1, <2>1
  <2> QED
    BY <1>2, <2>2
<1> QED
  BY <1>1, <1>4, <1>6, <1>7 DEF Filled

\* What has been filled is as few as can be.
LEMMA FilledIsFewest ==
  ASSUME NEW f, NEW S, NEW budget, NEW k \in Nat, NEW from, NEW count, Filled(f, S, budget, k, from, count)
  PROVE  f[k] = count
<1>1. k \in from + 1 .. k
  BY DEF Filled
<1> QED
  BY <1>1 DEF Filled

-----------------------------------------------------------------------------
(* An entry fits a pass once it is cut.                                    *)

LEMMA GreaterOf ==
  ASSUME NEW x \in Nat, NEW y \in Nat
  PROVE  Max({x, y}) = IF x <= y THEN y ELSE x
<1> DEFINE S == {x, y}
<1>1. \E u \in S : \A v \in S : u >= v
  OBVIOUS
<1>2. Max(S) = CHOOSE u \in S : \A v \in S : u >= v
  BY DEF Max
<1>3. Max(S) \in S /\ \A v \in S : Max(S) >= v
  BY <1>1, <1>2, Zenon
<1> QED
  BY <1>3

LEMMA LesserOf ==
  ASSUME NEW x \in Nat, NEW y \in Nat
  PROVE  Min({x, y}) = IF x <= y THEN x ELSE y
<1> DEFINE S == {x, y}
<1>1. S \subseteq Nat /\ S # {}
  OBVIOUS
<1>2. Min(S) \in S /\ \A v \in S : Min(S) <= v
  BY <1>1, LeastOf
<1> QED
  BY <1>2

LEMMA BudgetIs ==
  ASSUME NEW w \in Nat
  PROVE  DraftBudget(w) \in Nat /\ DraftBudget(w) >= 256
<1> DEFINE d == (IF w = 0 THEN 2048 ELSE w) - 700
           S == {256, d}
<1>1. d \in Int
  OBVIOUS
<1>2. DraftBudget(w) = Max(S)
  BY DEF DraftBudget
<1> HIDE DEF d
<1>3. \E u \in S : \A v \in S : u >= v
  BY <1>1
<1>4. Max(S) = CHOOSE u \in S : \A v \in S : u >= v
  BY DEF Max
<1>5. Max(S) \in S /\ \A v \in S : Max(S) >= v
  BY <1>3, <1>4, ZenonT(60)
<1> QED
  BY <1>1, <1>2, <1>5

LEMMA FitEntryFits ==
  ASSUME NEW e \in Entries, NEW budget \in Nat, budget >= 256, NEW back \in 0 .. 3
  PROVE  FitEntry(e, budget, back) \in Entries /\ Cost(FitEntry(e, budget, back)) <= budget
           /\ FitEntry(e, budget, back).first = e.first
<1>1. e.bytes \in Nat /\ e.first \in Nat /\ e.last \in Nat
  BY DEF Entries
<1>2. CASE EstimateTokens(e.bytes) <= budget
  BY <1>2 DEF FitEntry, Cost
<1>3. CASE ~(EstimateTokens(e.bytes) <= budget)
  <2> DEFINE most == Max({4 * budget, 4}) - 4
             kept == CutMarked(e.bytes, most, Min({back, most}))
  <2>1. Max({4 * budget, 4}) = 4 * budget
    <3>1. 4 * budget \in Nat /\ 4 \in Nat /\ 4 * budget > 4
      OBVIOUS
    <3> QED
      BY <3>1, GreaterOf
  <2>2. most = 4 * budget - 4 /\ most \in Nat /\ most > 3
    BY <2>1
  <2>3. Min({back, most}) = back
    <3>1. back \in Nat /\ back <= most
      BY <2>2
    <3> HIDE DEF most
    <3> QED
      BY <2>2, <3>1, LesserOf
  <2>4. ~(e.bytes <= most)
    <3>1. e.bytes \div 4 > budget
      BY <1>1, <1>3, TokensAre
    <3> QED
      BY <1>1, <2>2, <3>1
  <2>5. kept = 4 * budget - 4 - back + 3
    <3>1. kept = most - back + 3
      BY <2>3, <2>4 DEF CutMarked
    <3> QED
      BY <2>2, <3>1
  <2>6. FitEntry(e, budget, back) = [e EXCEPT !.bytes = kept]
    BY <1>3 DEF FitEntry
  <2> HIDE DEF kept, most
  <2>7. kept \in Nat /\ kept < 4 * budget
    BY <2>5
  <2>8. kept \div 4 <= budget
    BY <2>7
  <2>9. EstimateTokens(kept) <= budget
    BY <2>7, <2>8, TokensAre
  <2>10. [e EXCEPT !.bytes = kept] \in Entries /\ [e EXCEPT !.bytes = kept].bytes = kept
           /\ [e EXCEPT !.bytes = kept].first = e.first
    BY <1>1, <2>7 DEF Entries
  <2> QED
    BY <2>6, <2>9, <2>10 DEF Cost
<1> QED
  BY <1>2, <1>3

-----------------------------------------------------------------------------
(* How the passes come to be.                                              *)

Passes == Seq(Seq(Entries))

PutIn(passes, e, budget, back) ==
  IF passes = <<>> \/ PassTokens(Last(passes)) + EstimateTokens(FitEntry(e, budget, back).bytes) > budget
  THEN Append(passes, <<FitEntry(e, budget, back)>>)
  ELSE [passes EXCEPT ![Len(passes)] = Append(@, FitEntry(e, budget, back))]

LEMMA OnePass ==
  ASSUME NEW e \in Entries
  PROVE  <<e>> \in Seq(Entries) /\ <<e>> = Append(<<>>, e) /\ Len(<<e>>) = 1 /\ <<e>>[1] = e /\ <<e>> # <<>>
<1>1. <<e>> \in Seq(Entries) /\ Len(<<e>>) = 1 /\ <<e>>[1] = e
  OBVIOUS
<1>2. <<>> \in Seq(Entries)
  BY EmptySeq
<1>3. Append(<<>>, e) = <<>> \o <<e>>
  BY <1>2, AppendIsConcat
<1>4. <<>> \o <<e>> = <<e>>
  BY <1>1, ConcatEmptySeq
<1>5. <<e>> # <<>>
  BY <1>1
<1> QED
  BY <1>1, <1>3, <1>4, <1>5

LEMMA PutInType ==
  ASSUME NEW passes \in Passes, NEW e \in Entries, NEW budget \in Nat, budget >= 256, NEW back \in 0 .. 3
  PROVE  PutIn(passes, e, budget, back) \in Passes
<1> DEFINE A == Seq(Entries)
           fit == FitEntry(e, budget, back)
<1>1. fit \in Entries
  BY FitEntryFits
<1>2. <<fit>> \in A /\ \A p \in A : Append(p, fit) \in A
  BY <1>1, OnePass, AppendProperties
<1>3. passes \in Seq(A)
  BY DEF Passes
<1> HIDE DEF A, fit
<1>4. Append(passes, <<fit>>) \in Seq(A)
  BY <1>2, <1>3, AppendProperties
<1>5. passes # <<>> => [passes EXCEPT ![Len(passes)] = Append(@, fit)] \in Seq(A)
  <2> SUFFICES ASSUME passes # <<>> PROVE [passes EXCEPT ![Len(passes)] = Append(@, fit)] \in Seq(A)
    OBVIOUS
  <2>1. Len(passes) \in 1 .. Len(passes)
    BY <1>3, EmptySeq
  <2>2. passes[Len(passes)] \in A
    BY <1>3, <2>1, ElementOfSeq
  <2>3. Append(passes[Len(passes)], fit) \in A
    BY <1>2, <2>2
  <2>4. [passes EXCEPT ![Len(passes)] = Append(passes[Len(passes)], fit)] \in Seq(A)
    BY <1>3, <2>1, <2>3, ExceptSeq
  <2> QED
    BY <2>4
<1> QED
  BY <1>4, <1>5, Zenon DEF PutIn, Passes, A, fit

SplitsAt(f, entries, budget, back) ==
  /\ f \in [0 .. Len(entries) -> Passes] /\ f[0] = <<>>
  /\ SplitPasses(entries, budget, back) = f[Len(entries)]
  /\ \A i \in 1 .. Len(entries) : f[i] = PutIn(f[i - 1], entries[i], budget, back)

LEMMA SplitFold ==
  ASSUME NEW p \in Seq(Entries), NEW budget \in Nat, budget >= 256, NEW back \in 0 .. 3
  PROVE  \E f : SplitsAt(f, p, budget, back)
<1> DEFINE A == Passes
           st == [x \in A \X Entries |-> PutIn(x[1], x[2], budget, back)]
           Folds(g) == g = [s \in SUBSET (DOMAIN p) |->
                              IF s = {} THEN <<>> ELSE PutIn(g[s \ {Max(s)}], p[Max(s)], budget, back)]
           fold == CHOOSE g : Folds(g)
<1>1. SplitPasses(p, budget, back) = fold[DOMAIN p]
  BY Zenon DEF SplitPasses, PutIn, FoldLeft, MapThenFoldSet
<1>2. DOMAIN p = 1 .. Len(p) /\ Len(p) \in Nat /\ \A i \in 1 .. Len(p) : p[i] \in Entries
  BY LenProperties
<1>3. <<>> \in A /\ \A a \in A, x \in Entries : PutIn(a, x, budget, back) \in A
  <2>1. <<>> \in Passes
    BY EmptySeq DEF Passes
  <2> QED
    BY <2>1, PutInType
<1> HIDE DEF A
<1>4. st \in [A \X Entries -> A] /\ \A a \in A, x \in Entries : st[<<a, x>>] = PutIn(a, x, budget, back)
  BY <1>3
<1> HIDE DEF st
<1>5. Folds(fold)
  <2>1. PICK g : Steps(g, A, Entries, st, <<>>, p)
    BY <1>3, <1>4, FoldSteps
  <2>2. \A s \in SUBSET (DOMAIN p) : g[s] = IF s = {} THEN <<>> ELSE PutIn(g[s \ {Max(s)}], p[Max(s)], budget, back)
    BY <1>4, <2>1 DEF Steps
  <2>3. Folds(g)
    BY <2>1, <2>2 DEF Steps
  <2> HIDE DEF Folds
  <2> QED BY <2>3, Zenon
<1>6. FoldsIn(fold, A, st, <<>>, p, Len(p))
  <2> HIDE DEF fold
  <2>1. \A s \in SUBSET (1 .. Len(p)) :
          fold[s] = IF s = {} THEN <<>> ELSE PutIn(fold[s \ {Max(s)}], p[Max(s)], budget, back)
    BY <1>2, <1>5
  <2>2. \A s \in SUBSET (1 .. Len(p)) : s # {} => Max(s) \in 1 .. Len(p)
    BY <1>2, GreatestIn
  <2> QED
    BY <1>2, <1>4, <2>1, <2>2 DEF FoldsIn
<1>7. PICK f : ValuesOf(f, A, st, <<>>, p)
  BY <1>3, <1>4, Folding
<1> HIDE DEF fold, Folds
<1>8. Folded(f, A, st, <<>>, p) /\ fold[DOMAIN p] = f[Len(p)]
  BY <1>2, <1>6, <1>7 DEF ValuesOf
<1>9. f \in [0 .. Len(p) -> A] /\ f[0] = <<>> /\ \A i \in 1 .. Len(p) : f[i] = st[<<f[i - 1], p[i]>>]
  BY <1>8 DEF Folded
<1>10. ASSUME NEW i \in 1 .. Len(p) PROVE f[i] = PutIn(f[i - 1], p[i], budget, back)
  <2>1. i - 1 \in 0 .. Len(p)
    BY <1>2
  <2>2. f[i - 1] \in A /\ p[i] \in Entries
    BY <1>2, <1>9, <2>1
  <2> QED
    BY <1>4, <1>9, <2>2
<1> QED
  BY <1>1, <1>8, <1>9, <1>10 DEF SplitsAt, A

-----------------------------------------------------------------------------
(* What the passes hold, entry by entry.                                   *)

LEMMA LastIs == \A s : Last(s) = s[Len(s)]
BY DEF Last

BegunWith(q, passes, e) ==
  /\ q \in Passes /\ Len(q) = Len(passes) + 1 /\ q[Len(passes) + 1] = <<e>>
  /\ \A i \in 1 .. Len(passes) : q[i] = passes[i]
  /\ FlattenSeq(q) = Append(FlattenSeq(passes), e)

EndedWith(q, passes, e) ==
  /\ q \in Passes /\ Len(q) = Len(passes)
  /\ passes[Len(passes)] \in Seq(Entries) /\ q[Len(passes)] = Append(passes[Len(passes)], e) /\ q[Len(passes)] # <<>>
  /\ \A i \in 1 .. Len(passes) : i # Len(passes) => q[i] = passes[i]
  /\ FlattenSeq(q) = Append(FlattenSeq(passes), e)

LEMMA Begins ==
  ASSUME NEW passes \in Passes, NEW e \in Entries
  PROVE  BegunWith(Append(passes, <<e>>), passes, e)
<1> SUFFICES ASSUME NEW q, q = Append(passes, <<e>>) PROVE BegunWith(q, passes, e)
  OBVIOUS
<1> DEFINE A == Seq(Entries)
<1>1. passes \in Seq(A) /\ <<e>> \in A
  BY OnePass DEF Passes
<1>2. FlattenSeq(passes) \in A /\ FlattenSeq(Append(passes, <<e>>)) = FlattenSeq(passes) \o <<e>>
  BY <1>1, FlattenMore
<1>3. FlattenSeq(passes) \o <<e>> = Append(FlattenSeq(passes), e)
  BY <1>2, AppendIsConcat
<1>4. FlattenSeq(q) = Append(FlattenSeq(passes), e)
  BY <1>2, <1>3, Zenon
<1> HIDE DEF A
<1>5. q \in Seq(A) /\ Len(q) = Len(passes) + 1 /\ q[Len(passes) + 1] = <<e>> /\ \A i \in 1 .. Len(passes) : q[i] = passes[i]
  BY <1>1, AppendProperties
<1> QED
  BY <1>2, <1>4, <1>5 DEF A, Passes, BegunWith

LEMMA Joined == \A a, b, c \in Seq(Entries) : (a \o b) \o c = a \o (b \o c) /\ a \o b \in Seq(Entries)
<1> TAKE a, b, c \in Seq(Entries)
<1>1. a \o b \in Seq(Entries)
  BY ConcatProperties
<1>2. (a \o b) \o c = a \o (b \o c)
  BY ConcatAssociative
<1> QED
  BY <1>1, <1>2

LEMMA Ends ==
  ASSUME NEW passes \in Passes, passes # <<>>, NEW e \in Entries
  PROVE  EndedWith([passes EXCEPT ![Len(passes)] = Append(@, e)], passes, e)
<1> SUFFICES ASSUME NEW q, q = [passes EXCEPT ![Len(passes)] = Append(@, e)] PROVE EndedWith(q, passes, e)
  OBVIOUS
<1> DEFINE A == Seq(Entries)
           n == Len(passes)
           last == passes[n]
           front == SubSeq(passes, 1, n - 1)
<1>1. passes \in Seq(A)
  BY DEF Passes
<1>2. \A p \in A : Append(p, e) \in A /\ Append(p, e) = p \o <<e>>
  BY AppendProperties, AppendIsConcat
<1>3. <<e>> \in A
  BY OnePass
<1>4. \A a, b, c \in A : (a \o b) \o c = a \o (b \o c) /\ a \o b \in A
  BY Joined
<1>5. \A s \in Seq(A), c \in A : FlattenSeq(s) \in A /\ FlattenSeq(Append(s, c)) = FlattenSeq(s) \o c
  BY FlattenMore
<1> HIDE DEF A
<1>6. n \in Nat /\ n # 0 /\ n \in 1 .. n /\ \A i \in 1 .. n : passes[i] \in A
  BY <1>1, EmptySeq, LenProperties
<1>7. last \in A /\ Append(last, e) \in A
  BY <1>2, <1>6
<1>8. q = [passes EXCEPT ![n] = Append(last, e)]
  OBVIOUS
<1>9. q \in Seq(A) /\ Len(q) = n /\ \A i \in 1 .. n : q[i] = IF i = n THEN Append(last, e) ELSE passes[i]
  BY <1>1, <1>6, <1>7, <1>8, ExceptSeq
<1>10. front \in Seq(A) /\ Len(front) = n - 1 /\ \A i \in 1 .. n - 1 : front[i] = passes[i]
  <2> HIDE DEF n
  <2>1. \A i \in 1 .. n - 1 : passes[i] \in A
    BY <1>6
  <2>2. /\ front \in Seq(A) /\ Len(front) = IF 1 <= n - 1 THEN (n - 1) - 1 + 1 ELSE 0
        /\ \A i \in 1 .. (n - 1) - 1 + 1 : front[i] = passes[1 + i - 1]
    BY <1>6, <2>1, SubSeqProperties
  <2> HIDE DEF front
  <2> QED
    BY <1>6, <2>2
<1> HIDE DEF front, last
<1>11. Append(front, last) = passes
  <2>1. PICK t : t = Append(front, last)
    OBVIOUS
  <2>2. t \in Seq(A) /\ Len(t) = n /\ \A i \in 1 .. n : t[i] = IF i = n THEN last ELSE front[i]
    BY <1>6, <1>7, <1>10, <2>1, AppendProperties
  <2>3. \A i \in 1 .. n : t[i] = passes[i]
    BY <1>6, <1>10, <2>2 DEF last
  <2> QED
    BY <1>1, <2>1, <2>2, <2>3, SeqEqual
<1>12. Append(front, Append(last, e)) = q
  <2>1. PICK t : t = Append(front, Append(last, e))
    OBVIOUS
  <2>2. t \in Seq(A) /\ Len(t) = n /\ \A i \in 1 .. n : t[i] = IF i = n THEN Append(last, e) ELSE front[i]
    BY <1>6, <1>7, <1>10, <2>1, AppendProperties
  <2>3. \A i \in 1 .. n : i # n => i \in 1 .. n - 1
    BY <1>6
  <2>4. \A i \in 1 .. n : t[i] = q[i]
    BY <1>9, <1>10, <2>2, <2>3
  <2> QED
    BY <1>9, <2>1, <2>2, <2>4, SeqEqual
<1>13. FlattenSeq(passes) = FlattenSeq(front) \o last /\ FlattenSeq(front) \in A
  BY <1>5, <1>7, <1>10, <1>11
<1>14. FlattenSeq(q) = FlattenSeq(front) \o (last \o <<e>>)
  BY <1>2, <1>5, <1>7, <1>10, <1>12
<1>15. FlattenSeq(passes) \in A /\ FlattenSeq(q) = FlattenSeq(passes) \o <<e>>
  <2>1. PICK one : one = <<e>>
    OBVIOUS
  <2>2. one \in A
    BY <1>3, <2>1
  <2>3. FlattenSeq(q) = FlattenSeq(front) \o (last \o one)
    BY <1>14, <2>1
  <2>4. (FlattenSeq(front) \o last) \o one = FlattenSeq(front) \o (last \o one) /\ FlattenSeq(front) \o last \in A
    BY <1>4, <1>7, <1>13, <2>2
  <2> QED
    BY <1>13, <2>1, <2>3, <2>4, Zenon
<1>16. FlattenSeq(q) = Append(FlattenSeq(passes), e)
  BY <1>2, <1>15
<1>17. \A p \in A : Append(p, e) # <<>>
  BY AppendProperties DEF A
<1> QED
  BY <1>6, <1>7, <1>9, <1>15, <1>16, <1>17 DEF A, Passes, last, EndedWith

\* The passes of the first k entries.
Holding(passes, E, S, f, budget, k) ==
  /\ passes \in Passes
  /\ FlattenSeq(passes) = SubSeq(E, 1, k)
  /\ \A p \in 1 .. Len(passes) : passes[p] # <<>> /\ PassTokens(passes[p]) <= budget
  /\ \E from \in 0 .. k - 1 :
       passes[Len(passes)] = SubSeq(E, from + 1, k) /\ Filled(f, S, budget, k, from, Len(passes))

LEMMA SumsGrow ==
  ASSUME NEW E \in Seq(Entries), NEW S, Sums(S, E)
  PROVE  Grow(S, Len(E))
BY DEF Sums, Grow

LEMMA OneMore ==
  ASSUME NEW E \in Seq(Entries), NEW j \in 0 .. Len(E), NEW k \in 0 .. Len(E), j <= k, k < Len(E)
  PROVE  SubSeq(E, j + 1, k + 1) = Append(SubSeq(E, j + 1, k), E[k + 1])
           /\ SubSeq(E, j + 1, k) \in Seq(Entries) /\ E[k + 1] \in Entries
<1>1. Len(E) \in Nat /\ \A i \in 1 .. Len(E) : E[i] \in Entries
  BY LenProperties
<1>2. j + 1 \in 1 .. Len(E) /\ k + 1 \in j + 1 .. Len(E) /\ (k + 1) - 1 = k /\ k + 1 \in 1 .. Len(E)
  BY <1>1
<1>3. SubSeq(E, j + 1, k + 1) = SubSeq(E, j + 1, (k + 1) - 1) \o <<E[k + 1]>>
  BY <1>2, SubSeqRecursiveSecond
<1>4. \A i \in j + 1 .. k : E[i] \in Entries
  BY <1>1
<1>5. SubSeq(E, j + 1, k) \in Seq(Entries)
  BY <1>1, <1>4, SubSeqProperties
<1>6. E[k + 1] \in Entries
  BY <1>1, <1>2
<1>7. SubSeq(E, j + 1, k + 1) = SubSeq(E, j + 1, k) \o <<E[k + 1]>>
  BY <1>2, <1>3, Zenon
<1> QED
  BY <1>5, <1>6, <1>7, AppendIsConcat

LEMMA HoldingFirst ==
  ASSUME NEW E \in Seq(Entries), Len(E) # 0, NEW S, Sums(S, E), NEW budget \in Nat,
         NEW f, Fewest(f, S, Len(E), budget), Cost(E[1]) <= budget
  PROVE  Holding(Append(<<>>, <<E[1]>>), E, S, f, budget, 1)
<1>1. Len(E) \in Nat /\ 1 \in 1 .. Len(E) /\ 0 \in 0 .. Len(E) /\ 1 \in 0 .. Len(E) /\ 1 - 1 = 0
  BY LenProperties
<1>2. E[1] \in Entries
  BY <1>1, ElementOfSeq
<1>3. <<>> \in Passes /\ Len(<<>>) = 0
  BY EmptySeq DEF Passes
<1>4. PICK none, e, q : none = <<>> /\ e = E[1] /\ q = Append(none, <<e>>)
  OBVIOUS
<1>5. q \in Passes /\ Len(q) = 1 /\ q[1] = <<E[1]>> /\ FlattenSeq(q) = Append(FlattenSeq(<<>>), E[1])
  <2>1. none \in Passes /\ e \in Entries /\ q = Append(none, <<e>>) /\ Len(none) = 0
    BY <1>2, <1>3, <1>4
  <2>2. q \in Passes /\ Len(q) = Len(none) + 1 /\ q[Len(none) + 1] = <<e>> /\ FlattenSeq(q) = Append(FlattenSeq(none), e)
    BY <2>1, Begins DEF BegunWith
  <2>3. Len(q) = 1
    BY <2>1, <2>2
  <2> QED
    BY <1>4, <2>2, <2>3, Zenon
<1>6. FlattenSeq(<<>>) = <<>>
  <2>1. Len(<<>>) = 0 => FlattenSeq(<<>>) = <<>>
    BY Zenon DEF FlattenSeq
  <2> QED
    BY <1>3, <2>1
<1>7. SubSeq(E, 0 + 1, 0 + 1) = Append(SubSeq(E, 0 + 1, 0), E[0 + 1])
  BY <1>1, OneMore
<1>8. SubSeq(E, 1, 0) = <<>>
  BY SubSeqEmpty
<1>9. SubSeq(E, 1, 1) = Append(<<>>, E[1]) /\ <<E[1]>> = Append(<<>>, E[1])
  <2>1. 0 + 1 = 1
    OBVIOUS
  <2>2. SubSeq(E, 1, 1) = Append(SubSeq(E, 1, 0), E[1])
    BY <1>7, <2>1, Zenon
  <2>3. \A x \in Entries : <<x>> = Append(<<>>, x)
    BY OnePass, Zenon
  <2> QED
    BY <1>2, <1>8, <2>2, <2>3, Zenon
<1>10. FlattenSeq(q) = SubSeq(E, 1, 1) /\ q[1] = SubSeq(E, 1, 1)
  BY <1>5, <1>6, <1>9, Zenon
<1>11. PassTokens(SubSeq(E, 0 + 1, 1)) = S[1] - S[0] /\ S[1] = S[0] + Cost(E[1]) /\ S[1] \in Nat /\ S[0] \in Nat
  BY <1>1 DEF Sums
<1>12. S[1] - S[0] <= budget /\ PassTokens(q[1]) <= budget
  <2>1. Cost(E[1]) \in Nat
    BY <1>2, CostType
  <2>2. S[1] - S[0] <= budget
    BY <1>11, <2>1
  <2> QED
    BY <1>10, <1>11, <2>2
<1>13. Filled(f, S, budget, 1, 0, 1)
  BY <1>1, <1>12, FilledFirst, SumsGrow
<1>14. q[1] # <<>>
  BY <1>2, <1>5, OnePass
<1>15. \A p \in 1 .. Len(q) : q[p] # <<>> /\ PassTokens(q[p]) <= budget
  BY <1>5, <1>12, <1>14
<1>16. 0 \in 0 .. 1 - 1 /\ q[Len(q)] = SubSeq(E, 0 + 1, 1) /\ Filled(f, S, budget, 1, 0, Len(q))
  BY <1>5, <1>10, <1>13
<1> QED
  BY <1>4, <1>5, <1>10, <1>15, <1>16 DEF Holding

PutFitted(passes, e, budget) ==
  IF passes = <<>> \/ PassTokens(Last(passes)) + Cost(e) > budget
  THEN Append(passes, <<e>>)
  ELSE [passes EXCEPT ![Len(passes)] = Append(@, e)]

LEMMA HoldingMore ==
  ASSUME NEW E \in Seq(Entries), NEW S, Sums(S, E), NEW budget \in Nat,
         NEW f, Fewest(f, S, Len(E), budget), NEW k \in 1 .. Len(E), k < Len(E), Cost(E[k + 1]) <= budget,
         NEW passes, Holding(passes, E, S, f, budget, k),
         NEW q, q = PutFitted(passes, E[k + 1], budget)
  PROVE  Holding(q, E, S, f, budget, k + 1)
<1> DEFINE e == E[k + 1]
           n == Len(passes)
<1>1. Len(E) \in Nat /\ k \in 0 .. Len(E) /\ 0 \in 0 .. Len(E) /\ k + 1 \in 1 .. Len(E) /\ k + 1 \in 0 .. Len(E) /\ (k + 1) - 1 = k
  BY LenProperties
<1>2. e \in Entries /\ Cost(e) \in Nat
  BY <1>1, CostType, ElementOfSeq
<1>3. PICK from \in 0 .. k - 1 : passes[n] = SubSeq(E, from + 1, k) /\ Filled(f, S, budget, k, from, n)
  BY DEF Holding
<1>4. from \in 0 .. Len(E) /\ from <= k /\ n \in Nat \ {0}
  BY <1>1, <1>3 DEF Filled
<1>5. passes \in Passes /\ FlattenSeq(passes) = SubSeq(E, 1, k)
        /\ \A p \in 1 .. n : passes[p] # <<>> /\ PassTokens(passes[p]) <= budget
  BY DEF Holding
<1>6. passes # <<>>
  BY <1>4, EmptySeq
<1>7. PassTokens(passes[n]) = S[k] - S[from] /\ S[k + 1] = S[k] + Cost(e)
        /\ S[k] \in Nat /\ S[from] \in Nat /\ S[k + 1] \in Nat
  BY <1>1, <1>3, <1>4 DEF Sums
<1>8. Grow(S, Len(E))
  BY SumsGrow
<1> HIDE DEF e
<1>9. SubSeq(E, 1, k + 1) = Append(SubSeq(E, 1, k), e)
  <2>1. SubSeq(E, 0 + 1, k + 1) = Append(SubSeq(E, 0 + 1, k), E[k + 1])
    BY <1>1, OneMore
  <2> QED
    BY <2>1 DEF e
<1>10. SubSeq(E, from + 1, k + 1) = Append(SubSeq(E, from + 1, k), e)
  BY <1>1, <1>4, OneMore DEF e
<1>11. PICK full : full = PassTokens(passes[n]) + Cost(e)
  OBVIOUS
<1>12. full = S[k + 1] - S[from]
  BY <1>2, <1>7, <1>11
<1>13. q = IF full > budget THEN Append(passes, <<e>>) ELSE [passes EXCEPT ![n] = Append(@, e)]
  BY <1>6, <1>11, LastIs, Zenon DEF e, PutFitted
<1>14. CASE full > budget
  <2>1. q = Append(passes, <<e>>)
    BY <1>13, <1>14
  <2>2. /\ q \in Passes /\ Len(q) = n + 1 /\ q[n + 1] = <<e>> /\ \A i \in 1 .. n : q[i] = passes[i]
        /\ FlattenSeq(q) = Append(FlattenSeq(passes), e)
    <3>1. BegunWith(q, passes, e)
      BY <1>2, <1>5, <2>1, Begins, Zenon
    <3> QED
      BY <3>1, Zenon DEF BegunWith
  <2>3. FlattenSeq(q) = SubSeq(E, 1, k + 1)
    BY <1>5, <1>9, <2>2, Zenon
  <2>4. SubSeq(E, k + 1, k + 1) = <<e>>
    <3>1. SubSeq(E, k + 1, k + 1) = Append(SubSeq(E, k + 1, k), e)
      BY <1>1, OneMore DEF e
    <3>2. SubSeq(E, k + 1, k) = <<>>
      BY <1>1, SubSeqEmpty
    <3> QED
      BY <1>2, <3>1, <3>2, OnePass
  <2>5. S[k + 1] - S[k] <= budget /\ S[k + 1] - S[from] > budget
    BY <1>2, <1>7, <1>12, <1>14 DEF e
  <2>6. Filled(f, S, budget, k + 1, k, n + 1)
    BY <1>1, <1>3, <1>8, <2>5, FilledAnew
  <2>7. PassTokens(<<e>>) = Cost(e)
    <3>1. PassTokens(SubSeq(E, k + 1, k + 1)) = S[k + 1] - S[k]
      BY <1>1 DEF Sums
    <3>2. PassTokens(SubSeq(E, k + 1, k + 1)) = PassTokens(<<e>>)
      BY <2>4, Zenon
    <3> QED
      BY <1>2, <1>7, <3>1, <3>2
  <2>8. \A p \in 1 .. Len(q) : q[p] # <<>> /\ PassTokens(q[p]) <= budget
    <3>1. PassTokens(q[n + 1]) <= budget
      <4>1. PassTokens(q[n + 1]) = Cost(e)
        BY <2>2, <2>7, Zenon
      <4> QED
        BY <4>1 DEF e
    <3>2. q[n + 1] # <<>>
      BY <1>2, <2>2, OnePass
    <3>3. \A p \in 1 .. n + 1 : p \in 1 .. n \/ p = n + 1
      BY <1>4
    <3>4. \A p \in 1 .. n : q[p] # <<>> /\ PassTokens(q[p]) <= budget
      BY <1>5, <2>2
    <3> QED
      BY <2>2, <3>1, <3>2, <3>3, <3>4
  <2>9. k \in 0 .. (k + 1) - 1 /\ q[Len(q)] = SubSeq(E, k + 1, k + 1) /\ Filled(f, S, budget, k + 1, k, Len(q))
    <3>1. q[Len(q)] = SubSeq(E, k + 1, k + 1) /\ Filled(f, S, budget, k + 1, k, Len(q))
      BY <2>2, <2>4, <2>6, Zenon
    <3> QED
      BY <1>1, <3>1
  <2> QED
    BY <2>2, <2>3, <2>8, <2>9 DEF Holding
<1>15. CASE ~(full > budget)
  <2>1. q = [passes EXCEPT ![n] = Append(@, e)]
    BY <1>13, <1>15
  <2>2. /\ q \in Passes /\ Len(q) = n /\ q[n] = Append(passes[n], e) /\ q[n] # <<>>
        /\ \A i \in 1 .. n : i # n => q[i] = passes[i]
        /\ FlattenSeq(q) = Append(FlattenSeq(passes), e)
    <3>1. EndedWith(q, passes, e)
      BY <1>2, <1>5, <1>6, <2>1, Ends, Zenon
    <3> QED
      BY <3>1, Zenon DEF EndedWith
  <2>3. FlattenSeq(q) = SubSeq(E, 1, k + 1)
    BY <1>5, <1>9, <2>2, Zenon
  <2>4. q[n] = SubSeq(E, from + 1, k + 1)
    BY <1>3, <1>10, <2>2, Zenon
  <2>5. S[k + 1] - S[from] <= budget
    BY <1>7, <1>12, <1>15
  <2>6. Filled(f, S, budget, k + 1, from, n)
    BY <1>1, <1>3, <1>8, <2>5, FilledMore
  <2>7. PassTokens(q[n]) <= budget
    <3>1. PassTokens(SubSeq(E, from + 1, k + 1)) = S[k + 1] - S[from]
      BY <1>1, <1>4 DEF Sums
    <3>2. PassTokens(q[n]) = PassTokens(SubSeq(E, from + 1, k + 1))
      BY <2>4, Zenon
    <3> QED
      BY <2>5, <3>1, <3>2
  <2>9. \A p \in 1 .. Len(q) : q[p] # <<>> /\ PassTokens(q[p]) <= budget
    <3>1. \A p \in 1 .. n : p # n => q[p] # <<>> /\ PassTokens(q[p]) <= budget
      BY <1>5, <2>2
    <3> QED
      BY <2>2, <2>7, <3>1
  <2>10. from \in 0 .. (k + 1) - 1 /\ q[Len(q)] = SubSeq(E, from + 1, k + 1) /\ Filled(f, S, budget, k + 1, from, Len(q))
    <3>1. from \in 0 .. (k + 1) - 1
      BY <1>1, <1>3
    <3>2. q[Len(q)] = SubSeq(E, from + 1, k + 1) /\ Filled(f, S, budget, k + 1, from, Len(q))
      BY <2>2, <2>4, <2>6, Zenon
    <3> QED
      BY <3>1, <3>2, Zenon
  <2> QED
    BY <2>2, <2>3, <2>9, <2>10 DEF Holding
<1> QED
  BY <1>14, <1>15

-----------------------------------------------------------------------------
(* The passes of all the entries.                                          *)

WellSplit(passes, entries, budget) ==
  /\ FlattenSeq(passes) \in Seq(Entries) /\ Len(FlattenSeq(passes)) = Len(entries)
  /\ \A i \in 1 .. Len(entries) : FlattenSeq(passes)[i].first = entries[i].first
  /\ Len(passes) \in Nat /\ DOMAIN passes = 1 .. Len(passes)
  /\ \A p \in 1 .. Len(passes) : passes[p] # <<>> /\ PassTokens(passes[p]) <= budget
  /\ Len(passes) = FewestPasses(FlattenSeq(passes), budget)

LEMMA SplitsWell ==
  ASSUME NEW entries \in Seq(Entries), NEW budget \in Nat, budget >= 256, NEW back \in 0 .. 3
  PROVE  WellSplit(SplitPasses(entries, budget, back), entries, budget)
<1> DEFINE n == Len(entries)
           E == [i \in 1 .. n |-> FitEntry(entries[i], budget, back)]
<1>1. n \in Nat /\ \A i \in 1 .. n : entries[i] \in Entries
  BY LenProperties
<1>2. \A i \in 1 .. n : /\ FitEntry(entries[i], budget, back) \in Entries
                        /\ Cost(FitEntry(entries[i], budget, back)) <= budget
                        /\ FitEntry(entries[i], budget, back).first = entries[i].first
  BY <1>1, FitEntryFits
<1>3. E \in Seq(Entries) /\ Len(E) = n
  BY <1>1, <1>2
<1>4. \A i \in 1 .. n : E[i] = FitEntry(entries[i], budget, back)
  OBVIOUS
<1> HIDE DEF E
<1>5. \A i \in 1 .. Len(E) : Cost(E[i]) <= budget
  BY <1>2, <1>3, <1>4
<1>6. PICK S : Sums(S, E)
  BY <1>3, SumsExist
<1>7. PICK f : Fewest(f, S, Len(E), budget) /\ FewestPasses(E, budget) = f[Len(E)]
  BY <1>3, <1>5, <1>6, FewestPassesIs
<1>8. PICK h : SplitsAt(h, entries, budget, back)
  BY SplitFold
<1>9. h[0] = <<>> /\ SplitPasses(entries, budget, back) = h[n] /\ \A i \in 0 .. n : h[i] \in Passes
  BY <1>8 DEF SplitsAt
<1>10. ASSUME NEW i \in 1 .. n PROVE h[i] = PutFitted(h[i - 1], E[i], budget)
  <2>1. h[i] = PutIn(h[i - 1], entries[i], budget, back)
    BY <1>8 DEF SplitsAt
  <2>2. E[i] = FitEntry(entries[i], budget, back)
    BY <1>4
  <2> QED
    BY <2>1, <2>2, Zenon DEF PutIn, PutFitted, Cost
<1>11. CASE n = 0
  <2>1. SplitPasses(entries, budget, back) = <<>>
    BY <1>9, <1>11
  <2>2. Len(<<>>) = 0 /\ DOMAIN <<>> = 1 .. 0 /\ 1 .. 0 = {}
    OBVIOUS
  <2>3. FlattenSeq(<<>>) = <<>>
    <3>1. Len(<<>>) = 0 => FlattenSeq(<<>>) = <<>>
      BY Zenon DEF FlattenSeq
    <3> QED
      BY <2>2, <3>1
  <2>4. E = <<>>
    BY <1>3, <1>11, EmptySeq
  <2>5. f[Len(E)] = 0
    BY <1>3, <1>7, <1>11 DEF Fewest
  <2>6. FewestPasses(<<>>, budget) = 0
    <3>1. FewestPasses(E, budget) = 0
      BY <1>7, <2>5
    <3> QED
      BY <2>4, <3>1, Zenon
  <2>7. <<>> \in Seq(Entries)
    BY EmptySeq
  <2>8. WellSplit(<<>>, entries, budget)
    <3>1. \A i \in 1 .. 0 : FALSE
      BY <2>2
    <3>2. Len(entries) = 0 /\ 0 \in Nat
      BY <1>11
    <3> QED
      BY <2>2, <2>3, <2>6, <2>7, <3>1, <3>2, Zenon DEF WellSplit
  <2> QED
    BY <2>1, <2>8, Zenon
<1>12. CASE n # 0
  <2>1. 1 \in 1 .. n /\ 1 - 1 = 0 /\ 1 \in 1 .. Len(E)
    BY <1>1, <1>3, <1>12
  <2> DEFINE T == {i \in 0 .. n : i # 0 => Holding(h[i], E, S, f, budget, i)}
  <2>2. 0 \in T
    BY <1>1
  <2>3. ASSUME NEW i \in 1 .. n, i - 1 \in T PROVE i \in T
    <3>1. i \in 0 .. n
      BY <1>1
    <3>2. CASE i = 1
      <4>1. h[1] = PutFitted(<<>>, E[1], budget)
        BY <1>9, <1>10, <2>1, Zenon
      <4>2. h[1] = Append(<<>>, <<E[1]>>)
        BY <4>1, Zenon DEF PutFitted
      <4>3. Holding(Append(<<>>, <<E[1]>>), E, S, f, budget, 1)
        BY <1>3, <1>5, <1>6, <1>7, <1>12, <2>1, HoldingFirst
      <4>4. Holding(h[1], E, S, f, budget, 1)
        BY <4>2, <4>3, Zenon
      <4> QED
        BY <3>1, <3>2, <4>4
    <3>3. CASE i # 1
      <4> DEFINE k == i - 1
      <4>1. k \in 1 .. Len(E) /\ k < Len(E) /\ k + 1 = i /\ k # 0 /\ i \in 1 .. Len(E)
        BY <1>1, <1>3, <3>3
      <4>2. Holding(h[k], E, S, f, budget, k)
        BY <2>3, <4>1
      <4>3. h[i] = PutFitted(h[k], E[i], budget)
        BY <1>10
      <4> HIDE DEF k
      <4>4. h[i] = PutFitted(h[k], E[k + 1], budget) /\ Cost(E[k + 1]) <= budget
        BY <1>5, <4>1, <4>3
      <4>5. Holding(h[i], E, S, f, budget, k + 1)
        BY <1>3, <1>6, <1>7, <4>1, <4>2, <4>4, HoldingMore
      <4>6. Holding(h[i], E, S, f, budget, i)
        BY <4>1, <4>5, Zenon
      <4> QED
        BY <3>1, <4>6
    <3> QED
      BY <3>2, <3>3
  <2>4. n \in 0 .. n
    BY <1>1
  <2> HIDE DEF T
  <2>5. n \in T
    BY <1>1, <2>2, <2>3, <2>4, UpTo
  <2>6. PICK passes : passes = SplitPasses(entries, budget, back)
    OBVIOUS
  <2>7. Holding(passes, E, S, f, budget, n)
    BY <1>9, <1>12, <2>5, <2>6 DEF T
  <2>8. FlattenSeq(passes) = E
    <3>1. FlattenSeq(passes) = SubSeq(E, 1, n)
      BY <2>7 DEF Holding
    <3>2. SubSeq(E, 1, Len(E)) = E
      BY <1>3, SubSeqFull
    <3> QED
      BY <1>3, <3>1, <3>2, Zenon
  <2>9. PICK from \in 0 .. n - 1 : Filled(f, S, budget, n, from, Len(passes))
    BY <2>7 DEF Holding
  <2>10. f[n] = Len(passes)
    BY <1>1, <2>9, FilledIsFewest
  <2>11. Len(passes) = FewestPasses(FlattenSeq(passes), budget)
    BY <1>3, <1>7, <2>8, <2>10, Zenon
  <2>12. passes \in Passes /\ \A p \in 1 .. Len(passes) : passes[p] # <<>> /\ PassTokens(passes[p]) <= budget
    BY <2>7 DEF Holding
  <2>13. Len(passes) \in Nat /\ DOMAIN passes = 1 .. Len(passes)
    BY <2>12, LenProperties DEF Passes
  <2>14. \A i \in 1 .. Len(entries) : FlattenSeq(passes)[i].first = entries[i].first
    <3> SUFFICES ASSUME NEW i \in 1 .. n PROVE FlattenSeq(passes)[i].first = entries[i].first
      OBVIOUS
    <3>1. E[i].first = entries[i].first
      BY <1>2, <1>4
    <3> QED
      BY <2>8, <3>1, Zenon
  <2>15. FlattenSeq(passes) \in Seq(Entries) /\ Len(FlattenSeq(passes)) = Len(entries)
    BY <1>3, <2>8, Zenon
  <2>16. WellSplit(passes, entries, budget)
    BY <2>11, <2>12, <2>13, <2>14, <2>15, Zenon DEF WellSplit
  <2> QED
    BY <2>6, <2>16, Zenon
<1> QED
  BY <1>11, <1>12

-----------------------------------------------------------------------------
(* The transcript has an entry for every event that is kept.               *)

LEMMA LatestIs ==
  ASSUME NEW n \in Nat, NEW s \in SUBSET (1 .. n)
  PROVE  Latest(s) \in Nat /\ (s # {} => Latest(s) \in s)
<1>1. CASE s = {}
  BY <1>1 DEF Latest
<1>2. CASE s # {}
  <2>1. Max(s) \in s
    BY <1>2, GreatestIn
  <2>2. Latest(s) = Max(s)
    BY <1>2, Zenon DEF Latest
  <2>3. Max(s) \in 1 .. n
    BY <2>1
  <2>4. Max(s) \in Nat
    BY <2>3
  <2> QED
    BY <2>1, <2>2, <2>4, Zenon
<1> QED
  BY <1>1, <1>2

LEMMA EntryType ==
  ASSUME NEW M, NEW events \in Seq(M), NEW i \in 1 .. Len(events), IsKept(events[i])
  PROVE  Entry(events, i) \in Entries /\ Entry(events, i).first = i
<1> DEFINE s == {k \in DOMAIN events : events[k].kind \in {"tool_result", "kb_result"} /\ events[k].of = i}
           result == IF events[i].kind \in {"tool_call", "kb_call"} THEN ResultOf(events, i) ELSE 0
<1>1. Len(events) \in Nat /\ DOMAIN events = 1 .. Len(events)
  BY LenProperties
<1>2. s \in SUBSET (1 .. Len(events))
  BY <1>1
<1>3. Latest(s) \in Nat
  <2> HIDE DEF s
  <2> QED BY <1>1, <1>2, LatestIs
<1>4. ResultOf(events, i) = Latest(s)
  BY Zenon DEF ResultOf
<1>5. result \in Nat
  <2>1. ResultOf(events, i) \in Nat
    BY <1>3, <1>4, Zenon
  <2> QED
    BY <2>1
<1>6. events[i].kind \in {"user_input", "tool_call", "model_response", "kb_call"}
  BY DEF IsKept
<1>7. Bytes[events[i].kind] \in Nat /\ Bytes["result"] \in Nat
  BY <1>6, LengthsOK DEF Texts
<1>8. Entry(events, i) = [first |-> i, last |-> IF result = 0 THEN i ELSE result,
                          bytes |-> Bytes[events[i].kind] + IF result = 0 THEN 0 ELSE Bytes["result"]]
  BY Zenon DEF Entry
<1> HIDE DEF result, s
<1>9. i \in Nat /\ (IF result = 0 THEN i ELSE result) \in Nat
        /\ Bytes[events[i].kind] + (IF result = 0 THEN 0 ELSE Bytes["result"]) \in Nat
  BY <1>1, <1>5, <1>7
<1> QED
  BY <1>8, <1>9 DEF Entries

TakeUp(events, entries, i) == IF IsKept(events[i]) THEN Append(entries, Entry(events, i)) ELSE entries

TranscriptAt(f, events) ==
  /\ f \in [0 .. Len(events) -> Seq(Entries)] /\ f[0] = <<>>
  /\ DraftTranscript(events) = f[Len(events)]
  /\ \A i \in 1 .. Len(events) : f[i] = TakeUp(events, f[i - 1], i)

LEMMA TranscriptFold ==
  ASSUME NEW M, NEW events \in Seq(M)
  PROVE  \E f : TranscriptAt(f, events)
<1> DEFINE A == Seq(Entries)
           p == [i \in DOMAIN events |-> i]
           B == 1 .. Len(events)
           st == [x \in A \X B |-> TakeUp(events, x[1], x[2])]
           Folds(g) == g = [s \in SUBSET (DOMAIN p) |->
                              IF s = {} THEN <<>> ELSE TakeUp(events, g[s \ {Max(s)}], p[Max(s)])]
           fold == CHOOSE g : Folds(g)
<1>1. DraftTranscript(events) = fold[DOMAIN p]
  BY Zenon DEF DraftTranscript, TakeUp, FoldLeftDomain, FoldLeft, MapThenFoldSet
<1>2. DOMAIN events = 1 .. Len(events) /\ Len(events) \in Nat
  BY LenProperties
<1>3. p \in Seq(B) /\ Len(p) = Len(events) /\ DOMAIN p = 1 .. Len(p) /\ \A i \in 1 .. Len(p) : p[i] = i /\ p[i] \in B
  BY <1>2
<1>4. <<>> \in A /\ \A a \in A, x \in B : TakeUp(events, a, x) \in A
  <2>1. <<>> \in A
    BY EmptySeq
  <2>2. ASSUME NEW a \in A, NEW x \in B PROVE TakeUp(events, a, x) \in A
    <3>1. CASE IsKept(events[x])
      <4>1. Entry(events, x) \in Entries
        BY <3>1, EntryType
      <4>2. Append(a, Entry(events, x)) \in A
        BY <4>1, AppendProperties
      <4> QED
        BY <3>1, <4>2, Zenon DEF TakeUp
    <3>2. CASE ~IsKept(events[x])
      BY <3>2, Zenon DEF TakeUp
    <3> QED
      BY <3>1, <3>2, Zenon
  <2> QED
    BY <2>1, <2>2
<1> HIDE DEF A, B, p
<1>5. st \in [A \X B -> A] /\ \A a \in A, x \in B : st[<<a, x>>] = TakeUp(events, a, x)
  BY <1>4
<1> HIDE DEF st
<1>6. Folds(fold)
  <2>1. PICK g : Steps(g, A, B, st, <<>>, p)
    BY <1>3, <1>4, <1>5, FoldSteps
  <2>2. \A s \in SUBSET (DOMAIN p) : g[s] = IF s = {} THEN <<>> ELSE TakeUp(events, g[s \ {Max(s)}], p[Max(s)])
    BY <1>5, <2>1 DEF Steps
  <2>3. Folds(g)
    BY <2>1, <2>2 DEF Steps
  <2> HIDE DEF Folds
  <2> QED BY <2>3, Zenon
<1>7. FoldsIn(fold, A, st, <<>>, p, Len(p))
  <2> HIDE DEF fold
  <2>1. \A s \in SUBSET (1 .. Len(p)) : fold[s] = IF s = {} THEN <<>> ELSE TakeUp(events, fold[s \ {Max(s)}], p[Max(s)])
    BY <1>3, <1>6
  <2>2. \A s \in SUBSET (1 .. Len(p)) : s # {} => Max(s) \in 1 .. Len(p)
    BY <1>2, <1>3, GreatestIn
  <2> QED
    BY <1>3, <1>5, <2>1, <2>2 DEF FoldsIn
<1>8. PICK f : ValuesOf(f, A, st, <<>>, p)
  BY <1>3, <1>4, <1>5, Folding
<1> HIDE DEF fold, Folds
<1>9. Folded(f, A, st, <<>>, p) /\ fold[DOMAIN p] = f[Len(p)]
  BY <1>3, <1>7, <1>8 DEF ValuesOf
<1>10. f \in [0 .. Len(p) -> A] /\ f[0] = <<>> /\ \A i \in 1 .. Len(p) : f[i] = st[<<f[i - 1], p[i]>>]
  BY <1>9 DEF Folded
<1>11. ASSUME NEW i \in 1 .. Len(p) PROVE f[i] = TakeUp(events, f[i - 1], i)
  <2>1. i - 1 \in 0 .. Len(p)
    BY <1>2, <1>3
  <2>2. f[i - 1] \in A /\ i \in B /\ p[i] = i
    BY <1>3, <1>10, <2>1
  <2> QED
    BY <1>5, <1>10, <2>2
<1> QED
  BY <1>1, <1>3, <1>9, <1>10, <1>11 DEF TranscriptAt, A

LEMMA KeptAreTakenUp ==
  ASSUME NEW M, NEW events \in Seq(M)
  PROVE  /\ DraftTranscript(events) \in Seq(Entries)
         /\ \A i \in 1 .. Len(events) : IsKept(events[i]) =>
              \E n \in 1 .. Len(DraftTranscript(events)) : DraftTranscript(events)[n].first = i
<1>1. PICK f : TranscriptAt(f, events)
  BY TranscriptFold
<1>2. Len(events) \in Nat
  BY LenProperties
<1>3. f[0] = <<>> /\ \A i \in 0 .. Len(events) : f[i] \in Seq(Entries)
  BY <1>1 DEF TranscriptAt
<1> DEFINE Has(i, j) == \E n \in 1 .. Len(f[i]) : f[i][n].first = j
           T == {i \in 0 .. Len(events) : \A j \in 1 .. i : IsKept(events[j]) => Has(i, j)}
<1>4. 0 \in T
  BY <1>2
<1>5. ASSUME NEW i \in 1 .. Len(events), i - 1 \in T PROVE i \in T
  <2>1. i \in 0 .. Len(events) /\ i - 1 \in 0 .. Len(events) /\ \A j \in 1 .. i : j \in 1 .. i - 1 \/ j = i
    BY <1>2
  <2>2. f[i] = TakeUp(events, f[i - 1], i) /\ f[i - 1] \in Seq(Entries)
    BY <1>1, <1>3, <2>1 DEF TranscriptAt
  <2>3. \A j \in 1 .. i - 1 : IsKept(events[j]) => Has(i - 1, j)
    BY <1>5
  <2>4. CASE ~IsKept(events[i])
    <3>1. f[i] = f[i - 1]
      BY <2>2, <2>4, Zenon DEF TakeUp
    <3>2. \A j \in 1 .. i - 1 : IsKept(events[j]) => Has(i, j)
      BY <2>3, <3>1
    <3> HIDE DEF Has
    <3> QED
      BY <2>1, <2>4, <3>2
  <2>5. CASE IsKept(events[i])
    <3>1. PICK e : e = Entry(events, i)
      OBVIOUS
    <3>2. e \in Entries /\ e.first = i
      BY <2>5, <3>1, EntryType
    <3>3. f[i] = Append(f[i - 1], e)
      BY <2>2, <2>5, <3>1, Zenon DEF TakeUp
    <3>4. PICK q, r : q = f[i] /\ r = f[i - 1]
      OBVIOUS
    <3>5. q = Append(r, e) /\ r \in Seq(Entries)
      BY <2>2, <3>3, <3>4
    <3>6. Len(q) = Len(r) + 1 /\ Len(r) \in Nat /\ q[Len(r) + 1] = e /\ \A n \in 1 .. Len(r) : q[n] = r[n]
      BY <3>2, <3>5, AppendProperties, LenProperties
    <3>7. Len(r) + 1 \in 1 .. Len(q) /\ \A n \in 1 .. Len(r) : n \in 1 .. Len(q)
      BY <3>6
    <3>8. Has(i, i)
      BY <3>2, <3>4, <3>6, <3>7
    <3>9. ASSUME NEW j \in 1 .. i - 1, IsKept(events[j]) PROVE Has(i, j)
      <4>1. PICK n \in 1 .. Len(r) : r[n].first = j
        BY <2>3, <3>4, <3>9
      <4> QED
        BY <3>4, <3>6, <3>7, <4>1
    <3> HIDE DEF Has
    <3> QED
      BY <2>1, <3>8, <3>9
  <2> QED
    BY <2>4, <2>5
<1>6. Len(events) \in 0 .. Len(events)
  BY <1>2
<1> HIDE DEF T
<1>7. Len(events) \in T
  BY <1>2, <1>4, <1>5, <1>6, UpTo
<1>8. DraftTranscript(events) = f[Len(events)]
  BY <1>1 DEF TranscriptAt
<1> QED
  BY <1>3, <1>6, <1>7, <1>8 DEF T

-----------------------------------------------------------------------------
(* What a session's log holds, whatever was done in it. A line of the      *)
(* conversation and the reply to it are in the log; a line or a reply is   *)
(* never taken out, since a log only grows.                                *)

Kinds == {"session_start", "session_end", "user_input", "injection", "permission", "model_switch",
          "model_request", "model_response", "tool_call", "tool_result", "kb_call", "kb_result"}
Whats == {"", "turn", "route", "skill", "shell", "inject", "draft", "pipeline", "summary", "plan", "chunk",
          "synthesis", "tool", "write"}
Origins == {"", "user", "auto", "model"}
Statuses == {"", "ok", "failed", "turn", "plan"}
Records == [kind : Kinds, what : Whats, origin : Origins, of : Nat, status : Statuses]

Doings == {"prompt", "over", "turn", "route", "plan", "read", "shell", "pipeline", "draft", "inject", "ended"}
Turns == [line : Nat, reply : Nat, routed : BOOLEAN]

ReadersTypeOK ==
  /\ log \in Seq(Records) /\ log # <<>>
  /\ doing \in Doings /\ asked \in 0 .. Len(log) /\ call \in 0 .. Len(log) /\ chunk \in Nat /\ lent \in BOOLEAN
  /\ answered \in Seq(Turns)

\* A turn is under way, or the answer to its request is awaited.
InTurn(w, d, a) ==
  \/ d \in Assembled
  \/ a \in DOMAIN w /\ w[a].what \in Assembled

\* The turns of the conversation are in the log.
TurnsLogged(w, turns) ==
  \A n \in 1 .. Len(turns) :
    /\ turns[n].line \in 1 .. Len(w) /\ w[turns[n].line].kind = "user_input"
    /\ turns[n].reply \in 1 .. Len(w) /\ w[turns[n].reply].kind = "model_response" /\ w[turns[n].reply].status = "ok"

ReadersInv ==
  /\ ReadersTypeOK
  /\ InTurn(log, doing, asked) => Lines(log) # {}
  /\ TurnsLogged(log, answered)

LEMMA EventType ==
  ASSUME NEW kind \in Kinds, NEW what \in Whats, NEW origin \in Origins, NEW of \in Nat, NEW status \in Statuses
  PROVE  /\ Event(kind, what, origin, of, status) \in Records
         /\ Event(kind, what, origin, of, status).kind = kind
         /\ Event(kind, what, origin, of, status).what = what
         /\ Event(kind, what, origin, of, status).status = status
BY DEF Event, Records

\* One event more.
Grown(w, v, e) ==
  /\ v \in Seq(Records) /\ v # <<>> /\ Len(v) = Len(w) + 1 /\ v[Len(w) + 1] = e
  /\ \A i \in 1 .. Len(w) : v[i] = w[i]

LEMMA Grows1 ==
  ASSUME NEW w \in Seq(Records), NEW e \in Records
  PROVE  Grown(w, Append(w, e), e)
<1>1. PICK v : v = Append(w, e)
  OBVIOUS
<1>2. /\ v \in Seq(Records) /\ v # <<>> /\ Len(v) = Len(w) + 1 /\ v[Len(w) + 1] = e
      /\ \A i \in 1 .. Len(w) : v[i] = w[i]
  BY <1>1, AppendProperties
<1>3. Grown(w, v, e)
  BY <1>2, Zenon DEF Grown
<1> QED
  BY <1>1, <1>3, Zenon

LEMMA GrownLines ==
  ASSUME NEW w \in Seq(Records), NEW v, NEW e, Grown(w, v, e)
  PROVE  /\ Lines(w) \subseteq Lines(v) /\ (e.kind = "user_input" => Lines(v) # {})
         /\ Lines(w) \subseteq 1 .. Len(w)
         /\ \A turns : TurnsLogged(w, turns) => TurnsLogged(v, turns)
<1>1. Len(w) \in Nat /\ DOMAIN w = 1 .. Len(w) /\ v \in Seq(Records) /\ Len(v) = Len(w) + 1
        /\ v[Len(w) + 1] = e /\ \A i \in 1 .. Len(w) : v[i] = w[i]
  BY LenProperties DEF Grown
<1>2. DOMAIN v = 1 .. Len(v)
  BY <1>1, LenProperties
<1>3. \A i \in 1 .. Len(w) : i \in 1 .. Len(v)
  BY <1>1
<1>4. Len(w) + 1 \in 1 .. Len(v)
  BY <1>1
<1>5. Lines(w) \subseteq Lines(v) /\ Lines(w) \subseteq 1 .. Len(w)
  BY <1>1, <1>2, <1>3 DEF Lines
<1>6. e.kind = "user_input" => Len(w) + 1 \in Lines(v)
  BY <1>1, <1>2, <1>4 DEF Lines
<1>7. ASSUME NEW turns, TurnsLogged(w, turns) PROVE TurnsLogged(v, turns)
  <2> SUFFICES ASSUME NEW n \in 1 .. Len(turns)
               PROVE  /\ turns[n].line \in 1 .. Len(v) /\ v[turns[n].line].kind = "user_input"
                      /\ turns[n].reply \in 1 .. Len(v) /\ v[turns[n].reply].kind = "model_response"
                      /\ v[turns[n].reply].status = "ok"
    BY DEF TurnsLogged
  <2>1. /\ turns[n].line \in 1 .. Len(w) /\ w[turns[n].line].kind = "user_input"
        /\ turns[n].reply \in 1 .. Len(w) /\ w[turns[n].reply].kind = "model_response" /\ w[turns[n].reply].status = "ok"
    BY <1>7 DEF TurnsLogged
  <2>2. v[turns[n].line] = w[turns[n].line] /\ v[turns[n].reply] = w[turns[n].reply]
    BY <1>1, <2>1
  <2> QED
    BY <1>3, <2>1, <2>2
<1> QED
  BY <1>5, <1>6, <1>7

\* What a step that writes e must see to.
Quietly(e) ==
  /\ doing' \in Doings /\ call' \in 0 .. Len(log) + 1 /\ chunk' \in Nat /\ lent' \in BOOLEAN
  /\ \/ asked' \in {0, asked}
     \/ asked' = Len(log) + 1 /\ (e.what \notin Assembled \/ doing \in Assembled)
  /\ e.kind = "user_input" \/ (doing' \in Assembled => doing \in Assembled)

\* The log after the step, whatever becomes of the answered turns.
LEMMA Writing ==
  ASSUME ReadersInv, NEW e \in Records, Write(e), Quietly(e), answered' \in Seq(Turns), TurnsLogged(log', answered')
  PROVE  ReadersInv'
<1>1. log \in Seq(Records) /\ asked \in 0 .. Len(log)
  BY DEF ReadersInv, ReadersTypeOK
<1>2. Grown(log, log', e)
  <2>1. log' = Append(log, e)
    BY DEF Write
  <2> QED
    BY <1>1, <2>1, Grows1, Zenon
<1>3. /\ Len(log) \in Nat /\ log' \in Seq(Records) /\ log' # <<>> /\ Len(log') = Len(log) + 1
      /\ log'[Len(log) + 1] = e /\ \A i \in 1 .. Len(log) : log'[i] = log[i]
  BY <1>1, <1>2, LenProperties DEF Grown
<1>4. DOMAIN log = 1 .. Len(log) /\ DOMAIN log' = 1 .. Len(log')
  BY <1>1, <1>3, LenProperties
<1>5. Lines(log) \subseteq Lines(log') /\ (e.kind = "user_input" => Lines(log') # {})
  BY <1>1, <1>2, GrownLines
<1>6. asked' \in 0 .. Len(log') /\ call' \in 0 .. Len(log')
  BY <1>1, <1>3 DEF Quietly
<1>7. ReadersTypeOK'
  BY <1>3, <1>6 DEF ReadersTypeOK, Quietly
<1>8. ASSUME InTurn(log', doing', asked'), e.kind # "user_input" PROVE InTurn(log, doing, asked)
  <2>1. CASE doing' \in Assembled
    <3>1. doing \in Assembled
      BY <1>8, <2>1, Zenon DEF Quietly
    <3> QED
      BY <3>1, Zenon DEF InTurn
  <2>2. CASE doing' \notin Assembled
    <3>1. asked' \in DOMAIN log' /\ log'[asked'].what \in Assembled
      BY <1>8, <2>2 DEF InTurn
    <3>2. asked' # 0
      BY <1>4, <3>1
    <3>3. CASE asked' = asked
      <4>1. asked \in 1 .. Len(log)
        BY <1>1, <3>2, <3>3
      <4>2. log'[asked] = log[asked]
        BY <1>3, <4>1
      <4>3. asked \in DOMAIN log /\ log[asked].what \in Assembled
        BY <1>4, <3>1, <3>3, <4>1, <4>2, Zenon
      <4> QED
        BY <4>3, Zenon DEF InTurn
    <3>4. CASE asked' # asked
      <4>1. asked' = Len(log) + 1 /\ (e.what \notin Assembled \/ doing \in Assembled)
        BY <3>2, <3>4 DEF Quietly
      <4>2. log'[asked'] = e
        BY <1>3, <4>1
      <4>3. doing \in Assembled
        BY <3>1, <4>1, <4>2, Zenon
      <4> QED
        BY <4>3, Zenon DEF InTurn
    <3> QED
      BY <3>3, <3>4
  <2> QED
    BY <2>1, <2>2
<1>9. InTurn(log', doing', asked') => Lines(log') # {}
  <2>1. InTurn(log, doing, asked) => Lines(log) # {}
    BY DEF ReadersInv
  <2> QED
    BY <1>5, <1>8, <2>1
<1> QED
  BY <1>7, <1>9 DEF ReadersInv

LEMMA WritingOnly ==
  ASSUME ReadersInv, NEW e \in Records, Write(e), Quietly(e), UNCHANGED answered
  PROVE  ReadersInv'
<1>1. log \in Seq(Records) /\ answered \in Seq(Turns) /\ TurnsLogged(log, answered)
  BY DEF ReadersInv, ReadersTypeOK
<1>2. Grown(log, log', e)
  <2>1. log' = Append(log, e)
    BY DEF Write
  <2> QED
    BY <1>1, <2>1, Grows1, Zenon
<1>3. TurnsLogged(log', answered)
  BY <1>1, <1>2, GrownLines
<1>4. answered' \in Seq(Turns) /\ TurnsLogged(log', answered')
  BY <1>1, <1>3
<1> QED
  BY <1>4, Writing

LEMMA NotWriting ==
  ASSUME ReadersInv, UNCHANGED <<log, asked, call, answered>>, doing' \in Doings, chunk' \in Nat, lent' \in BOOLEAN,
         doing' \in Assembled => doing \in Assembled
  PROVE  ReadersInv'
<1>1. InTurn(log', doing', asked') => InTurn(log, doing, asked)
  BY DEF InTurn
<1>2. ReadersTypeOK'
  BY DEF ReadersInv, ReadersTypeOK
<1>3. (InTurn(log, doing, asked) => Lines(log) # {}) /\ TurnsLogged(log, answered)
  BY DEF ReadersInv
<1>4. Lines(log') = Lines(log) /\ TurnsLogged(log', answered')
  BY <1>3
<1> QED
  BY <1>1, <1>2, <1>3, <1>4 DEF ReadersInv

\* The answer of a request is an event.
LEMMA AnswerType ==
  ASSUME NEW of \in Nat, NEW status \in {"ok", "failed"}
  PROVE  /\ Event("model_response", "", "", of, status) \in Records
         /\ Event("model_response", "", "", of, status).kind = "model_response"
         /\ Event("model_response", "", "", of, status).what = ""
         /\ Event("model_response", "", "", of, status).status = status
BY DEF Event, Records, Kinds, Whats, Origins, Statuses

\* The reply to the turn: it is in the log, and so is the last line typed.
LEMMA Answering ==
  ASSUME ReadersInv, NEW status \in {"ok", "failed"}, NEW ends \in BOOLEAN, AnswerTurn(status, ends)
  PROVE  ReadersInv'
<1>0. PICK e : e = Event("model_response", "", "", asked, status)
  OBVIOUS
<1>1. /\ log \in Seq(Records) /\ answered \in Seq(Turns) /\ TurnsLogged(log, answered)
      /\ asked \in 0 .. Len(log) /\ call \in 0 .. Len(log) /\ chunk \in Nat /\ lent \in BOOLEAN /\ doing \in Doings
  BY DEF ReadersInv, ReadersTypeOK
<1>2. Len(log) \in Nat /\ DOMAIN log = 1 .. Len(log)
  BY <1>1, LenProperties
<1>3. e \in Records /\ e.kind = "model_response" /\ e.status = status /\ e.what = ""
  <2>1. asked \in Nat
    BY <1>1, <1>2
  <2>2. status \in Statuses /\ "" \in Whats /\ "" \in Origins /\ "model_response" \in Kinds
    BY DEF Statuses, Whats, Origins, Kinds
  <2>3. /\ Event("model_response", "", "", asked, status) \in Records
        /\ Event("model_response", "", "", asked, status).kind = "model_response"
        /\ Event("model_response", "", "", asked, status).what = ""
        /\ Event("model_response", "", "", asked, status).status = status
    BY <2>1, <2>2, AnswerType
  <2> QED
    BY <1>0, <2>3, Zenon
<1>4. Write(e)
  BY <1>0, Zenon DEF AnswerTurn
<1>5. Grown(log, log', e)
  <2>1. log' = Append(log, e)
    BY <1>4 DEF Write
  <2> QED
    BY <1>1, <1>3, <2>1, Grows1, Zenon
<1>6. TurnsLogged(log', answered)
  BY <1>1, <1>5, GrownLines
<1>7. Quietly(e)
  <2>2. doing' \in {"over", doing} /\ asked' = 0 /\ call' = call /\ chunk' = chunk /\ lent' = lent
    BY DEF AnswerTurn
  <2>1. doing' \in Doings /\ call' \in 0 .. Len(log) + 1 /\ chunk' \in Nat /\ lent' \in BOOLEAN /\ asked' \in {0, asked}
    <3>1. call' \in 0 .. Len(log) + 1 /\ asked' \in {0, asked}
      BY <1>1, <1>2, <2>2
    <3>2. doing' \in Doings
      BY <1>1, <2>2 DEF Doings
    <3> QED
      BY <1>1, <2>2, <3>1, <3>2, Zenon
  <2>3. doing' \in Assembled => doing \in Assembled
    BY <2>2 DEF Assembled
  <2> QED
    BY <2>1, <2>3, Zenon DEF Quietly
<1>8. answered' \in Seq(Turns) /\ TurnsLogged(log', answered')
  <2>1. CASE ~(status = "ok" /\ ends)
    <3>1. answered' = answered
      BY <2>1 DEF AnswerTurn
    <3> QED
      BY <1>1, <1>6, <3>1
  <2>2. CASE status = "ok" /\ ends
    <3> DEFINE t == [line |-> Max(Lines(log)), reply |-> Len(log) + 1, routed |-> doing = "route"]
    <3>1. answered' = Append(answered, t)
      BY <2>2 DEF AnswerTurn, Here
    <3>2. Lines(log) # {}
      <4>1. asked # 0 /\ log[asked].what \in Assembled
        BY DEF AnswerTurn
      <4>2. asked \in DOMAIN log
        BY <1>1, <1>2, <4>1
      <4>3. InTurn(log, doing, asked)
        BY <4>1, <4>2 DEF InTurn
      <4> QED
        BY <4>3 DEF ReadersInv
    <3>3. Max(Lines(log)) \in Lines(log) /\ Lines(log) \subseteq 1 .. Len(log)
      <4>1. Lines(log) \subseteq 1 .. Len(log)
        BY <1>2 DEF Lines
      <4> QED
        BY <1>2, <3>2, <4>1, GreatestIn
    <3>4. PICK m : m = Max(Lines(log))
      OBVIOUS
    <3>5. m \in Lines(log) /\ m \in 1 .. Len(log) /\ log[m].kind = "user_input"
      BY <3>3, <3>4 DEF Lines
    <3>6. t.line = m /\ t.reply = Len(log) + 1 /\ t \in Turns
      BY <1>2, <3>4, <3>5 DEF Turns
    <3> HIDE DEF t
    <3>7. PICK q : q = Append(answered, t)
      OBVIOUS
    <3>8. /\ q \in Seq(Turns) /\ Len(q) = Len(answered) + 1 /\ Len(answered) \in Nat /\ q[Len(answered) + 1] = t
          /\ \A n \in 1 .. Len(answered) : q[n] = answered[n]
      BY <1>1, <3>6, <3>7, AppendProperties, LenProperties
    <3>9. /\ Len(log') = Len(log) + 1 /\ log'[Len(log) + 1] = e /\ \A i \in 1 .. Len(log) : log'[i] = log[i]
      BY <1>5 DEF Grown
    <3>10. /\ m \in 1 .. Len(log') /\ log'[m].kind = "user_input" /\ Len(log) + 1 \in 1 .. Len(log')
           /\ log'[Len(log) + 1].kind = "model_response" /\ log'[Len(log) + 1].status = "ok"
      <4>1. m \in 1 .. Len(log') /\ Len(log) + 1 \in 1 .. Len(log') /\ log'[m] = log[m]
        BY <1>2, <3>5, <3>9
      <4> QED
        BY <1>3, <2>2, <3>5, <3>9, <4>1, Zenon
    <3>11. ASSUME NEW n \in 1 .. Len(q)
           PROVE  /\ q[n].line \in 1 .. Len(log') /\ log'[q[n].line].kind = "user_input"
                  /\ q[n].reply \in 1 .. Len(log') /\ log'[q[n].reply].kind = "model_response"
                  /\ log'[q[n].reply].status = "ok"
      <4>1. CASE n \in 1 .. Len(answered)
        <5>1. q[n] = answered[n]
          BY <3>8, <4>1
        <5> QED
          BY <1>6, <4>1, <5>1 DEF TurnsLogged
      <4>2. CASE n = Len(answered) + 1
        <5>1. q[n] = t
          BY <3>8, <4>2
        <5> QED
          BY <3>6, <3>10, <5>1
      <4> QED
        BY <3>8, <4>1, <4>2
    <3>12. TurnsLogged(log', q)
      BY <3>11 DEF TurnsLogged
    <3> QED
      BY <3>1, <3>7, <3>8, <3>12
  <2> QED
    BY <2>1, <2>2
<1> QED
  BY <1>3, <1>4, <1>7, <1>8, Writing

-----------------------------------------------------------------------------
(* Every step keeps it.                                                    *)

LEMMA Reached ==
  ASSUME ReadersInv
  PROVE  /\ log \in Seq(Records) /\ Len(log) \in Nat /\ Len(log) + 1 \in 0 .. Len(log) + 1
         /\ doing \in Doings /\ asked \in 0 .. Len(log) + 1 /\ asked \in Nat /\ asked \in {0, asked}
         /\ call \in 0 .. Len(log) + 1 /\ call \in Nat /\ 0 \in 0 .. Len(log) + 1 /\ chunk \in Nat /\ lent \in BOOLEAN
<1>1. log \in Seq(Records) /\ asked \in 0 .. Len(log) /\ call \in 0 .. Len(log)
        /\ doing \in Doings /\ chunk \in Nat /\ lent \in BOOLEAN
  BY DEF ReadersInv, ReadersTypeOK
<1>2. Len(log) \in Nat
  BY <1>1, LenProperties
<1> QED
  BY <1>1, <1>2

\* A step that writes e, with what it makes of the rest.
Writes(kind, what, origin, of, status) ==
  /\ Write(Event(kind, what, origin, of, status))
  /\ doing' \in Doings /\ call' \in {0, call, Len(log) + 1} /\ chunk' \in Nat /\ lent' \in BOOLEAN
  /\ \/ asked' \in {0, asked}
     \/ asked' = Len(log) + 1 /\ (what \notin Assembled \/ doing \in Assembled)
  /\ kind = "user_input" \/ (doing' \in Assembled => doing \in Assembled)
  /\ UNCHANGED answered

LEMMA WritesKeeps ==
  ASSUME ReadersInv, NEW kind \in Kinds, NEW what \in Whats, NEW origin \in Origins, NEW of \in Nat, NEW status \in Statuses,
         Writes(kind, what, origin, of, status)
  PROVE  ReadersInv'
<1>1. PICK e : e = Event(kind, what, origin, of, status)
  OBVIOUS
<1>2. e \in Records /\ e.kind = kind /\ e.what = what
  BY <1>1, EventType
<1>3. Write(e) /\ UNCHANGED answered
  BY <1>1, Zenon DEF Writes
<1>4. call' \in 0 .. Len(log) + 1
  BY Reached DEF Writes
<1>5. Quietly(e)
  BY <1>2, <1>4, Zenon DEF Quietly, Writes
<1> QED
  BY <1>2, <1>3, <1>5, WritingOnly

LEMMA ChatLineStep == ASSUME ReadersInv, NEW to \in Assembled, ChatLine(to) PROVE ReadersInv'
<1>1. to \in Whats /\ to \in Doings /\ "user_input" \in Kinds /\ "" \in Origins /\ 0 \in Nat /\ "" \in Statuses
  BY DEF Assembled, Whats, Doings, Kinds, Origins, Statuses
<1>2. Writes("user_input", to, "", 0, "")
  BY <1>1, Reached DEF ChatLine, Writes
<1> QED
  BY <1>1, <1>2, WritesKeeps

LEMMA LoadSkillStep == ASSUME ReadersInv, NEW origin \in {"user", "auto"}, LoadSkill(origin) PROVE ReadersInv'
<1>1. "skill" \in Whats /\ origin \in Origins /\ "injection" \in Kinds /\ 0 \in Nat /\ "" \in Statuses
  BY DEF Whats, Kinds, Origins, Statuses
<1>2. Writes("injection", "skill", origin, 0, "")
  BY Reached DEF LoadSkill, Writes
<1> QED
  BY <1>1, <1>2, WritesKeeps

LEMMA AskModelStep ==
  ASSUME ReadersInv, NEW what \in Assembled \cup {"summary", "plan", "draft", "pipeline"}, AskModel(what) PROVE ReadersInv'
<1>1. what \in Whats /\ "" \in Origins /\ "model_request" \in Kinds /\ 0 \in Nat /\ "" \in Statuses
  BY DEF Whats, Kinds, Origins, Statuses, Assembled
<1>2. what \in Assembled => doing \in Assembled
  <2>1. what \in Assembled => doing = what
    <3> SUFFICES ASSUME what \in Assembled PROVE doing = what
      OBVIOUS
    <3>1. what # "summary" /\ what # "plan" /\ what \notin {"draft", "pipeline"}
      BY DEF Assembled
    <3> QED
      BY <3>1 DEF AskModel
  <2> QED
    BY <2>1
<1>3. /\ Write(Event("model_request", what, "", 0, "")) /\ asked' = Len(log) + 1
      /\ UNCHANGED <<doing, call, chunk, lent, answered>>
  BY DEF AskModel, Here
<1>4. Writes("model_request", what, "", 0, "")
  BY <1>2, <1>3, Reached DEF Writes
<1> QED
  BY <1>1, <1>4, WritesKeeps

LEMMA AnswerSideStep == ASSUME ReadersInv, NEW status \in {"ok", "failed"}, AnswerSide(status) PROVE ReadersInv'
<1>1. "" \in Whats /\ "" \in Origins /\ "model_response" \in Kinds /\ asked \in Nat /\ status \in Statuses
  BY Reached DEF Whats, Kinds, Origins, Statuses
<1>2. doing' \in {"prompt", doing} /\ chunk' \in {0, chunk + 1} /\ asked' = 0 /\ UNCHANGED <<call, lent, answered>>
        /\ Write(Event("model_response", "", "", asked, status))
  BY DEF AnswerSide
<1>3. doing' \in Doings /\ (doing' \in Assembled => doing \in Assembled)
  BY <1>2, Reached DEF Doings, Assembled
<1>4. chunk' \in Nat /\ call' \in {0, call, Len(log) + 1} /\ lent' \in BOOLEAN /\ asked' \in {0, asked}
  <2>1. chunk' \in Nat
    <3>1. chunk \in Nat
      BY Reached
    <3>2. chunk' = 0 \/ chunk' = chunk + 1
      BY <1>2, Zenon
    <3>3. CASE chunk' = 0
      BY <3>3
    <3>4. CASE chunk' = chunk + 1
      <4>1. chunk + 1 \in Nat
        BY <3>1
      <4> QED
        BY <3>4, <4>1, Zenon
    <3> QED
      BY <3>2, <3>3, <3>4, Zenon
  <2>2. lent' \in BOOLEAN
    <3>1. lent \in BOOLEAN
      BY Reached
    <3> QED
      BY <1>2, <3>1, Zenon
  <2>3. call' \in {0, call, Len(log) + 1} /\ asked' \in {0, asked}
    BY <1>2
  <2> QED
    BY <2>1, <2>2, <2>3, Zenon
<1>5. Writes("model_response", "", "", asked, status)
  BY <1>2, <1>3, <1>4, Zenon DEF Writes
<1> QED
  BY <1>1, <1>5, WritesKeeps

LEMMA CallToolStep == ASSUME ReadersInv, CallTool PROVE ReadersInv'
<1>1. "tool" \in Whats /\ "model" \in Origins /\ "tool_call" \in Kinds /\ 0 \in Nat /\ doing \in Statuses
  BY DEF Whats, Kinds, Origins, Statuses, CallTool
<1>2. Writes("tool_call", "tool", "model", 0, doing)
  BY Reached DEF CallTool, Writes, Here
<1> QED
  BY <1>1, <1>2, WritesKeeps

LEMMA AuthorsCallStep ==
  ASSUME ReadersInv, NEW kind \in {"tool_call", "kb_call"}, NEW what \in {"shell", "pipeline", "draft", "inject"}, AuthorsCall(kind, what)
  PROVE  ReadersInv'
<1>1. what \in Whats /\ "user" \in Origins /\ kind \in Kinds /\ 0 \in Nat /\ "" \in Statuses /\ what \in Doings /\ what \notin Assembled
  BY DEF Whats, Kinds, Origins, Statuses, Doings, Assembled
<1>2. Writes(kind, what, "user", 0, "")
  BY <1>1, Reached DEF AuthorsCall, Writes, Here
<1> QED
  BY <1>1, <1>2, WritesKeeps

LEMMA ReturnsStep == ASSUME ReadersInv, NEW status \in {"ok", "failed"}, Returns(status) PROVE ReadersInv'
<1>1. PICK kind \in {"kb_result", "tool_result"} :
        /\ Write(Event(kind, "", "", call, status))
        /\ call' = 0 /\ doing' \in {"prompt", doing} /\ UNCHANGED <<asked, chunk, lent, answered>>
  BY DEF Returns
<1>2. "" \in Whats /\ "" \in Origins /\ kind \in Kinds /\ call \in Nat /\ status \in Statuses
  BY Reached DEF Whats, Kinds, Origins, Statuses
<1>3. doing' \in Doings /\ (doing' \in Assembled => doing \in Assembled)
  BY <1>1, Reached DEF Doings, Assembled
<1>4. Writes(kind, "", "", call, status)
  BY <1>1, <1>3, Reached DEF Writes
<1> QED
  BY <1>2, <1>4, WritesKeeps

LEMMA InjectOutputStep == ASSUME ReadersInv, InjectOutput PROVE ReadersInv'
<1>1. PICK what \in {"inject", "shell"} : Write(Event("injection", what, "user", 0, ""))
  BY DEF InjectOutput
<1>2. what \in Whats /\ "user" \in Origins /\ "injection" \in Kinds /\ 0 \in Nat /\ "" \in Statuses
  BY DEF Whats, Kinds, Origins, Statuses
<1>3. Writes("injection", what, "user", 0, "")
  BY <1>1, Reached DEF InjectOutput, Writes
<1> QED
  BY <1>2, <1>3, WritesKeeps

LEMMA StartAnalysisStep == ASSUME ReadersInv, NEW lend \in BOOLEAN, StartAnalysis(lend) PROVE ReadersInv'
<1>1. doing' \in {"read", doing} /\ chunk' = 1 /\ lent' = lend /\ UNCHANGED <<asked, call, answered>>
  BY DEF StartAnalysis
<1>2. doing' \in Doings /\ (doing' \in Assembled => doing \in Assembled)
  BY <1>1, Reached DEF Doings, Assembled
<1>3. CASE ~lend
  <2>1. log' = log
    BY <1>3 DEF StartAnalysis
  <2> QED
    BY <1>1, <1>2, <2>1, NotWriting
<1>4. CASE lend
  <2>1. Write(Event("model_switch", "", "", 0, ""))
    BY <1>4 DEF StartAnalysis
  <2>2. "" \in Whats /\ "" \in Origins /\ "model_switch" \in Kinds /\ 0 \in Nat /\ "" \in Statuses
    BY DEF Whats, Kinds, Origins, Statuses
  <2>3. Writes("model_switch", "", "", 0, "")
    BY <1>1, <1>2, <2>1, Reached DEF Writes
  <2> QED
    BY <2>2, <2>3, WritesKeeps
<1> QED
  BY <1>3, <1>4

LEMMA AskChunkStep == ASSUME ReadersInv, AskChunk PROVE ReadersInv'
<1>1. PICK what \in {"chunk", "synthesis"} :
        /\ Write(Event("model_request", what, "", chunk, "")) /\ asked' = Len(log) + 1
        /\ UNCHANGED <<doing, call, chunk, lent, answered>>
  BY DEF AskChunk, Here
<1>2. what \in Whats /\ "" \in Origins /\ "model_request" \in Kinds /\ chunk \in Nat /\ "" \in Statuses /\ what \notin Assembled
  BY Reached DEF Whats, Kinds, Origins, Statuses, Assembled
<1>3. Writes("model_request", what, "", chunk, "")
  BY <1>1, <1>2, Reached DEF Writes
<1> QED
  BY <1>2, <1>3, WritesKeeps

LEMMA StartPlanStep == ASSUME ReadersInv, StartPlan PROVE ReadersInv'
<1>1. "plan" \in Whats /\ "" \in Origins /\ "model_request" \in Kinds /\ 0 \in Nat /\ "" \in Statuses
        /\ "plan" \notin Assembled /\ "plan" \in Doings
  BY DEF Whats, Kinds, Origins, Statuses, Assembled, Doings
<1>2. Writes("model_request", "plan", "", 0, "")
  BY <1>1, Reached DEF StartPlan, Writes, Here
<1> QED
  BY <1>1, <1>2, WritesKeeps

LEMMA EndPlanStep == ASSUME ReadersInv, EndPlan PROVE ReadersInv'
<1>1. "prompt" \in Doings /\ "prompt" \notin Assembled
  BY DEF Doings, Assembled
<1>2. doing' = "prompt" /\ UNCHANGED <<log, asked, call, chunk, lent, answered>>
  BY DEF EndPlan
<1> QED
  BY <1>1, <1>2, Reached, NotWriting

LEMMA SwitchesStep == ASSUME ReadersInv, GiveModelBack \/ SwitchModel PROVE ReadersInv'
<1>1. "" \in Whats /\ "" \in Origins /\ "model_switch" \in Kinds /\ 0 \in Nat /\ "" \in Statuses
  BY DEF Whats, Kinds, Origins, Statuses
<1>2. /\ Write(Event("model_switch", "", "", 0, "")) /\ lent' \in {FALSE, lent}
      /\ UNCHANGED <<doing, asked, call, chunk, answered>>
  BY DEF GiveModelBack, SwitchModel
<1>3. Writes("model_switch", "", "", 0, "")
  BY <1>2, Reached DEF Writes
<1> QED
  BY <1>1, <1>3, WritesKeeps

LEMMA AnswerOfferStep == ASSUME ReadersInv, AnswerOffer PROVE ReadersInv'
<1>1. "write" \in Whats /\ "" \in Origins /\ "permission" \in Kinds /\ 0 \in Nat /\ "" \in Statuses
  BY DEF Whats, Kinds, Origins, Statuses
<1>2. Writes("permission", "write", "", 0, "")
  BY Reached DEF AnswerOffer, Writes
<1> QED
  BY <1>1, <1>2, WritesKeeps

LEMMA EndSessionStep == ASSUME ReadersInv, EndSession PROVE ReadersInv'
<1>1. "" \in Whats /\ "" \in Origins /\ "session_end" \in Kinds /\ 0 \in Nat /\ "" \in Statuses
        /\ "ended" \in Doings /\ "ended" \notin Assembled
  BY DEF Whats, Kinds, Origins, Statuses, Doings, Assembled
<1>2. Writes("session_end", "", "", 0, "")
  BY <1>1, Reached DEF EndSession, Writes
<1> QED
  BY <1>1, <1>2, WritesKeeps

LEMMA ReadersStep == ReadersInv /\ [ReadersNext]_readersVars => ReadersInv'
<1> SUFFICES ASSUME ReadersInv, [ReadersNext]_readersVars PROVE ReadersInv'
  OBVIOUS
<1>1. CASE UNCHANGED readersVars
  <2>1. UNCHANGED <<log, asked, call, answered, doing, chunk, lent>>
    BY <1>1 DEF readersVars
  <2> QED
    BY <2>1, Reached, NotWriting
<1>2. ASSUME NEW to \in Assembled, ChatLine(to) PROVE ReadersInv'
  BY <1>2, ChatLineStep
<1>3. ASSUME NEW origin \in {"user", "auto"}, LoadSkill(origin) PROVE ReadersInv'
  BY <1>3, LoadSkillStep
<1>4. ASSUME NEW what \in Assembled \cup {"summary", "plan", "draft", "pipeline"}, AskModel(what) PROVE ReadersInv'
  BY <1>4, AskModelStep
<1>5. ASSUME NEW status \in {"ok", "failed"}, NEW ends \in BOOLEAN, AnswerTurn(status, ends) PROVE ReadersInv'
  BY <1>5, Answering
<1>6. ASSUME NEW status \in {"ok", "failed"}, AnswerSide(status) PROVE ReadersInv'
  BY <1>6, AnswerSideStep
<1>7. ASSUME NEW what \in {"shell", "pipeline"}, AuthorsCall("tool_call", what) PROVE ReadersInv'
  BY <1>7, AuthorsCallStep
<1>8. ASSUME NEW what \in {"draft", "inject"}, AuthorsCall("kb_call", what) PROVE ReadersInv'
  BY <1>8, AuthorsCallStep
<1>9. ASSUME NEW status \in {"ok", "failed"}, Returns(status) PROVE ReadersInv'
  BY <1>9, ReturnsStep
<1>10. ASSUME NEW lend \in BOOLEAN, StartAnalysis(lend) PROVE ReadersInv'
  BY <1>10, StartAnalysisStep
<1>11. CASE CallTool
  BY <1>11, CallToolStep
<1>12. CASE InjectOutput
  BY <1>12, InjectOutputStep
<1>13. CASE AskChunk
  BY <1>13, AskChunkStep
<1>14. CASE GiveModelBack \/ SwitchModel
  BY <1>14, SwitchesStep
<1>15. CASE AnswerOffer
  BY <1>15, AnswerOfferStep
<1>16. CASE StartPlan
  BY <1>16, StartPlanStep
<1>17. CASE EndPlan
  BY <1>17, EndPlanStep
<1>18. CASE EndSession
  BY <1>18, EndSessionStep
<1> QED
  BY <1>1, <1>2, <1>3, <1>4, <1>5, <1>6, <1>7, <1>8, <1>9, <1>10, <1>11, <1>12, <1>13, <1>14, <1>15, <1>16, <1>17, <1>18, Zenon
     DEF ReadersNext

LEMMA ReadersStart == ReadersInit => ReadersInv
<1> SUFFICES ASSUME ReadersInit PROVE ReadersInv
  OBVIOUS
<1>1. PICK e : e = Event("session_start", "", "", 0, "")
  OBVIOUS
<1>2. e \in Records
  <2>1. "session_start" \in Kinds /\ "" \in Whats /\ "" \in Origins /\ 0 \in Nat /\ "" \in Statuses
    BY DEF Kinds, Whats, Origins, Statuses
  <2> QED
    BY <1>1, <2>1, EventType
<1>3. log = <<e>> /\ answered = <<>> /\ doing = "prompt" /\ asked = 0 /\ call = 0 /\ chunk = 0 /\ lent = FALSE
  BY <1>1 DEF ReadersInit
<1>4. log \in Seq(Records) /\ Len(log) = 1 /\ DOMAIN log = 1 .. 1 /\ log # <<>>
  BY <1>2, <1>3
<1>5. answered \in Seq(Turns) /\ Len(answered) = 0
  BY <1>3, EmptySeq
<1>6. doing \in Doings /\ doing \notin Assembled
  BY <1>3 DEF Doings, Assembled
<1>7. ReadersTypeOK
  <2>1. asked \in 0 .. Len(log) /\ call \in 0 .. Len(log) /\ chunk \in Nat /\ lent \in BOOLEAN
    <3>1. 0 \in 0 .. Len(log) /\ 0 \in Nat
      BY <1>4
    <3>2. FALSE \in BOOLEAN
      BY Zenon
    <3> QED
      BY <1>3, <3>1, <3>2, Zenon
  <2> QED
    BY <1>4, <1>5, <1>6, <2>1, Zenon DEF ReadersTypeOK
<1>8. ~InTurn(log, doing, asked)
  <2>1. asked \notin DOMAIN log
    BY <1>3, <1>4
  <2> QED
    BY <1>6, <2>1, Zenon DEF InTurn
<1>9. TurnsLogged(log, answered)
  BY <1>5 DEF TurnsLogged
<1> QED
  BY <1>7, <1>8, <1>9 DEF ReadersInv

LEMMA PassesCarry == ReadersInv => PassesCarryTheSession
<1> SUFFICES ASSUME ReadersInv PROVE PassesCarryTheSession
  OBVIOUS
<1> DEFINE entries == DraftTranscript(log)
<1>1. log \in Seq(Records) /\ answered \in Seq(Turns) /\ TurnsLogged(log, answered)
  BY DEF ReadersInv, ReadersTypeOK
<1>2. DOMAIN log = 1 .. Len(log) /\ DOMAIN answered = 1 .. Len(answered)
  BY <1>1, LenProperties
<1>3. /\ entries \in Seq(Entries)
      /\ \A i \in 1 .. Len(log) : IsKept(log[i]) => \E n \in 1 .. Len(entries) : entries[n].first = i
  BY <1>1, KeptAreTakenUp
<1> HIDE DEF entries
<1>4. DOMAIN entries = 1 .. Len(entries)
  BY <1>3, LenProperties
<1>5. ASSUME NEW i \in Lines(log) \cup {answered[n].reply : n \in DOMAIN answered}
      PROVE  i \in {entries[n].first : n \in DOMAIN entries}
  <2>1. i \in 1 .. Len(log) /\ IsKept(log[i])
    <3>1. CASE i \in Lines(log)
      BY <1>2, <3>1 DEF Lines, IsKept
    <3>2. CASE i \in {answered[n].reply : n \in DOMAIN answered}
      <4>1. PICK n \in 1 .. Len(answered) : i = answered[n].reply
        BY <1>2, <3>2
      <4>2. i \in 1 .. Len(log) /\ log[i].kind = "model_response" /\ log[i].status = "ok"
        BY <1>1, <4>1 DEF TurnsLogged
      <4> QED
        BY <4>2 DEF IsKept
    <3> QED
      BY <3>1, <3>2
  <2>2. PICK n \in 1 .. Len(entries) : entries[n].first = i
    BY <1>3, <2>1
  <2> QED
    BY <1>4, <2>2
<1>6. ASSUME NEW w \in Windows, NEW back \in 0 .. 3
      PROVE  LET budget == DraftBudget(w)
                 passes == SplitPasses(entries, budget, back)
             IN /\ [n \in DOMAIN FlattenSeq(passes) |-> FlattenSeq(passes)[n].first] = [n \in DOMAIN entries |-> entries[n].first]
                /\ \A p \in DOMAIN passes : passes[p] # <<>> /\ PassTokens(passes[p]) <= budget
                /\ Len(passes) = FewestPasses(FlattenSeq(passes), budget)
  <2>1. w \in Nat
    BY LengthsOK
  <2>2. PICK budget, passes : budget = DraftBudget(w) /\ passes = SplitPasses(entries, budget, back)
    OBVIOUS
  <2>3. budget \in Nat /\ budget >= 256
    BY <2>1, <2>2, BudgetIs
  <2>4. WellSplit(passes, entries, budget)
    BY <1>3, <2>2, <2>3, SplitsWell
  <2>5. PICK flat : flat = FlattenSeq(passes)
    OBVIOUS
  <2>6. flat \in Seq(Entries) /\ Len(flat) = Len(entries) /\ \A i \in 1 .. Len(entries) : flat[i].first = entries[i].first
    BY <2>4, <2>5, Zenon DEF WellSplit
  <2>7. DOMAIN flat = DOMAIN entries
    BY <1>4, <2>6, LenProperties
  <2>8. [n \in DOMAIN flat |-> flat[n].first] = [n \in DOMAIN entries |-> entries[n].first]
    BY <1>4, <2>6, <2>7
  <2>9. /\ \A p \in DOMAIN passes : passes[p] # <<>> /\ PassTokens(passes[p]) <= budget
        /\ Len(passes) = FewestPasses(FlattenSeq(passes), budget)
    BY <2>4, Zenon DEF WellSplit
  <2> QED
    BY <2>2, <2>5, <2>8, <2>9, Zenon
<1>7. Lines(log) \cup {answered[n].reply : n \in DOMAIN answered} \subseteq {entries[n].first : n \in DOMAIN entries}
  BY <1>5
<1> QED
  BY <1>6, <1>7, Zenon DEF PassesCarryTheSession, entries

\* PassesCarryTheSession: whatever the drafter's window and the lengths of what is in
\* the log, the passes carry every line and every reply of the conversation, in order
\* and each entry once, each pass is within the budget, and no split of the entries
\* takes fewer passes (draftobs_read.go DraftTranscript, draftobs_pass.go SplitPasses).
THEOREM PassesAreFewest == ReadersSpec => []PassesCarryTheSession
<1>1. ReadersSpec => []ReadersInv
  BY ReadersStart, ReadersStep, PTL DEF ReadersSpec
<1> QED
  BY <1>1, PassesCarry, PTL

-----------------------------------------------------------------------------
(* The turns of the conversation, read back. What of the log belongs to a  *)
(* line ends where a closing event stands, and an event written later      *)
(* changes it only when nothing closed it before.                          *)

Inside(events, i) == {k \in i + 1 .. Len(events) : \A j \in i + 1 .. k : ~ClosesTurn(events[j])}

Own(events, i) ==
  {k \in Inside(events, i) : /\ events[k].kind = "model_response" /\ events[k].status = "ok"
                             /\ ~(events[k].of \in Inside(events, i) /\ IsAdhoc(events[events[k].of]))}

IsOpen(events, i) == \A j \in i + 1 .. Len(events) : ~ClosesTurn(events[j])

LEMMA FirstInIs ==
  ASSUME NEW S, NEW from \in Nat, NEW to \in Nat
  PROVE  \A k : k \in from .. FirstIn(S, from, to) - 1 <=> k \in from .. to /\ \A j \in from .. k : j \notin S
<1> DEFINE found == {j \in from .. to : j \in S}
<1>1. FirstIn(S, from, to) = IF found = {} THEN to + 1 ELSE Min(found)
  BY Zenon DEF FirstIn
<1>2. CASE found = {}
  <2>1. FirstIn(S, from, to) = to + 1
    BY <1>1, <1>2
  <2>2. \A j \in from .. to : j \notin S
    BY <1>2
  <2> QED
    BY <2>1, <2>2
<1>3. CASE found # {}
  <2>1. PICK least : least = Min(found)
    OBVIOUS
  <2>2. found \in SUBSET Nat
    OBVIOUS
  <2>3. least \in found /\ \A j \in found : least <= j
    <3> HIDE DEF found
    <3> QED BY <1>3, <2>1, <2>2, LeastOf
  <2>4. FirstIn(S, from, to) = least
    BY <1>1, <1>3, <2>1
  <2>5. least \in from .. to /\ least \in S
    BY <2>3
  <2>6. \A j \in from .. least - 1 : j \notin S
    <3> SUFFICES ASSUME NEW j \in from .. least - 1, j \in S PROVE FALSE
      OBVIOUS
    <3>1. j \in found
      BY <2>5
    <3> QED
      BY <2>3, <2>5, <3>1
  <2> HIDE DEF found
  <2>7. \A k \in from .. least - 1 : k \in from .. to /\ \A j \in from .. k : j \notin S
    BY <2>5, <2>6
  <2>8. \A k \in from .. to : (\A j \in from .. k : j \notin S) => k \in from .. least - 1
    BY <2>5
  <2> QED
    BY <2>4, <2>7, <2>8
<1> QED
  BY <1>2, <1>3

LEMMA OwnIs ==
  ASSUME NEW events \in Seq(Records), NEW i \in 1 .. Len(events)
  PROVE  OwnAnswers(events, i) = Own(events, i)
<1> DEFINE S == {j \in DOMAIN events : ClosesTurn(events[j])}
           inside == i + 1 .. TurnEnd(events, i) - 1
           side == {k \in inside : IsAdhoc(events[k])}
<1>1. Len(events) \in Nat /\ DOMAIN events = 1 .. Len(events) /\ i + 1 \in Nat
  BY LenProperties
<1>2. TurnEnd(events, i) = FirstIn(S, i + 1, Len(events))
  BY Zenon DEF TurnEnd
<1>3. \A k : k \in inside <=> k \in i + 1 .. Len(events) /\ \A j \in i + 1 .. k : j \notin S
  <2> HIDE DEF S
  <2> QED BY <1>1, <1>2, FirstInIs
<1>4. inside = Inside(events, i)
  <2>1. \A k \in i + 1 .. Len(events) : \A j \in i + 1 .. k : j \in S <=> ClosesTurn(events[j])
    BY <1>1
  <2> HIDE DEF S, inside
  <2>2. \A k : k \in inside <=> k \in i + 1 .. Len(events) /\ \A j \in i + 1 .. k : ~ClosesTurn(events[j])
    BY <1>3, <2>1
  <2> QED
    BY <2>2 DEF Inside
<1>5. OwnAnswers(events, i) = {k \in inside : events[k].kind = "model_response" /\ events[k].status = "ok" /\ events[k].of \notin side}
  BY Zenon DEF OwnAnswers
<1> HIDE DEF inside
<1>6. \A k \in inside : events[k].of \notin side <=> ~(events[k].of \in Inside(events, i) /\ IsAdhoc(events[events[k].of]))
  BY <1>4
<1> QED
  BY <1>4, <1>5, <1>6 DEF Own

\* Responses come after their requests.
Follows(w) == \A k \in 1 .. Len(w) : w[k].kind = "model_response" => w[k].of \in 1 .. k - 1

\* An event more is inside what is open, unless it closes it.
LEMMA GrownInside ==
  ASSUME NEW w \in Seq(Records), NEW v, NEW e, Grown(w, v, e), NEW i \in 1 .. Len(w)
  PROVE  /\ \A k \in 1 .. Len(w) : k \in Inside(v, i) <=> k \in Inside(w, i)
         /\ Len(w) + 1 \in Inside(v, i) <=> IsOpen(w, i) /\ ~ClosesTurn(e)
         /\ Inside(w, i) \subseteq 1 .. Len(w) /\ Inside(v, i) \subseteq 1 .. Len(w) + 1
         /\ IsOpen(v, i) <=> IsOpen(w, i) /\ ~ClosesTurn(e)
         /\ IsOpen(w, i) => Inside(w, i) = i + 1 .. Len(w)
<1>1. /\ Len(w) \in Nat /\ Len(v) = Len(w) + 1 /\ v[Len(w) + 1] = e /\ \A k \in 1 .. Len(w) : v[k] = w[k]
  BY LenProperties DEF Grown
<1>2. \A k \in 1 .. Len(w) : \A j \in i + 1 .. k : v[j] = w[j]
  BY <1>1
<1>3. \A k \in 1 .. Len(w) : k \in Inside(v, i) <=> k \in Inside(w, i)
  BY <1>1, <1>2 DEF Inside
<1>4. Len(w) + 1 \in Inside(v, i) <=> IsOpen(w, i) /\ ~ClosesTurn(e)
  <2>1. Len(w) + 1 \in Inside(v, i) <=> \A j \in i + 1 .. Len(w) + 1 : ~ClosesTurn(v[j])
    BY <1>1 DEF Inside
  <2>2. (\A j \in i + 1 .. Len(w) + 1 : ~ClosesTurn(v[j])) <=> (\A j \in i + 1 .. Len(w) : ~ClosesTurn(w[j])) /\ ~ClosesTurn(e)
    BY <1>1
  <2> QED
    BY <2>1, <2>2 DEF IsOpen
<1>5. IsOpen(v, i) <=> IsOpen(w, i) /\ ~ClosesTurn(e)
  BY <1>1 DEF IsOpen
<1>6. Inside(w, i) \subseteq 1 .. Len(w) /\ Inside(v, i) \subseteq 1 .. Len(w) + 1
  BY <1>1 DEF Inside
<1>7. IsOpen(w, i) => Inside(w, i) = i + 1 .. Len(w)
  BY <1>1 DEF IsOpen, Inside
<1> QED
  BY <1>3, <1>4, <1>5, <1>6, <1>7

\* The event answers the turn of line i.
Answers(w, i, e) ==
  /\ IsOpen(w, i) /\ ~ClosesTurn(e) /\ e.kind = "model_response" /\ e.status = "ok"
  /\ ~(e.of \in Inside(w, i) /\ IsAdhoc(w[e.of]))

LEMMA GrownOwn ==
  ASSUME NEW w \in Seq(Records), NEW v, NEW e, Grown(w, v, e), Follows(v), NEW i \in 1 .. Len(w)
  PROVE  \A k : k \in Own(v, i) <=> k \in Own(w, i) \/ (Answers(w, i, e) /\ k = Len(w) + 1)
<1>1. /\ Len(w) \in Nat /\ Len(v) = Len(w) + 1 /\ v[Len(w) + 1] = e /\ \A k \in 1 .. Len(w) : v[k] = w[k]
  BY LenProperties DEF Grown
<1>2. /\ \A k \in 1 .. Len(w) : k \in Inside(v, i) <=> k \in Inside(w, i)
      /\ Len(w) + 1 \in Inside(v, i) <=> IsOpen(w, i) /\ ~ClosesTurn(e)
      /\ Inside(w, i) \subseteq 1 .. Len(w) /\ Inside(v, i) \subseteq 1 .. Len(w) + 1
  BY GrownInside
<1>3. \A k \in 1 .. Len(w) + 1 : v[k].kind = "model_response" => v[k].of \in 1 .. Len(w)
  BY <1>1 DEF Follows
<1>4. \A k \in 1 .. Len(w) + 1 : v[k].kind = "model_response" =>
        (v[k].of \in Inside(v, i) /\ IsAdhoc(v[v[k].of]) <=> v[k].of \in Inside(w, i) /\ IsAdhoc(w[v[k].of]))
  BY <1>1, <1>2, <1>3
<1>5. ASSUME NEW k \in 1 .. Len(w) PROVE k \in Own(v, i) <=> k \in Own(w, i)
  <2>1. v[k] = w[k] /\ k \in 1 .. Len(w) + 1
    BY <1>1
  <2>2. k \in Inside(v, i) <=> k \in Inside(w, i)
    BY <1>2
  <2>3. v[k].kind = "model_response" =>
          (v[k].of \in Inside(v, i) /\ IsAdhoc(v[v[k].of]) <=> w[k].of \in Inside(w, i) /\ IsAdhoc(w[w[k].of]))
    BY <1>4, <2>1
  <2> QED
    BY <2>1, <2>2, <2>3, Zenon DEF Own
<1>6. Len(w) + 1 \in Own(v, i) <=> Answers(w, i, e)
  <2>1. Len(w) + 1 \in 1 .. Len(w) + 1
    BY <1>1
  <2>2. e.kind = "model_response" =>
          (e.of \in Inside(v, i) /\ IsAdhoc(v[e.of]) <=> e.of \in Inside(w, i) /\ IsAdhoc(w[e.of]))
    BY <1>1, <1>4, <2>1, Zenon
  <2> QED
    BY <1>1, <1>2, <2>2, Zenon DEF Own, Answers
<1>7. Own(v, i) \subseteq 1 .. Len(w) + 1 /\ Own(w, i) \subseteq 1 .. Len(w)
  BY <1>2 DEF Own
<1>8. \A k : k \in 1 .. Len(w) + 1 => k \in 1 .. Len(w) \/ k = Len(w) + 1
  BY <1>1
<1>9. \A k : k \in Own(v, i) <=> k \in Own(w, i) \/ (Answers(w, i, e) /\ k = Len(w) + 1)
  BY <1>5, <1>6, <1>7, <1>8
<1> QED
  BY <1>9

LEMMA OwnStays ==
  ASSUME NEW w \in Seq(Records), NEW v, NEW e, Grown(w, v, e), Follows(v), NEW i \in 1 .. Len(w), ~Answers(w, i, e)
  PROVE  Own(v, i) = Own(w, i)
<1>1. \A k : k \in Own(v, i) <=> k \in Own(w, i)
  BY GrownOwn
<1> QED
  BY <1>1

LEMMA OwnGrows ==
  ASSUME NEW w \in Seq(Records), NEW v, NEW e, Grown(w, v, e), Follows(v), NEW i \in 1 .. Len(w), Answers(w, i, e)
  PROVE  Own(v, i) = Own(w, i) \cup {Len(w) + 1}
<1>1. \A k : k \in Own(v, i) <=> k \in Own(w, i) \/ k = Len(w) + 1
  BY GrownOwn
<1> QED
  BY <1>1

-----------------------------------------------------------------------------
(* LoadTurns goes through the log once.                                    *)

\* Add the turn of line i, if it was answered.
AddTurn(events, turns, i) == IF IsAnswered(events, i) THEN Append(turns, TurnAt(events, i)) ELSE turns

TurnsAt(f, events) ==
  /\ f \in [0 .. Len(events) -> Seq(Turns)] /\ f[0] = <<>>
  /\ LoadTurns(events) = f[Len(events)]
  /\ \A i \in 1 .. Len(events) : f[i] = AddTurn(events, f[i - 1], i)

LEMMA TurnType ==
  ASSUME NEW i \in Nat, NEW m \in Nat, NEW b \in BOOLEAN
  PROVE  [line |-> i, reply |-> m, routed |-> b] \in Turns
BY DEF Turns

LEMMA TurnAtType ==
  ASSUME NEW events \in Seq(Records), NEW i \in 1 .. Len(events), IsAnswered(events, i)
  PROVE  TurnAt(events, i) \in Turns
<1>1. Len(events) \in Nat /\ i \in Nat
  BY LenProperties
<1>2. OwnAnswers(events, i) # {} /\ OwnAnswers(events, i) \subseteq 1 .. Len(events)
  BY <1>1, OwnIs DEF IsAnswered, Own, Inside
<1>3. PICK m : m = Max(OwnAnswers(events, i))
  OBVIOUS
<1>4. m \in 1 .. Len(events)
  BY <1>1, <1>2, <1>3, GreatestIn
<1>5. TurnAt(events, i) = [line |-> i, reply |-> m, routed |-> events[i].what = "route"]
  BY <1>3, Zenon DEF TurnAt
<1>6. m \in Nat
  BY <1>4
<1>7. (events[i].what = "route") \in BOOLEAN
  OBVIOUS
<1> QED
  BY <1>1, <1>5, <1>6, <1>7, TurnType, Zenon

LEMMA TurnsFold ==
  ASSUME NEW events \in Seq(Records)
  PROVE  \E f : TurnsAt(f, events)
<1> DEFINE A == Seq(Turns)
           p == [i \in DOMAIN events |-> i]
           B == 1 .. Len(events)
           st == [x \in A \X B |-> AddTurn(events, x[1], x[2])]
           Folds(g) == g = [s \in SUBSET (DOMAIN p) |->
                              IF s = {} THEN <<>> ELSE AddTurn(events, g[s \ {Max(s)}], p[Max(s)])]
           fold == CHOOSE g : Folds(g)
<1>1. LoadTurns(events) = fold[DOMAIN p]
  BY Zenon DEF LoadTurns, AddTurn, FoldLeftDomain, FoldLeft, MapThenFoldSet
<1>2. DOMAIN events = 1 .. Len(events) /\ Len(events) \in Nat
  BY LenProperties
<1>3. p \in Seq(B) /\ Len(p) = Len(events) /\ DOMAIN p = 1 .. Len(p) /\ \A i \in 1 .. Len(p) : p[i] = i /\ p[i] \in B
  BY <1>2
<1>4. <<>> \in A /\ \A a \in A, x \in B : AddTurn(events, a, x) \in A
  <2>1. <<>> \in A
    BY EmptySeq
  <2>2. ASSUME NEW a \in A, NEW x \in B PROVE AddTurn(events, a, x) \in A
    <3>1. CASE IsAnswered(events, x)
      <4>1. TurnAt(events, x) \in Turns
        BY <3>1, TurnAtType
      <4>2. Append(a, TurnAt(events, x)) \in A
        BY <4>1, AppendProperties
      <4> QED
        BY <3>1, <4>2, Zenon DEF AddTurn
    <3>2. CASE ~IsAnswered(events, x)
      BY <3>2, Zenon DEF AddTurn
    <3> QED
      BY <3>1, <3>2, Zenon
  <2> QED
    BY <2>1, <2>2
<1> HIDE DEF A, B, p
<1>5. st \in [A \X B -> A] /\ \A a \in A, x \in B : st[<<a, x>>] = AddTurn(events, a, x)
  BY <1>4
<1> HIDE DEF st
<1>6. Folds(fold)
  <2>1. PICK g : Steps(g, A, B, st, <<>>, p)
    BY <1>3, <1>4, <1>5, FoldSteps
  <2>2. \A s \in SUBSET (DOMAIN p) : g[s] = IF s = {} THEN <<>> ELSE AddTurn(events, g[s \ {Max(s)}], p[Max(s)])
    BY <1>5, <2>1 DEF Steps
  <2>3. Folds(g)
    BY <2>1, <2>2 DEF Steps
  <2> HIDE DEF Folds
  <2> QED BY <2>3, Zenon
<1>7. FoldsIn(fold, A, st, <<>>, p, Len(p))
  <2> HIDE DEF fold
  <2>1. \A s \in SUBSET (1 .. Len(p)) : fold[s] = IF s = {} THEN <<>> ELSE AddTurn(events, fold[s \ {Max(s)}], p[Max(s)])
    BY <1>3, <1>6
  <2>2. \A s \in SUBSET (1 .. Len(p)) : s # {} => Max(s) \in 1 .. Len(p)
    BY <1>2, <1>3, GreatestIn
  <2> QED
    BY <1>3, <1>5, <2>1, <2>2 DEF FoldsIn
<1>8. PICK f : ValuesOf(f, A, st, <<>>, p)
  BY <1>3, <1>4, <1>5, Folding
<1> HIDE DEF fold, Folds
<1>9. Folded(f, A, st, <<>>, p) /\ fold[DOMAIN p] = f[Len(p)]
  BY <1>3, <1>7, <1>8 DEF ValuesOf
<1>10. f \in [0 .. Len(p) -> A] /\ f[0] = <<>> /\ \A i \in 1 .. Len(p) : f[i] = st[<<f[i - 1], p[i]>>]
  BY <1>9 DEF Folded
<1>11. ASSUME NEW i \in 1 .. Len(p) PROVE f[i] = AddTurn(events, f[i - 1], i)
  <2>1. i - 1 \in 0 .. Len(p)
    BY <1>2, <1>3
  <2>2. f[i - 1] \in A /\ i \in B /\ p[i] = i
    BY <1>3, <1>10, <2>1
  <2> QED
    BY <1>5, <1>10, <2>2
<1> QED
  BY <1>1, <1>3, <1>9, <1>10, <1>11 DEF TurnsAt, A

\* A turn is what the log says of its line.
ReadBack(w, t) ==
  /\ t.line \in Lines(w) /\ t.reply \in Own(w, t.line) /\ \A k \in Own(w, t.line) : k <= t.reply
  /\ t.routed = (w[t.line].what = "route")

InOrderOfLines(turns) == \A m, n \in 1 .. Len(turns) : m < n => turns[m].line < turns[n].line

LEMMA LinesAre ==
  ASSUME NEW w \in Seq(Records)
  PROVE  /\ Len(w) \in Nat /\ Lines(w) \subseteq 1 .. Len(w)
         /\ \A i \in 1 .. Len(w) : i \in Lines(w) <=> w[i].kind = "user_input"
<1>1. Len(w) \in Nat /\ DOMAIN w = 1 .. Len(w)
  BY LenProperties
<1> QED
  BY <1>1 DEF Lines

LEMMA ReadBackIs ==
  ASSUME NEW w \in Seq(Records), NEW t \in Turns, ReadBack(w, t)
  PROVE  IsAnswered(w, t.line) /\ TurnAt(w, t.line) = t
<1>1. PICK i : i = t.line
  OBVIOUS
<1>2. i \in 1 .. Len(w) /\ w[i].kind = "user_input" /\ Len(w) \in Nat
  BY <1>1, LinesAre DEF ReadBack
<1>3. OwnAnswers(w, i) = Own(w, i)
  BY <1>2, OwnIs
<1>4. Own(w, i) \in SUBSET (1 .. Len(w)) /\ t.reply \in Own(w, i) /\ \A k \in Own(w, i) : k <= t.reply
  BY <1>1, <1>2 DEF Own, Inside, ReadBack
<1>5. PICK S : S = Own(w, i)
  OBVIOUS
<1>6. Max(S) = t.reply
  <2>1. PICK m : m = Max(S)
    OBVIOUS
  <2>2. m \in S /\ \A k \in S : m >= k
    <3>1. \E u \in S : \A k \in S : u >= k
      BY <1>2, <1>4, <1>5
    <3>2. Max(S) = CHOOSE u \in S : \A k \in S : u >= k
      BY Zenon DEF Max
    <3> QED
      BY <2>1, <3>1, <3>2, Zenon
  <2>3. m <= t.reply /\ t.reply <= m /\ m \in Int /\ t.reply \in Int
    BY <1>2, <1>4, <1>5, <2>2
  <2> QED
    BY <2>1, <2>3
<1>7. IsAnswered(w, i)
  <2>1. OwnAnswers(w, i) # {}
    BY <1>3, <1>4
  <2> QED
    BY <1>2, <2>1, Zenon DEF IsAnswered
<1>8. TurnAt(w, i) = [line |-> i, reply |-> t.reply, routed |-> w[i].what = "route"]
  <2>1. Max(OwnAnswers(w, i)) = t.reply
    BY <1>3, <1>5, <1>6, Zenon
  <2> QED
    BY <2>1, Zenon DEF TurnAt
<1>9. PICK b : b = (w[i].what = "route")
  OBVIOUS
<1>10. t.routed = b
  BY <1>1, <1>9, Zenon DEF ReadBack
<1>11. TurnAt(w, i) = [line |-> i, reply |-> t.reply, routed |-> b]
  BY <1>8, <1>9, Zenon
<1>12. [line |-> i, reply |-> t.reply, routed |-> b] = t
  <2>1. t = [line |-> t.line, reply |-> t.reply, routed |-> t.routed]
    BY DEF Turns
  <2> QED
    BY <1>1, <1>10, <2>1, Zenon
<1> QED
  BY <1>1, <1>7, <1>11, <1>12, Zenon

\* The turns up to the line at i, and no later one.
ReadSoFar(turns, c, i) ==
  /\ c \in 0 .. Len(turns)
  /\ \A n \in 1 .. Len(turns) : IF n <= c THEN turns[n].line <= i ELSE turns[n].line > i

LEMMA TurnsAreRead ==
  ASSUME NEW w \in Seq(Records), NEW turns \in Seq(Turns), InOrderOfLines(turns),
         \A n \in 1 .. Len(turns) : ReadBack(w, turns[n]),
         \A i \in Lines(w) : Own(w, i) # {} => \E n \in 1 .. Len(turns) : turns[n].line = i
  PROVE  LoadTurns(w) = turns
<1>1. PICK f : TurnsAt(f, w)
  BY TurnsFold
<1> DEFINE T == {i \in 0 .. Len(w) : \E c : ReadSoFar(turns, c, i) /\ f[i] = SubSeq(turns, 1, c)}
<1>2. Len(w) \in Nat /\ Len(turns) \in Nat /\ \A n \in 1 .. Len(turns) : turns[n] \in Turns
  BY LenProperties, ElementOfSeq
<1>3. \A n \in 1 .. Len(turns) : turns[n].line \in Lines(w) /\ turns[n].line \in 1 .. Len(w)
  BY LinesAre DEF ReadBack
<1>4. 0 \in T
  <2>1. ReadSoFar(turns, 0, 0)
    BY <1>2, <1>3 DEF ReadSoFar
  <2>2. SubSeq(turns, 1, 0) = <<>>
    BY <1>2
  <2>3. f[0] = <<>>
    BY <1>1 DEF TurnsAt
  <2>4. \E c : ReadSoFar(turns, c, 0) /\ f[0] = SubSeq(turns, 1, c)
    BY <2>1, <2>2, <2>3, Zenon
  <2>5. 0 \in 0 .. Len(w)
    BY <1>2
  <2> QED
    BY <2>4, <2>5, Zenon
<1>5. ASSUME NEW i \in 1 .. Len(w), i - 1 \in T PROVE i \in T
  <2>1. PICK c : ReadSoFar(turns, c, i - 1) /\ f[i - 1] = SubSeq(turns, 1, c)
    BY <1>5
  <2>2. c \in 0 .. Len(turns) /\ \A n \in 1 .. Len(turns) : IF n <= c THEN turns[n].line <= i - 1 ELSE turns[n].line > i - 1
    BY <2>1 DEF ReadSoFar
  <2>3. f[i] = AddTurn(w, f[i - 1], i)
    BY <1>1 DEF TurnsAt
  <2>4. CASE \E n \in 1 .. Len(turns) : turns[n].line = i
    <3>1. PICK n \in 1 .. Len(turns) : turns[n].line = i
      BY <2>4
    <3>2. n = c + 1
      <4>1. n > c
        BY <1>2, <2>2, <3>1
      <4>2. c + 1 \in 1 .. Len(turns)
        BY <1>2, <2>2, <4>1
      <4>3. ASSUME c + 1 < n PROVE FALSE
        <5>1. turns[c + 1].line < turns[n].line
          BY <4>2, <4>3 DEF InOrderOfLines
        <5>2. turns[c + 1].line > i - 1 /\ turns[c + 1].line \in Nat
          BY <1>3, <2>2, <4>2
        <5> QED
          BY <3>1, <5>1, <5>2
      <4> QED
        BY <2>2, <4>1, <4>3
    <3>3. IsAnswered(w, i) /\ TurnAt(w, i) = turns[c + 1]
      <4>1. turns[n] \in Turns /\ ReadBack(w, turns[n])
        BY <1>2
      <4> QED
        BY <3>1, <3>2, <4>1, ReadBackIs
    <3>4. f[i] = Append(SubSeq(turns, 1, c), turns[c + 1])
      BY <2>1, <2>3, <3>3, Zenon DEF AddTurn
    <3>5. Append(SubSeq(turns, 1, c), turns[c + 1]) = SubSeq(turns, 1, c + 1)
      BY <1>2, <2>2, <3>1, <3>2
    <3>6. ReadSoFar(turns, c + 1, i)
      <4>1. c + 1 \in 0 .. Len(turns)
        BY <2>2, <3>2
      <4>2. ASSUME NEW m \in 1 .. Len(turns)
            PROVE  IF m <= c + 1 THEN turns[m].line <= i ELSE turns[m].line > i
        <5>1. turns[m].line \in Nat
          BY <1>3
        <5>2. m > n => turns[m].line > i
          BY <1>3, <3>1 DEF InOrderOfLines
        <5>3. m <= c => turns[m].line <= i - 1
          BY <2>2
        <5>4. m \in Nat /\ c \in Nat
          BY <2>2
        <5> QED
          BY <3>1, <3>2, <5>1, <5>2, <5>3, <5>4
      <4> QED
        BY <4>1, <4>2 DEF ReadSoFar
    <3>7. \E d : ReadSoFar(turns, d, i) /\ f[i] = SubSeq(turns, 1, d)
      BY <3>4, <3>5, <3>6, Zenon
    <3>8. i \in 0 .. Len(w)
      BY <1>2
    <3> QED
      BY <3>7, <3>8, Zenon
  <2>5. CASE ~ \E n \in 1 .. Len(turns) : turns[n].line = i
    <3>1. ~IsAnswered(w, i)
      <4> SUFFICES ASSUME IsAnswered(w, i) PROVE FALSE
        OBVIOUS
      <4>1. i \in Lines(w) /\ Own(w, i) # {}
        BY LinesAre, OwnIs DEF IsAnswered
      <4> QED
        BY <2>5, <4>1
    <3>2. f[i] = SubSeq(turns, 1, c)
      BY <2>1, <2>3, <3>1, Zenon DEF AddTurn
    <3>3. ReadSoFar(turns, c, i)
      <4>1. ASSUME NEW m \in 1 .. Len(turns) PROVE IF m <= c THEN turns[m].line <= i ELSE turns[m].line > i
        <5>1. turns[m].line \in Nat /\ turns[m].line # i
          BY <1>3, <2>5
        <5>2. IF m <= c THEN turns[m].line <= i - 1 ELSE turns[m].line > i - 1
          BY <2>2
        <5> QED
          BY <5>1, <5>2
      <4> QED
        BY <2>2, <4>1 DEF ReadSoFar
    <3>7. \E d : ReadSoFar(turns, d, i) /\ f[i] = SubSeq(turns, 1, d)
      BY <3>2, <3>3, Zenon
    <3>8. i \in 0 .. Len(w)
      BY <1>2
    <3> QED
      BY <3>7, <3>8, Zenon
  <2> QED
    BY <2>4, <2>5
<1>6. Len(w) \in T
  <2> HIDE DEF T
  <2>1. \A i \in 0 .. Len(w) : i \in T
    BY <1>2, <1>4, <1>5, UpTo
  <2> QED
    BY <1>2, <2>1
<1>7. PICK c : ReadSoFar(turns, c, Len(w)) /\ f[Len(w)] = SubSeq(turns, 1, c)
  BY <1>6
<1>8. c = Len(turns)
  <2> SUFFICES ASSUME c # Len(turns) PROVE FALSE
    OBVIOUS
  <2>1. c \in 0 .. Len(turns) /\ Len(turns) \in 1 .. Len(turns) /\ ~(Len(turns) <= c)
    BY <1>2, <1>7 DEF ReadSoFar
  <2>2. turns[Len(turns)].line > Len(w)
    BY <1>7, <2>1 DEF ReadSoFar
  <2> QED
    BY <1>3, <2>1, <2>2
<1>9. SubSeq(turns, 1, Len(turns)) = turns
  BY <1>2
<1> QED
  BY <1>1, <1>7, <1>8, <1>9, Zenon DEF TurnsAt

-----------------------------------------------------------------------------
(* What is true of the turns and of the log at every step: the turn under  *)
(* way is open, and its answers so far are of its own requests; every      *)
(* other line with an answer has its turn.                                 *)

UnderWay(w, d, i) == d \in Assembled /\ \A j \in Lines(w) : j <= i

Current(w, d, turns, i) ==
  /\ IsOpen(w, i) /\ w[i].what = d
  /\ \A n \in 1 .. Len(turns) : turns[n].line < i
  /\ \A k \in Own(w, i) : d = "turn" /\ w[w[k].of].what = "turn"

TurnsOf(w, d, turns) ==
  /\ InOrderOfLines(turns)
  /\ \A n \in 1 .. Len(turns) : ReadBack(w, turns[n])
  /\ \A i \in Lines(w) : Own(w, i) # {} => (\E n \in 1 .. Len(turns) : turns[n].line = i) \/ UnderWay(w, d, i)
  /\ \A i \in Lines(w) : UnderWay(w, d, i) => Current(w, d, turns, i)

\* The lines of the log with an event more.
LEMMA GrownLinesAre ==
  ASSUME NEW w \in Seq(Records), NEW v, NEW e, Grown(w, v, e)
  PROVE  /\ Len(w) \in Nat /\ Lines(w) \subseteq 1 .. Len(w) /\ v \in Seq(Records)
         /\ e.kind = "user_input" => Lines(v) = Lines(w) \cup {Len(w) + 1}
         /\ e.kind # "user_input" => Lines(v) = Lines(w)
         /\ \A i \in 1 .. Len(w) : v[i] = w[i]
         /\ v[Len(w) + 1] = e /\ Len(v) = Len(w) + 1
<1>1. /\ Len(w) \in Nat /\ v \in Seq(Records) /\ Len(v) = Len(w) + 1 /\ v[Len(w) + 1] = e
      /\ \A i \in 1 .. Len(w) : v[i] = w[i]
  BY LenProperties DEF Grown
<1>2. /\ Lines(w) \subseteq 1 .. Len(w) /\ \A i \in 1 .. Len(w) : i \in Lines(w) <=> w[i].kind = "user_input"
  BY LinesAre
<1>3. /\ Lines(v) \subseteq 1 .. Len(v) /\ \A i \in 1 .. Len(v) : i \in Lines(v) <=> v[i].kind = "user_input"
  BY <1>1, LinesAre
<1>4. \A i : i \in Lines(v) <=> i \in Lines(w) \/ (e.kind = "user_input" /\ i = Len(w) + 1)
  BY <1>1, <1>2, <1>3
<1>5. e.kind = "user_input" => Lines(v) = Lines(w) \cup {Len(w) + 1}
  BY <1>4
<1>6. e.kind # "user_input" => Lines(v) = Lines(w)
  BY <1>4
<1> QED
  BY <1>1, <1>2, <1>5, <1>6

\* A turn that is over stays as it is.
LEMMA ReadBackStays ==
  ASSUME NEW w \in Seq(Records), NEW v, NEW e, Grown(w, v, e), Follows(v), NEW t, ReadBack(w, t), ~Answers(w, t.line, e)
  PROVE  ReadBack(v, t)
<1>1. t.line \in 1 .. Len(w) /\ t.line \in Lines(v) /\ v[t.line] = w[t.line]
  BY GrownLinesAre DEF ReadBack
<1>2. Own(v, t.line) = Own(w, t.line)
  BY <1>1, OwnStays
<1> QED
  BY <1>1, <1>2, Zenon DEF ReadBack

\* An event that answers no turn.
LEMMA TurnsBeside ==
  ASSUME NEW w \in Seq(Records), NEW v, NEW e, Grown(w, v, e), Follows(v), NEW d, NEW b, NEW turns,
         TurnsOf(w, d, turns), e.kind # "user_input", \A i \in Lines(w) : ~Answers(w, i, e),
         d = b \/ (d \notin Assembled /\ b \notin Assembled), d \in Assembled => ~ClosesTurn(e)
  PROVE  TurnsOf(v, b, turns)
<1>1. Lines(v) = Lines(w) /\ Lines(w) \subseteq 1 .. Len(w) /\ Len(w) \in Nat /\ \A i \in 1 .. Len(w) : v[i] = w[i]
  BY GrownLinesAre
<1>2. ASSUME NEW i \in Lines(w) PROVE Own(v, i) = Own(w, i)
  BY <1>1, OwnStays
<1>3. \A n \in 1 .. Len(turns) : ReadBack(v, turns[n])
  <2> SUFFICES ASSUME NEW n \in 1 .. Len(turns) PROVE ReadBack(v, turns[n])
    OBVIOUS
  <2>1. ReadBack(w, turns[n])
    BY DEF TurnsOf
  <2>2. ~Answers(w, turns[n].line, e)
    BY <2>1 DEF ReadBack
  <2> QED
    BY <2>1, <2>2, ReadBackStays
<1>4. \A i : UnderWay(v, b, i) <=> UnderWay(w, d, i)
  BY <1>1 DEF UnderWay
<1>5. ASSUME NEW i \in Lines(w), UnderWay(w, d, i) PROVE Current(v, b, turns, i)
  <2>1. Current(w, d, turns, i) /\ i \in 1 .. Len(w)
    BY <1>1, <1>5 DEF TurnsOf
  <2>2. b = d /\ ~ClosesTurn(e)
    BY <1>5 DEF UnderWay
  <2>3. IsOpen(v, i)
    BY <2>1, <2>2, GrownInside DEF Current
  <2>4. \A k \in Own(w, i) : d = "turn" /\ v[v[k].of].what = "turn"
    <3> SUFFICES ASSUME NEW k \in Own(w, i) PROVE d = "turn" /\ v[v[k].of].what = "turn"
      OBVIOUS
    <3>1. k \in 1 .. Len(w) /\ w[k].kind = "model_response"
      BY <1>1, <2>1 DEF Own, Inside
    <3>2. v[k] = w[k] /\ k \in 1 .. Len(v)
      BY <1>1, <3>1, GrownLinesAre
    <3>3. v[k].of \in 1 .. k - 1
      BY <3>1, <3>2 DEF Follows
    <3>4. v[k].of \in 1 .. Len(w)
      BY <1>1, <3>1, <3>3
    <3>5. v[v[k].of] = w[w[k].of]
      BY <1>1, <3>2, <3>4
    <3> QED
      BY <2>1, <3>5 DEF Current
  <2>5. v[i].what = d /\ \A n \in 1 .. Len(turns) : turns[n].line < i
    BY <1>1, <2>1 DEF Current
  <2> QED
    BY <1>2, <2>2, <2>3, <2>4, <2>5 DEF Current
<1>6. \A i \in Lines(v) : Own(v, i) # {} => (\E n \in 1 .. Len(turns) : turns[n].line = i) \/ UnderWay(v, b, i)
  BY <1>1, <1>2, <1>4 DEF TurnsOf
<1>7. \A i \in Lines(v) : UnderWay(v, b, i) => Current(v, b, turns, i)
  BY <1>1, <1>4, <1>5
<1> QED
  BY <1>3, <1>6, <1>7 DEF TurnsOf

\* A line is typed: nothing of it is answered yet, and it ends the turn before it.
LEMMA TurnsWithLine ==
  ASSUME NEW w \in Seq(Records), NEW v, NEW e, Grown(w, v, e), Follows(v), NEW d, NEW turns,
         TurnsOf(w, d, turns), e.kind = "user_input", d \notin Assembled
  PROVE  TurnsOf(v, e.what, turns)
<1>1. /\ Lines(v) = Lines(w) \cup {Len(w) + 1} /\ Lines(w) \subseteq 1 .. Len(w) /\ Len(w) \in Nat
      /\ \A i \in 1 .. Len(w) : v[i] = w[i]
      /\ v[Len(w) + 1] = e /\ Len(v) = Len(w) + 1
  BY GrownLinesAre
<1>2. \A i : ~Answers(w, i, e)
  BY DEF Answers
<1>3. ASSUME NEW i \in Lines(w) PROVE Own(v, i) = Own(w, i)
  BY <1>1, <1>2, OwnStays
<1>4. \A n \in 1 .. Len(turns) : ReadBack(v, turns[n])
  BY <1>2, ReadBackStays DEF TurnsOf
<1>5. Own(v, Len(w) + 1) = {} /\ IsOpen(v, Len(w) + 1)
  BY <1>1 DEF Own, Inside, IsOpen
<1>6. \A i \in Lines(v) : UnderWay(v, e.what, i) => i = Len(w) + 1
  <2> SUFFICES ASSUME NEW i \in Lines(v), \A j \in Lines(v) : j <= i PROVE i = Len(w) + 1
    BY DEF UnderWay
  <2>1. Len(w) + 1 <= i /\ i \in 1 .. Len(w) + 1
    BY <1>1
  <2> QED
    BY <1>1, <2>1
<1>7. \A n \in 1 .. Len(turns) : turns[n].line < Len(w) + 1
  BY <1>1 DEF TurnsOf, ReadBack
<1>8. Current(v, e.what, turns, Len(w) + 1)
  BY <1>1, <1>5, <1>7 DEF Current
<1>9. \A i \in Lines(v) : Own(v, i) # {} => (\E n \in 1 .. Len(turns) : turns[n].line = i) \/ UnderWay(v, e.what, i)
  <2>1. \A i \in Lines(w) : Own(w, i) # {} => \E n \in 1 .. Len(turns) : turns[n].line = i
    BY DEF TurnsOf, UnderWay
  <2> QED
    BY <1>1, <1>3, <1>5, <2>1
<1>10. \A i \in Lines(v) : UnderWay(v, e.what, i) => Current(v, e.what, turns, i)
  BY <1>6, <1>8
<1> QED
  BY <1>4, <1>9, <1>10 DEF TurnsOf

\* The line a reply answers is the last one, for a line closes the turn before it.
LEMMA OnlyLastIsOpen ==
  ASSUME NEW w \in Seq(Records), NEW i \in Lines(w), NEW j \in Lines(w), j < i
  PROVE  ~IsOpen(w, j)
<1>1. i \in 1 .. Len(w) /\ j \in 1 .. Len(w) /\ w[i].kind = "user_input" /\ Len(w) \in Nat
  BY LinesAre
<1>2. i \in j + 1 .. Len(w) /\ ClosesTurn(w[i])
  BY <1>1 DEF ClosesTurn
<1> QED
  BY <1>2 DEF IsOpen

\* e is an answer, ended well, to a request of the turn of line i.
RepliesTo(w, d, i, e) ==
  /\ i \in Lines(w) /\ UnderWay(w, d, i)
  /\ e.kind = "model_response" /\ e.status = "ok" /\ ~ClosesTurn(e)
  /\ e.of \in 1 .. Len(w) /\ w[e.of].what = d

LEMMA RepliesAnswer ==
  ASSUME NEW w \in Seq(Records), NEW v, NEW e, Grown(w, v, e), Follows(v), NEW d, NEW turns, TurnsOf(w, d, turns),
         NEW i, RepliesTo(w, d, i, e)
  PROVE  /\ Current(w, d, turns, i) /\ Own(v, i) = Own(w, i) \cup {Len(w) + 1}
         /\ \A j \in Lines(w) : j # i => Own(v, j) = Own(w, j) /\ ~Answers(w, j, e)
         /\ Lines(v) = Lines(w) /\ i \in 1 .. Len(w) /\ Len(w) \in Nat /\ \A j \in Lines(w) : j <= i
<1>1. /\ i \in Lines(w) /\ UnderWay(w, d, i) /\ e.kind = "model_response" /\ e.status = "ok" /\ ~ClosesTurn(e)
      /\ w[e.of].what = d /\ d \in Assembled /\ \A j \in Lines(w) : j <= i
  BY DEF RepliesTo, UnderWay
<1>2. Current(w, d, turns, i)
  BY <1>1 DEF TurnsOf
<1>3. ~IsAdhoc(w[e.of])
  BY <1>1 DEF IsAdhoc
<1>4. Answers(w, i, e)
  BY <1>1, <1>2, <1>3, Zenon DEF Answers, Current
<1>5. Lines(v) = Lines(w) /\ Lines(w) \subseteq 1 .. Len(w) /\ Len(w) \in Nat
  BY <1>1, GrownLinesAre
<1>6. Own(v, i) = Own(w, i) \cup {Len(w) + 1}
  BY <1>1, <1>4, <1>5, OwnGrows
<1>7. ASSUME NEW j \in Lines(w), j # i PROVE Own(v, j) = Own(w, j) /\ ~Answers(w, j, e)
  <2>1. j \in 1 .. Len(w) /\ j < i
    BY <1>1, <1>5, <1>7
  <2>2. ~IsOpen(w, j)
    BY <1>1, <2>1, OnlyLastIsOpen
  <2>3. ~Answers(w, j, e)
    BY <2>2 DEF Answers
  <2> QED
    BY <2>1, <2>3, OwnStays
<1>8. i \in 1 .. Len(w)
  BY <1>1, <1>5
<1> QED
  BY <1>1, <1>2, <1>5, <1>6, <1>7, <1>8

\* The turn of line i, told by what is written next.
ToldNow(w, d, i, t) == t \in Turns /\ t.line = i /\ t.reply = Len(w) + 1 /\ t.routed = (d = "route")

\* The reply to the line: the turn is one more, and over.
LEMMA TurnReplied ==
  ASSUME NEW w \in Seq(Records), NEW v, NEW e, Grown(w, v, e), Follows(v), NEW d, NEW b, b \notin Assembled,
         NEW turns \in Seq(Turns), TurnsOf(w, d, turns), NEW i, RepliesTo(w, d, i, e),
         NEW t, ToldNow(w, d, i, t), NEW more, more = Append(turns, t)
  PROVE  TurnsOf(v, b, more)
<1>0. t \in Turns /\ t.line = i /\ t.reply = Len(w) + 1 /\ t.routed = (d = "route")
  BY Zenon DEF ToldNow
<1>1. /\ Current(w, d, turns, i) /\ Own(v, i) = Own(w, i) \cup {Len(w) + 1}
      /\ \A j \in Lines(w) : j # i => Own(v, j) = Own(w, j) /\ ~Answers(w, j, e)
      /\ Lines(v) = Lines(w) /\ i \in 1 .. Len(w) /\ Len(w) \in Nat /\ \A j \in Lines(w) : j <= i
  BY RepliesAnswer
<1>2. Len(turns) \in Nat /\ Len(more) = Len(turns) + 1 /\ more[Len(turns) + 1] = t
        /\ \A n \in 1 .. Len(turns) : more[n] = turns[n]
  BY <1>0, LenProperties, AppendProperties
<1>3. v[i] = w[i] /\ w[i].what = d /\ i \in Lines(w)
  BY <1>1, GrownLinesAre DEF Current, RepliesTo
<1>4. ReadBack(v, t)
  <2>1. t.reply \in Own(v, i) /\ i \in Lines(v)
    BY <1>0, <1>1, <1>3
  <2>2. \A k \in Own(v, i) : k <= t.reply
    <3>1. \A k \in Own(w, i) : k \in 1 .. Len(w)
      BY <1>1 DEF Own, Inside
    <3> QED
      BY <1>0, <1>1, <3>1
  <2>3. t.routed = (v[i].what = "route")
    BY <1>0, <1>3
  <2> QED
    BY <1>0, <2>1, <2>2, <2>3, Zenon DEF ReadBack
<1>5. ASSUME NEW n \in 1 .. Len(turns) PROVE ReadBack(v, turns[n]) /\ turns[n].line < i
  <2>1. ReadBack(w, turns[n]) /\ turns[n].line < i
    BY <1>1 DEF TurnsOf, Current
  <2>2. turns[n].line \in Lines(w) /\ turns[n].line # i
    <3>1. turns[n].line \in Lines(w)
      BY <2>1 DEF ReadBack
    <3>2. turns[n].line \in Nat /\ i \in Nat
      BY <1>1, <3>1, LinesAre
    <3> QED
      BY <2>1, <3>1, <3>2
  <2>3. ~Answers(w, turns[n].line, e)
    BY <1>1, <2>2
  <2> QED
    BY <2>1, <2>3, ReadBackStays
<1>6. \A n \in 1 .. Len(more) : ReadBack(v, more[n])
  BY <1>2, <1>4, <1>5
<1>7. InOrderOfLines(more)
  <2> SUFFICES ASSUME NEW m \in 1 .. Len(more), NEW n \in 1 .. Len(more), m < n PROVE more[m].line < more[n].line
    BY DEF InOrderOfLines
  <2>1. m \in 1 .. Len(turns) /\ more[m] = turns[m]
    BY <1>2
  <2>2. CASE n \in 1 .. Len(turns)
    <3>1. turns[m].line < turns[n].line
      BY <2>1, <2>2 DEF TurnsOf, InOrderOfLines
    <3> QED
      BY <1>2, <2>1, <2>2, <3>1
  <2>3. CASE n = Len(turns) + 1
    BY <1>0, <1>2, <1>5, <2>1, <2>3
  <2>4. n \in 1 .. Len(turns) \/ n = Len(turns) + 1
    <3>1. Len(turns) \in Nat /\ n \in 1 .. Len(turns) + 1
      BY <1>2
    <3>2. \A x \in Nat : \A y \in 1 .. x + 1 : y \in 1 .. x \/ y = x + 1
      OBVIOUS
    <3> QED
      BY <3>1, <3>2, Zenon
  <2> QED
    BY <2>2, <2>3, <2>4, Zenon
<1>8. \A j \in Lines(v) : Own(v, j) # {} => \E n \in 1 .. Len(more) : more[n].line = j
  <2> SUFFICES ASSUME NEW j \in Lines(w), Own(v, j) # {} PROVE \E n \in 1 .. Len(more) : more[n].line = j
    BY <1>1
  <2>1. CASE j = i
    BY <1>0, <1>2, <2>1
  <2>2. CASE j # i
    <3>1. Own(w, j) # {} /\ ~UnderWay(w, d, j)
      <4>1. j < i
        BY <1>1, <2>2, LinesAre
      <4> QED
        BY <1>1, <1>3, <2>2, <4>1, LinesAre DEF UnderWay
    <3>2. PICK n \in 1 .. Len(turns) : turns[n].line = j
      BY <3>1 DEF TurnsOf
    <3> QED
      BY <1>2, <3>2
  <2> QED
    BY <2>1, <2>2
<1>9. \A j : ~UnderWay(v, b, j)
  BY DEF UnderWay
<1> QED
  BY <1>6, <1>7, <1>8, <1>9, Zenon DEF TurnsOf

\* An answer with calls, or one that is not the last: the turn goes on.
LEMMA TurnGoesOn ==
  ASSUME NEW w \in Seq(Records), NEW v, NEW e, Grown(w, v, e), Follows(v), NEW turns,
         TurnsOf(w, "turn", turns), NEW i, RepliesTo(w, "turn", i, e)
  PROVE  TurnsOf(v, "turn", turns)
<1>1. /\ Current(w, "turn", turns, i) /\ Own(v, i) = Own(w, i) \cup {Len(w) + 1}
      /\ \A j \in Lines(w) : j # i => Own(v, j) = Own(w, j) /\ ~Answers(w, j, e)
      /\ Lines(v) = Lines(w) /\ i \in 1 .. Len(w) /\ Len(w) \in Nat /\ \A j \in Lines(w) : j <= i
  BY RepliesAnswer
<1>2. /\ \A k \in 1 .. Len(w) : v[k] = w[k]
      /\ v[Len(w) + 1] = e /\ Len(v) = Len(w) + 1
  BY GrownLinesAre
<1>3. \A j : UnderWay(v, "turn", j) <=> UnderWay(w, "turn", j)
  BY <1>1 DEF UnderWay
<1>4. ASSUME NEW n \in 1 .. Len(turns) PROVE ReadBack(v, turns[n]) /\ turns[n].line < i
  <2>1. ReadBack(w, turns[n]) /\ turns[n].line < i
    BY <1>1 DEF TurnsOf, Current
  <2>2. turns[n].line \in Lines(w) /\ turns[n].line # i
    <3>1. turns[n].line \in Lines(w)
      BY <2>1 DEF ReadBack
    <3>2. turns[n].line \in Nat /\ i \in Nat
      BY <1>1, <3>1, LinesAre
    <3> QED
      BY <2>1, <3>1, <3>2
  <2>3. ~Answers(w, turns[n].line, e)
    BY <1>1, <2>2
  <2> QED
    BY <2>1, <2>3, ReadBackStays
<1>5. i \in Lines(w) /\ UnderWay(w, "turn", i) /\ ~ClosesTurn(e) /\ e.kind = "model_response"
        /\ e.of \in 1 .. Len(w) /\ w[e.of].what = "turn"
  BY DEF RepliesTo
<1>6. Current(v, "turn", turns, i)
  <2>1. IsOpen(v, i)
    BY <1>1, <1>5, GrownInside DEF Current
  <2>2. v[i].what = "turn" /\ \A n \in 1 .. Len(turns) : turns[n].line < i
    BY <1>1, <1>2 DEF Current
  <2>3. ASSUME NEW k \in Own(w, i) PROVE v[v[k].of].what = "turn"
    <3>1. k \in 1 .. Len(w) /\ w[k].kind = "model_response" /\ w[w[k].of].what = "turn"
      BY <1>1 DEF Own, Inside, Current
    <3>2. v[k] = w[k] /\ k \in 1 .. Len(v)
      BY <1>1, <1>2, <3>1
    <3>3. v[k].of \in 1 .. k - 1
      BY <3>1, <3>2 DEF Follows
    <3>4. v[k].of \in 1 .. Len(w)
      BY <1>1, <3>1, <3>3
    <3> QED
      BY <1>2, <3>1, <3>2, <3>4
  <2>4. v[v[Len(w) + 1].of].what = "turn"
    BY <1>2, <1>5
  <2> QED
    BY <1>1, <2>1, <2>2, <2>3, <2>4 DEF Current
<1>7. ASSUME NEW j \in Lines(w), UnderWay(w, "turn", j) PROVE j = i
  <2>1. j <= i /\ i <= j
    BY <1>1, <1>5, <1>7 DEF UnderWay
  <2> QED
    BY <1>1, <2>1, LinesAre
<1>8. \A j \in Lines(v) : UnderWay(v, "turn", j) => Current(v, "turn", turns, j)
  BY <1>1, <1>3, <1>6, <1>7
<1>9. \A j \in Lines(v) : Own(v, j) # {} => (\E n \in 1 .. Len(turns) : turns[n].line = j) \/ UnderWay(v, "turn", j)
  <2> SUFFICES ASSUME NEW j \in Lines(w), Own(v, j) # {}
               PROVE  (\E n \in 1 .. Len(turns) : turns[n].line = j) \/ UnderWay(w, "turn", j)
    BY <1>1, <1>3
  <2>1. CASE j = i
    BY <1>5, <2>1
  <2>2. CASE j # i
    BY <1>1, <2>2 DEF TurnsOf
  <2> QED
    BY <2>1, <2>2
<1> QED
  BY <1>4, <1>8, <1>9 DEF TurnsOf

\* A turn that never was answered is over.
LEMMA TurnGivenUp ==
  ASSUME NEW w \in Seq(Records), NEW v, NEW e, Grown(w, v, e), Follows(v), NEW d, NEW b, b \notin Assembled, NEW turns,
         TurnsOf(w, d, turns), e.kind = "model_response", e.status # "ok",
         \A i \in Lines(w) : UnderWay(w, d, i) => Own(w, i) = {}
  PROVE  TurnsOf(v, b, turns)
<1>1. \A i : ~Answers(w, i, e)
  BY DEF Answers
<1>2. Lines(v) = Lines(w) /\ Lines(w) \subseteq 1 .. Len(w)
  BY GrownLinesAre
<1>3. ASSUME NEW i \in Lines(w) PROVE Own(v, i) = Own(w, i)
  BY <1>1, <1>2, OwnStays
<1>4. \A n \in 1 .. Len(turns) : ReadBack(v, turns[n])
  BY <1>1, ReadBackStays DEF TurnsOf
<1>5. \A j : ~UnderWay(v, b, j)
  BY DEF UnderWay
<1>6. \A i \in Lines(v) : Own(v, i) # {} => \E n \in 1 .. Len(turns) : turns[n].line = i
  BY <1>2, <1>3 DEF TurnsOf
<1> QED
  BY <1>4, <1>5, <1>6 DEF TurnsOf

-----------------------------------------------------------------------------
(* Every step keeps the turns.                                             *)

\* Who waits for what: a request of the conversation waits for its answer only in the
\* turn it belongs to, where no call and no analysis is under way.
Awaiting(w, d, a, cl, c) ==
  /\ a # 0 => /\ a \in 1 .. Len(w) /\ w[a].kind = "model_request" /\ \A i \in Lines(w) : i < a
              /\ d \notin {"prompt", "over", "ended"}
              /\ w[a].what \in Assembled => d = w[a].what /\ cl = 0 /\ c = 0
  /\ cl # 0 => d \in {"turn", "plan", "shell", "pipeline", "draft", "inject"}
  /\ c # 0 => d \in {"turn", "read"}

LentIsRead == lent => doing \in {"read", "prompt"}

TalkInv ==
  /\ Follows(log)
  /\ Awaiting(log, doing, asked, call, chunk)
  /\ LentIsRead
  /\ TurnsOf(log, doing, answered)

LEMMA AwaitingStill ==
  ASSUME NEW w \in Seq(Records), NEW v, NEW e, Grown(w, v, e), e.kind # "user_input",
         NEW d, NEW a, NEW cl, NEW c, Awaiting(w, d, a, cl, c)
  PROVE  Awaiting(v, d, a, cl, c)
<1>1. Lines(v) = Lines(w) /\ Len(w) \in Nat /\ Len(v) = Len(w) + 1 /\ \A i \in 1 .. Len(w) : v[i] = w[i]
  BY GrownLinesAre
<1>2. a \in 1 .. Len(w) => a \in 1 .. Len(v) /\ v[a] = w[a]
  BY <1>1
<1> QED
  BY <1>1, <1>2 DEF Awaiting

LEMMA AwaitingNow ==
  ASSUME NEW w \in Seq(Records), NEW v, NEW e, Grown(w, v, e), e.kind = "model_request", NEW d, NEW cl, NEW c,
         d \notin {"prompt", "over", "ended"}, e.what \in Assembled => d = e.what /\ cl = 0 /\ c = 0,
         cl # 0 => d \in {"turn", "plan", "shell", "pipeline", "draft", "inject"}, c # 0 => d \in {"turn", "read"}
  PROVE  Awaiting(v, d, Len(w) + 1, cl, c)
<1>1. /\ Lines(v) = Lines(w) /\ Lines(w) \subseteq 1 .. Len(w) /\ Len(w) \in Nat /\ Len(v) = Len(w) + 1
      /\ v[Len(w) + 1] = e
  BY GrownLinesAre
<1>2. Len(w) + 1 \in 1 .. Len(v) /\ \A i \in Lines(v) : i < Len(w) + 1
  BY <1>1
<1> QED
  BY <1>1, <1>2 DEF Awaiting

LEMMA FollowsStill ==
  ASSUME NEW w \in Seq(Records), NEW v, NEW e, Grown(w, v, e), Follows(w), e.kind = "model_response" => e.of \in 1 .. Len(w)
  PROVE  Follows(v)
<1>1. Len(w) \in Nat /\ Len(v) = Len(w) + 1 /\ v[Len(w) + 1] = e /\ \A i \in 1 .. Len(w) : v[i] = w[i]
  BY GrownLinesAre
<1> SUFFICES ASSUME NEW k \in 1 .. Len(w) + 1, v[k].kind = "model_response" PROVE v[k].of \in 1 .. k - 1
  BY <1>1 DEF Follows
<1>2. CASE k \in 1 .. Len(w)
  BY <1>1, <1>2 DEF Follows
<1>3. CASE k = Len(w) + 1
  BY <1>1, <1>3
<1> QED
  BY <1>1, <1>2, <1>3

LEMMA WrittenIs ==
  ASSUME ReadersInv, NEW e \in Records, Write(e)
  PROVE  log \in Seq(Records) /\ Len(log) \in Nat /\ Grown(log, log', e)
<1>1. log \in Seq(Records) /\ Len(log) \in Nat
  BY Reached
<1>2. log' = Append(log, e)
  BY DEF Write
<1> QED
  BY <1>1, <1>2, Grows1, Zenon

\* A step that writes neither a line nor an answer.
LEMMA TalkBeside ==
  ASSUME ReadersInv, TalkInv, NEW e \in Records, Write(e), e.kind \notin {"user_input", "model_response"},
         UNCHANGED answered, doing' = doing \/ (doing \notin Assembled /\ doing' \notin Assembled),
         doing \in Assembled => ~ClosesTurn(e), Awaiting(log', doing', asked', call', chunk'), LentIsRead'
  PROVE  TalkInv'
<1>1. log \in Seq(Records) /\ Grown(log, log', e)
  BY WrittenIs
<1>2. Follows(log')
  BY <1>1, FollowsStill DEF TalkInv
<1>3. \A i \in Lines(log) : ~Answers(log, i, e)
  BY DEF Answers
<1>4. TurnsOf(log', doing', answered)
  <2>1. PICK b : b = doing'
    OBVIOUS
  <2>2. TurnsOf(log, doing, answered) /\ e.kind # "user_input" /\ (doing = b \/ (doing \notin Assembled /\ b \notin Assembled))
    BY <2>1 DEF TalkInv
  <2>3. TurnsOf(log', b, answered)
    BY <1>1, <1>2, <1>3, <2>2, TurnsBeside
  <2> QED
    BY <2>1, <2>3
<1>5. TurnsOf(log', doing', answered')
  BY <1>4
<1> QED
  BY <1>2, <1>5 DEF TalkInv

\* A step that writes nothing.
LEMMA TalkQuiet ==
  ASSUME ReadersInv, TalkInv, UNCHANGED <<log, answered>>, doing' = doing \/ (doing \notin Assembled /\ doing' \notin Assembled),
         Awaiting(log', doing', asked', call', chunk'), LentIsRead'
  PROVE  TalkInv'
<1>1. PICK b : b = doing'
  OBVIOUS
<1>2. TurnsOf(log, doing, answered) /\ (doing = b \/ (doing \notin Assembled /\ b \notin Assembled))
  BY <1>1 DEF TalkInv
<1>3. TurnsOf(log, b, answered)
  <2>1. CASE doing = b
    BY <1>2, <2>1
  <2>2. CASE doing \notin Assembled /\ b \notin Assembled
    <3>1. \A i : UnderWay(log, b, i) <=> UnderWay(log, doing, i)
      BY <2>2 DEF UnderWay
    <3>2. \A i : ~UnderWay(log, b, i)
      BY <2>2 DEF UnderWay
    <3> QED
      BY <1>2, <3>1, <3>2, Zenon DEF TurnsOf
  <2> QED
    BY <1>2, <2>1, <2>2
<1>4. TurnsOf(log', doing', answered') /\ Follows(log')
  BY <1>1, <1>3 DEF TalkInv
<1> QED
  BY <1>4 DEF TalkInv

\* Nothing is awaited when the author is at the prompt.
LEMMA AtPromptIs ==
  ASSUME TalkInv, AtPrompt
  PROVE  asked = 0 /\ call = 0 /\ chunk = 0 /\ lent = FALSE /\ doing \in {"prompt", "over"} /\ doing \notin Assembled
<1>1. doing \in {"prompt", "over"} /\ ~lent /\ Awaiting(log, doing, asked, call, chunk)
  BY DEF AtPrompt, TalkInv
<1>2. doing \notin Assembled
  BY <1>1 DEF Assembled
<1>3. lent = FALSE
  BY <1>1
<1>4. asked = 0 /\ call = 0 /\ chunk = 0
  BY <1>1 DEF Awaiting
<1> QED
  BY <1>1, <1>2, <1>3, <1>4

LEMMA ChatLineTalk == ASSUME ReadersInv, TalkInv, NEW to \in Assembled, ChatLine(to) PROVE TalkInv'
<1>1. to \in Whats /\ "user_input" \in Kinds /\ "" \in Origins /\ 0 \in Nat /\ "" \in Statuses
  BY DEF Assembled, Whats, Kinds, Origins, Statuses
<1>2. PICK e : e = Event("user_input", to, "", 0, "")
  OBVIOUS
<1>3. e \in Records /\ e.kind = "user_input" /\ e.what = to
  BY <1>1, <1>2 DEF Event, Records
<1>4. AtPrompt /\ Write(e) /\ doing' = to /\ UNCHANGED <<asked, call, chunk, lent, answered>>
  BY <1>2, Zenon DEF ChatLine
<1>5. log \in Seq(Records) /\ Grown(log, log', e)
  BY <1>3, <1>4, WrittenIs
<1>6. Follows(log')
  BY <1>3, <1>5, FollowsStill DEF TalkInv
<1>7. asked = 0 /\ call = 0 /\ chunk = 0 /\ lent = FALSE /\ doing \notin Assembled
  BY <1>4, AtPromptIs
<1>8. TurnsOf(log', to, answered)
  <2>1. TurnsOf(log', e.what, answered)
    BY <1>3, <1>5, <1>6, <1>7, TurnsWithLine DEF TalkInv
  <2> QED
    BY <1>3, <2>1
<1>9. TurnsOf(log', doing', answered')
  BY <1>4, <1>8
<1>10. Awaiting(log', doing', asked', call', chunk') /\ LentIsRead'
  BY <1>4, <1>7 DEF Awaiting, LentIsRead
<1> QED
  BY <1>6, <1>9, <1>10 DEF TalkInv

LEMMA LoadSkillTalk == ASSUME ReadersInv, TalkInv, NEW origin \in {"user", "auto"}, LoadSkill(origin) PROVE TalkInv'
<1>1. "skill" \in Whats /\ origin \in Origins /\ "injection" \in Kinds /\ 0 \in Nat /\ "" \in Statuses
  BY DEF Whats, Kinds, Origins, Statuses
<1>2. PICK e : e = Event("injection", "skill", origin, 0, "")
  OBVIOUS
<1>3. e \in Records /\ e.kind = "injection" /\ e.what = "skill" /\ e.origin = origin
  BY <1>1, <1>2 DEF Event, Records
<1>4. Write(e) /\ UNCHANGED <<doing, asked, call, chunk, lent, answered>>
        /\ (origin = "user" => AtPrompt)
  BY <1>2, Zenon DEF LoadSkill
<1>5. log \in Seq(Records) /\ Grown(log, log', e)
  BY <1>3, <1>4, WrittenIs
<1>6. doing \in Assembled => ~ClosesTurn(e)
  <2>1. origin = "user" => doing \notin Assembled
    BY <1>4, AtPromptIs
  <2> QED
    BY <1>3, <2>1 DEF ClosesTurn
<1>7. Awaiting(log', doing, asked, call, chunk)
  BY <1>3, <1>5, AwaitingStill DEF TalkInv
<1>8. Awaiting(log', doing', asked', call', chunk') /\ LentIsRead'
  BY <1>4, <1>7 DEF TalkInv, LentIsRead
<1> QED
  BY <1>3, <1>4, <1>6, <1>8, TalkBeside

LEMMA AskModelTalk ==
  ASSUME ReadersInv, TalkInv, NEW what \in Assembled \cup {"summary", "plan", "draft", "pipeline"}, AskModel(what)
  PROVE  TalkInv'
<1>1. what \in Whats /\ "" \in Origins /\ "model_request" \in Kinds /\ 0 \in Nat /\ "" \in Statuses
  BY DEF Whats, Kinds, Origins, Statuses, Assembled
<1>2. PICK e : e = Event("model_request", what, "", 0, "")
  OBVIOUS
<1>3. e \in Records /\ e.kind = "model_request" /\ e.what = what
  BY <1>1, <1>2 DEF Event, Records
<1>4. Free /\ Write(e) /\ asked' = Len(log) + 1 /\ UNCHANGED <<doing, call, chunk, lent, answered>>
  BY <1>2, Zenon DEF AskModel, Here
<1>5. log \in Seq(Records) /\ Grown(log, log', e)
  BY <1>3, <1>4, WrittenIs
<1>6. ~ClosesTurn(e)
  BY <1>3 DEF ClosesTurn
<1>7. doing \in Assembled \cup {"summary", "plan", "draft", "pipeline"} /\ (what \in Assembled => doing = what /\ call = 0)
  <2>1. CASE what \in Assembled
    <3>1. what # "summary" /\ what # "plan" /\ what \notin {"draft", "pipeline"}
      BY <2>1 DEF Assembled
    <3>2. doing = what /\ call = 0
      BY <2>1, <3>1 DEF AskModel
    <3> QED
      BY <3>2
  <2>2. CASE what = "summary"
    <3>1. what \notin Assembled
      BY <2>2 DEF Assembled
    <3>2. doing = "turn"
      BY <2>2 DEF AskModel, Assembled
    <3> QED
      BY <3>1, <3>2 DEF Assembled
  <2>3. CASE what = "plan"
    <3>1. what \notin Assembled
      BY <2>3 DEF Assembled
    <3>2. doing = "plan"
      BY <2>3 DEF AskModel, Assembled
    <3> QED
      BY <3>1, <3>2
  <2>4. CASE what \in {"draft", "pipeline"}
    <3>1. what \notin Assembled
      BY <2>4 DEF Assembled
    <3>2. doing = what
      BY <2>4 DEF AskModel, Assembled
    <3> QED
      BY <3>1, <3>2
  <2> QED
    BY <2>1, <2>2, <2>3, <2>4
<1>8. doing \notin {"prompt", "over", "ended"} /\ chunk = 0
  BY <1>4, <1>7 DEF Assembled, Free
<1>9. call # 0 => doing \in {"turn", "plan", "shell", "pipeline", "draft", "inject"}
  BY DEF TalkInv, Awaiting
<1>10. Awaiting(log', doing, Len(log) + 1, call, chunk)
  BY <1>3, <1>5, <1>7, <1>8, <1>9, AwaitingNow
<1>11. Awaiting(log', doing', asked', call', chunk') /\ LentIsRead'
  BY <1>4, <1>10 DEF TalkInv, LentIsRead
<1> QED
  BY <1>3, <1>4, <1>6, <1>11, TalkBeside

LEMMA AskChunkTalk == ASSUME ReadersInv, TalkInv, AskChunk PROVE TalkInv'
<1>0. PICK what : what = IF chunk <= Chunks THEN "chunk" ELSE "synthesis"
  OBVIOUS
<1>1. /\ what \in Whats /\ what \notin Assembled /\ "" \in Origins /\ "model_request" \in Kinds
      /\ chunk \in Nat /\ "" \in Statuses
  BY <1>0, Reached DEF Whats, Kinds, Origins, Statuses, Assembled
<1>2. PICK e : e = Event("model_request", what, "", chunk, "")
  OBVIOUS
<1>3. e \in Records /\ e.kind = "model_request" /\ e.what = what
  BY <1>1, <1>2 DEF Event, Records
<1>4. chunk > 0 /\ Write(e) /\ asked' = Len(log) + 1 /\ UNCHANGED <<doing, call, chunk, lent, answered>>
  BY <1>0, <1>2, Zenon DEF AskChunk, Here
<1>5. log \in Seq(Records) /\ Grown(log, log', e)
  BY <1>3, <1>4, WrittenIs
<1>6. ~ClosesTurn(e)
  BY <1>3 DEF ClosesTurn
<1>7. chunk # 0 /\ doing \in {"turn", "read"}
  <2>1. chunk # 0
    BY <1>4
  <2> QED
    BY <2>1 DEF TalkInv, Awaiting
<1>8. call # 0 => doing \in {"turn", "plan", "shell", "pipeline", "draft", "inject"}
  BY DEF TalkInv, Awaiting
<1>9. Awaiting(log', doing, Len(log) + 1, call, chunk)
  BY <1>1, <1>3, <1>5, <1>7, <1>8, AwaitingNow
<1>10. Awaiting(log', doing', asked', call', chunk') /\ LentIsRead'
  BY <1>4, <1>9 DEF TalkInv, LentIsRead
<1> QED
  BY <1>3, <1>4, <1>6, <1>10, TalkBeside

LEMMA StartPlanTalk == ASSUME ReadersInv, TalkInv, StartPlan PROVE TalkInv'
<1>1. "plan" \in Whats /\ "plan" \notin Assembled /\ "" \in Origins /\ "model_request" \in Kinds /\ 0 \in Nat /\ "" \in Statuses
  BY DEF Whats, Kinds, Origins, Statuses, Assembled
<1>2. PICK e : e = Event("model_request", "plan", "", 0, "")
  OBVIOUS
<1>3. e \in Records /\ e.kind = "model_request" /\ e.what = "plan"
  BY <1>1, <1>2 DEF Event, Records
<1>4. AtPrompt /\ Write(e) /\ asked' = Len(log) + 1 /\ doing' = "plan" /\ UNCHANGED <<call, chunk, lent, answered>>
  BY <1>2, Zenon DEF StartPlan, Here
<1>5. log \in Seq(Records) /\ Grown(log, log', e)
  BY <1>3, <1>4, WrittenIs
<1>6. ~ClosesTurn(e)
  BY <1>3 DEF ClosesTurn
<1>7. call = 0 /\ chunk = 0 /\ lent = FALSE /\ doing \notin Assembled
  BY <1>4, AtPromptIs
<1>8. Awaiting(log', "plan", Len(log) + 1, 0, 0)
  BY <1>1, <1>3, <1>5, AwaitingNow
<1>9. Awaiting(log', doing', asked', call', chunk') /\ LentIsRead'
  BY <1>4, <1>7, <1>8 DEF LentIsRead
<1> QED
  BY <1>1, <1>3, <1>4, <1>6, <1>7, <1>9, TalkBeside

\* A call is made, or returns, or something is noted; no request is.
LEMMA TalkNotes ==
  ASSUME ReadersInv, TalkInv, NEW e \in Records, Write(e), e.kind \notin {"user_input", "model_response"},
         UNCHANGED <<answered, asked, chunk>>, lent' = lent \/ lent' = FALSE, lent' => doing' = doing,
         doing' = doing \/ (asked = 0 /\ chunk = 0 /\ doing \notin Assembled /\ doing' \notin Assembled),
         doing \in Assembled => ~ClosesTurn(e),
         asked = 0 \/ call' = call, call' = 0 \/ doing' \in {"turn", "plan", "shell", "pipeline", "draft", "inject"}
  PROVE  TalkInv'
<1>1. log \in Seq(Records) /\ Grown(log, log', e)
  BY WrittenIs
<1>2. Awaiting(log', doing, asked, call, chunk)
  BY <1>1, AwaitingStill DEF TalkInv
<1>3. Awaiting(log', doing', asked', call', chunk')
  <2>1. asked' = asked /\ chunk' = chunk
    OBVIOUS
  <2>2. CASE asked = 0
    <3>1. chunk # 0 => doing' \in {"turn", "read"}
      BY <1>2 DEF Awaiting
    <3> QED
      BY <2>1, <2>2, <3>1 DEF Awaiting
  <2>3. CASE asked # 0
    <3>1. call' = call /\ doing' = doing
      BY <2>3
    <3> QED
      BY <1>2, <2>1, <3>1
  <2> QED
    BY <2>2, <2>3
<1>4. LentIsRead'
  BY DEF TalkInv, LentIsRead
<1>5. doing' = doing \/ (doing \notin Assembled /\ doing' \notin Assembled)
  OBVIOUS
<1> QED
  BY <1>3, <1>4, <1>5, TalkBeside

LEMMA CallToolTalk == ASSUME ReadersInv, TalkInv, CallTool PROVE TalkInv'
<1>1. "tool" \in Whats /\ "model" \in Origins /\ "tool_call" \in Kinds /\ 0 \in Nat
  BY DEF Whats, Kinds, Origins
<1>2. doing \in {"turn", "plan"} /\ asked = 0 /\ UNCHANGED <<doing, asked, chunk, lent, answered>>
  BY DEF CallTool, Free
<1>3. doing \in Statuses
  BY <1>2 DEF Statuses
<1>4. PICK e : e = Event("tool_call", "tool", "model", 0, doing)
  OBVIOUS
<1>5. e \in Records /\ e.kind = "tool_call" /\ e.origin = "model"
  BY <1>1, <1>3, <1>4 DEF Event, Records
<1>6. Write(e)
  BY <1>4, Zenon DEF CallTool
<1>7. ~ClosesTurn(e)
  BY <1>5 DEF ClosesTurn
<1>8. doing' = doing /\ doing' \in {"turn", "plan", "shell", "pipeline", "draft", "inject"} /\ lent' = lent
  BY <1>2
<1>9. e.kind \notin {"user_input", "model_response"} /\ UNCHANGED <<answered, asked, chunk>>
  BY <1>2, <1>5
<1> QED
  BY <1>2, <1>5, <1>6, <1>7, <1>8, <1>9, TalkNotes

LEMMA AuthorsCallTalk ==
  ASSUME ReadersInv, TalkInv, NEW kind \in {"tool_call", "kb_call"}, NEW what \in {"shell", "pipeline", "draft", "inject"},
         AuthorsCall(kind, what)
  PROVE  TalkInv'
<1>1. what \in Whats /\ "user" \in Origins /\ kind \in Kinds /\ 0 \in Nat /\ "" \in Statuses
  BY DEF Whats, Kinds, Origins, Statuses
<1>2. PICK e : e = Event(kind, what, "user", 0, "")
  OBVIOUS
<1>3. e \in Records /\ e.kind = kind
  BY <1>1, <1>2 DEF Event, Records
<1>4. AtPrompt /\ Write(e) /\ doing' = what /\ UNCHANGED <<asked, chunk, lent, answered>>
  BY <1>2, Zenon DEF AuthorsCall
<1>5. asked = 0 /\ chunk = 0 /\ lent = FALSE /\ doing \notin Assembled
  BY <1>4, AtPromptIs
<1>6. what \notin Assembled /\ what \in {"turn", "plan", "shell", "pipeline", "draft", "inject"}
  BY DEF Assembled
<1>7. e.kind \notin {"user_input", "model_response"} /\ ~lent' /\ lent' = lent
  BY <1>3, <1>4, <1>5
<1> QED
  BY <1>3, <1>4, <1>5, <1>6, <1>7, TalkNotes

LEMMA ReturnsTalk == ASSUME ReadersInv, TalkInv, NEW status \in {"ok", "failed"}, Returns(status) PROVE TalkInv'
<1>0. PICK kind : kind = IF log[call].kind = "kb_call" THEN "kb_result" ELSE "tool_result"
  OBVIOUS
<1>1. "" \in Whats /\ "" \in Origins /\ kind \in Kinds /\ call \in Nat /\ status \in Statuses
  BY <1>0, Reached DEF Whats, Kinds, Origins, Statuses
<1>2. PICK e : e = Event(kind, "", "", call, status)
  OBVIOUS
<1>3. e \in Records /\ e.kind = kind
  BY <1>1, <1>2 DEF Event, Records
<1>4. Free /\ call # 0 /\ Write(e) /\ call' = 0 /\ UNCHANGED <<asked, chunk, lent, answered>>
  BY <1>0, <1>2, Zenon DEF Returns
<1>5. doing' = IF doing \in {"turn", "plan"} THEN doing ELSE "prompt"
  BY DEF Returns
<1>6. asked = 0 /\ chunk = 0 /\ ~lent /\ e.kind \in {"kb_result", "tool_result"}
  BY <1>0, <1>3, <1>4 DEF Free
<1>7. doing \in {"turn", "plan", "shell", "pipeline", "draft", "inject"}
  BY <1>4 DEF TalkInv, Awaiting
<1>8. doing' = doing \/ (doing \notin Assembled /\ doing' \notin Assembled)
  BY <1>5, <1>7 DEF Assembled
<1>9. ~ClosesTurn(e) /\ e.kind \notin {"user_input", "model_response"}
  BY <1>6 DEF ClosesTurn
<1>10. lent' = lent /\ ~lent'
  BY <1>4, <1>6
<1> QED
  BY <1>3, <1>4, <1>6, <1>8, <1>9, <1>10, TalkNotes

\* What is noted at the prompt.
LEMMA NotedAtPrompt ==
  ASSUME ReadersInv, TalkInv, AtPrompt, NEW kind \in {"injection", "permission", "model_switch", "session_end"},
         NEW what \in Whats, NEW origin \in Origins, Write(Event(kind, what, origin, 0, "")),
         UNCHANGED <<asked, call, chunk, lent, answered>>, doing' \in {doing, "ended"}
  PROVE  TalkInv'
<1>1. kind \in Kinds /\ 0 \in Nat /\ "" \in Statuses
  BY DEF Kinds, Statuses
<1>2. PICK e : e = Event(kind, what, origin, 0, "")
  OBVIOUS
<1>3. e \in Records /\ e.kind = kind
  BY <1>1, <1>2 DEF Event, Records
<1>4. Write(e)
  BY <1>2, Zenon
<1>5. asked = 0 /\ call = 0 /\ chunk = 0 /\ lent = FALSE /\ doing \notin Assembled
  BY AtPromptIs
<1>6. doing' \notin Assembled
  BY <1>5 DEF Assembled
<1>7. e.kind \notin {"user_input", "model_response"} /\ call' = 0 /\ lent' = lent /\ ~lent' /\ UNCHANGED <<answered, asked, chunk>>
  BY <1>3, <1>5
<1> QED
  BY <1>3, <1>4, <1>5, <1>6, <1>7, TalkNotes

LEMMA InjectOutputTalk == ASSUME ReadersInv, TalkInv, InjectOutput PROVE TalkInv'
<1>0. PICK what : what = log[Last(log).of].what
  OBVIOUS
<1>1. what \in Whats /\ "user" \in Origins
  BY <1>0 DEF InjectOutput, Whats, Origins
<1>2. AtPrompt /\ Write(Event("injection", what, "user", 0, "")) /\ UNCHANGED <<doing, asked, call, chunk, lent, answered>>
  BY <1>0, Zenon DEF InjectOutput
<1>3. UNCHANGED <<asked, call, chunk, lent, answered>> /\ doing' \in {doing, "ended"}
  BY <1>2
<1> QED
  BY <1>1, <1>2, <1>3, NotedAtPrompt

LEMMA AnswerOfferTalk == ASSUME ReadersInv, TalkInv, AnswerOffer PROVE TalkInv'
<1>1. "write" \in Whats /\ "" \in Origins
  BY DEF Whats, Origins
<1>2. Write(Event("permission", "write", "", 0, "")) /\ UNCHANGED <<doing, asked, call, chunk, lent, answered>> /\ doing = "over"
  BY DEF AnswerOffer
<1>3. AtPrompt
  BY <1>2 DEF AtPrompt, TalkInv, LentIsRead
<1>4. UNCHANGED <<asked, call, chunk, lent, answered>> /\ doing' \in {doing, "ended"}
  BY <1>2
<1> QED
  BY <1>1, <1>2, <1>3, <1>4, NotedAtPrompt

LEMMA SwitchModelTalk == ASSUME ReadersInv, TalkInv, SwitchModel PROVE TalkInv'
<1>1. "" \in Whats /\ "" \in Origins
  BY DEF Whats, Origins
<1>2. AtPrompt /\ Write(Event("model_switch", "", "", 0, "")) /\ UNCHANGED <<doing, asked, call, chunk, lent, answered>>
  BY DEF SwitchModel
<1>3. UNCHANGED <<asked, call, chunk, lent, answered>> /\ doing' \in {doing, "ended"}
  BY <1>2
<1> QED
  BY <1>1, <1>2, <1>3, NotedAtPrompt

LEMMA EndSessionTalk == ASSUME ReadersInv, TalkInv, EndSession PROVE TalkInv'
<1>1. "" \in Whats /\ "" \in Origins
  BY DEF Whats, Origins
<1>2. /\ AtPrompt /\ Write(Event("session_end", "", "", 0, "")) /\ doing' \in {doing, "ended"}
      /\ UNCHANGED <<asked, call, chunk, lent, answered>>
  BY DEF EndSession
<1> QED
  BY <1>1, <1>2, NotedAtPrompt

LEMMA GiveModelBackTalk == ASSUME ReadersInv, TalkInv, GiveModelBack PROVE TalkInv'
<1>1. "" \in Whats /\ "" \in Origins /\ "model_switch" \in Kinds /\ 0 \in Nat /\ "" \in Statuses
  BY DEF Whats, Kinds, Origins, Statuses
<1>2. PICK e : e = Event("model_switch", "", "", 0, "")
  OBVIOUS
<1>3. e \in Records /\ e.kind = "model_switch"
  BY <1>1, <1>2 DEF Event, Records
<1>4. lent /\ Write(e) /\ lent' = FALSE /\ UNCHANGED <<doing, asked, call, chunk, answered>>
  BY <1>2, Zenon DEF GiveModelBack
<1>5. doing \notin Assembled
  BY <1>4 DEF TalkInv, LentIsRead, Assembled
<1>6. call' = call /\ (call' = 0 \/ doing' \in {"turn", "plan", "shell", "pipeline", "draft", "inject"})
  BY <1>4 DEF TalkInv, Awaiting
<1>7. e.kind \notin {"user_input", "model_response"} /\ doing' = doing /\ ~lent' /\ UNCHANGED <<answered, asked, chunk>>
  BY <1>3, <1>4
<1> QED
  BY <1>3, <1>4, <1>5, <1>6, <1>7, TalkNotes

LEMMA EndPlanTalk == ASSUME ReadersInv, TalkInv, EndPlan PROVE TalkInv'
<1>1. doing = "plan" /\ asked = 0 /\ chunk = 0 /\ call = 0 /\ doing' = "prompt" /\ UNCHANGED <<log, asked, call, chunk, lent, answered>>
  BY DEF EndPlan, Free
<1>2. doing \notin Assembled /\ doing' \notin Assembled
  BY <1>1 DEF Assembled
<1>3. Awaiting(log', doing', asked', call', chunk') /\ LentIsRead'
  BY <1>1 DEF Awaiting, LentIsRead
<1> QED
  BY <1>1, <1>2, <1>3, TalkQuiet

LEMMA StartAnalysisTalk ==
  ASSUME ReadersInv, TalkInv, "lent" \notin Features, NEW lend \in BOOLEAN, StartAnalysis(lend) PROVE TalkInv'
<1>1. /\ asked = 0 /\ lent = FALSE /\ chunk' = 1 /\ lent' = lend /\ UNCHANGED <<asked, call, answered>>
      /\ doing = "turn" /\ lend => FALSE
  BY Reached DEF StartAnalysis, Free
<1>2. doing = "turn" \/ AtPrompt
  BY DEF StartAnalysis
<1>3. CASE doing = "turn"
  <2>1. doing' = doing /\ log' = log /\ lent' = FALSE
    BY <1>1, <1>3 DEF StartAnalysis
  <2>2. Awaiting(log', doing', asked', call', chunk') /\ LentIsRead'
    BY <1>1, <1>3, <2>1 DEF Awaiting, LentIsRead
  <2> QED
    BY <1>1, <2>1, <2>2, TalkQuiet
<1>4. CASE AtPrompt
  <2>1. call = 0 /\ doing \notin Assembled /\ doing \in {"prompt", "over"}
    BY <1>4, AtPromptIs
  <2>2. doing' = "read" /\ doing' \notin Assembled
    <3>1. doing' = "read"
      BY <2>1 DEF StartAnalysis
    <3> QED
      BY <3>1 DEF Assembled
  <2>3. Awaiting(log', doing', asked', call', chunk') /\ LentIsRead'
    BY <1>1, <2>1, <2>2 DEF Awaiting, LentIsRead
  <2>4. CASE lend
    <3>1. "" \in Whats /\ "" \in Origins /\ "model_switch" \in Kinds /\ 0 \in Nat /\ "" \in Statuses
      BY DEF Whats, Kinds, Origins, Statuses
    <3>2. PICK e : e = Event("model_switch", "", "", 0, "")
      OBVIOUS
    <3>3. e \in Records /\ e.kind = "model_switch"
      BY <3>1, <3>2 DEF Event, Records
    <3>4. Write(e)
      BY <2>4, <3>2, Zenon DEF StartAnalysis
    <3> QED
      BY <1>1, <2>1, <2>2, <2>3, <3>3, <3>4, TalkBeside
  <2>5. CASE ~lend
    <3>1. log' = log
      BY <2>5 DEF StartAnalysis
    <3> QED
      BY <1>1, <2>1, <2>2, <2>3, <3>1, TalkQuiet
  <2> QED
    BY <2>4, <2>5
<1> QED
  BY <1>2, <1>3, <1>4

LEMMA AnswerSideTalk == ASSUME ReadersInv, TalkInv, NEW status \in {"ok", "failed"}, AnswerSide(status) PROVE TalkInv'
<1>1. "" \in Whats /\ "" \in Origins /\ "model_response" \in Kinds /\ asked \in Nat /\ status \in Statuses
  BY Reached DEF Whats, Kinds, Origins, Statuses
<1>2. PICK e : e = Event("model_response", "", "", asked, status)
  OBVIOUS
<1>3. e \in Records /\ e.kind = "model_response" /\ e.of = asked
  BY <1>1, <1>2 DEF Event, Records
<1>4. /\ asked # 0 /\ log[asked].what \notin Assembled /\ Write(e) /\ asked' = 0
      /\ UNCHANGED <<call, lent, answered>>
  BY <1>2, Zenon DEF AnswerSide
<1>5. /\ chunk' = IF chunk \in 1 .. Chunks THEN chunk + 1 ELSE 0
      /\ doing' = IF doing = "read" /\ chunk > Chunks THEN "prompt" ELSE doing
  BY Zenon DEF AnswerSide
<1>6. log \in Seq(Records) /\ Len(log) \in Nat /\ Grown(log, log', e)
  BY <1>3, <1>4, WrittenIs
<1>7. asked \in 1 .. Len(log) /\ IsAdhoc(log[asked]) /\ \A i \in Lines(log) : i < asked
  BY <1>4 DEF TalkInv, Awaiting, IsAdhoc
<1>8. Follows(log')
  BY <1>3, <1>6, <1>7, FollowsStill DEF TalkInv
<1>9. ASSUME NEW i \in Lines(log) PROVE ~Answers(log, i, e)
  <2>1. i \in 1 .. Len(log) /\ i < asked
    BY <1>6, <1>7, LinesAre
  <2>2. IsOpen(log, i) => asked \in Inside(log, i)
    BY <1>6, <1>7, <2>1 DEF Inside, IsOpen
  <2> QED
    BY <1>3, <1>7, <2>2 DEF Answers
<1>10. doing' = doing \/ (doing \notin Assembled /\ doing' \notin Assembled)
  BY <1>5 DEF Assembled
<1>11. ~ClosesTurn(e) /\ e.kind # "user_input"
  BY <1>3 DEF ClosesTurn
<1>12. TurnsOf(log', doing', answered')
  <2>1. PICK b : b = doing'
    OBVIOUS
  <2>2. TurnsOf(log, doing, answered) /\ (doing = b \/ (doing \notin Assembled /\ b \notin Assembled))
    BY <1>10, <2>1 DEF TalkInv
  <2>3. TurnsOf(log', b, answered)
    BY <1>6, <1>8, <1>9, <1>11, <2>2, TurnsBeside
  <2> QED
    BY <1>4, <2>1, <2>3
<1>13. LentIsRead'
  BY <1>4, <1>5 DEF TalkInv, LentIsRead
<1>14. Awaiting(log', doing', asked', call', chunk')
  <2>1. /\ call # 0 => doing \in {"turn", "plan", "shell", "pipeline", "draft", "inject"}
        /\ chunk # 0 => doing \in {"turn", "read"}
    BY DEF TalkInv, Awaiting
  <2>2. call' # 0 => doing' \in {"turn", "plan", "shell", "pipeline", "draft", "inject"}
    BY <1>4, <1>5, <2>1
  <2>3. chunk \in 1 .. Chunks => chunk # 0 /\ ~(chunk > Chunks)
    BY ReadersBoundsOK
  <2>4. chunk' # 0 => chunk \in 1 .. Chunks
    BY <1>5, Zenon
  <2>5. chunk' # 0 => doing' \in {"turn", "read"}
    BY <1>5, <2>1, <2>3, <2>4
  <2> QED
    BY <1>4, <2>2, <2>5 DEF Awaiting
<1> QED
  BY <1>8, <1>12, <1>13, <1>14 DEF TalkInv

LEMMA LatestLine ==
  ASSUME NEW w \in Seq(Records), Lines(w) # {}
  PROVE  Max(Lines(w)) \in Lines(w) /\ \A j \in Lines(w) : j <= Max(Lines(w))
<1>1. PICK S : S = Lines(w)
  OBVIOUS
<1>2. Len(w) \in Nat /\ S \in SUBSET (1 .. Len(w)) /\ S # {}
  BY <1>1, LinesAre
<1>3. PICK m : m = Max(S)
  OBVIOUS
<1>4. m \in S /\ S \ {m} \in SUBSET (1 .. Len(w))
  BY <1>2, <1>3, GreatestIn
<1>5. \E u \in S : \A k \in S : u >= k
  <2> DEFINE T == {Len(w) - x : x \in S}
  <2>1. T \subseteq Nat /\ T # {}
    <3>1. \A x \in S : Len(w) - x \in Nat
      BY <1>2
    <3>2. T \subseteq Nat
      BY <3>1
    <3>3. PICK x : x \in S
      BY <1>2
    <3>4. Len(w) - x \in T
      BY <3>3
    <3> QED
      BY <3>2, <3>4
  <2>2. PICK t \in T : \A x \in T : t <= x
    <3> HIDE DEF T
    <3> QED BY <2>1, LeastOf
  <2>3. PICK u \in S : t = Len(w) - u
    OBVIOUS
  <2>4. \A k \in S : Len(w) - k \in T
    OBVIOUS
  <2>5. \A k \in S : Len(w) - u <= Len(w) - k
    BY <2>2, <2>3, <2>4
  <2> QED
    BY <1>2, <2>3, <2>5
<1>6. \A k \in S : m >= k
  <2>1. Max(S) = CHOOSE u \in S : \A k \in S : u >= k
    BY Zenon DEF Max
  <2> QED
    BY <1>3, <1>5, <2>1, Zenon
<1>7. \A k \in S : k <= m
  BY <1>2, <1>4, <1>6
<1> QED
  BY <1>1, <1>3, <1>4, <1>7

LEMMA AnswerTurnTalk ==
  ASSUME ReadersInv, TalkInv, "late" \notin Features, NEW status \in {"ok", "failed"}, NEW ends \in BOOLEAN,
         AnswerTurn(status, ends)
  PROVE  TalkInv'
<1>1. "" \in Whats /\ "" \in Origins /\ "model_response" \in Kinds /\ asked \in Nat /\ status \in Statuses
  BY Reached DEF Whats, Kinds, Origins, Statuses
<1>2. PICK e : e = Event("model_response", "", "", asked, status)
  OBVIOUS
<1>3. e \in Records /\ e.kind = "model_response" /\ e.of = asked /\ e.status = status
  BY <1>1, <1>2 DEF Event, Records
<1>4. /\ asked # 0 /\ log[asked].what \in Assembled /\ Write(e) /\ asked' = 0
      /\ UNCHANGED <<call, chunk, lent>> /\ (doing = "route" => ends)
  BY <1>2, Zenon DEF AnswerTurn
<1>5. log \in Seq(Records) /\ Len(log) \in Nat /\ Grown(log, log', e) /\ answered \in Seq(Turns)
  BY <1>3, <1>4, WrittenIs DEF ReadersInv, ReadersTypeOK
<1>6. /\ asked \in 1 .. Len(log) /\ doing = log[asked].what /\ doing \in Assembled
      /\ call = 0 /\ chunk = 0
  BY <1>4 DEF TalkInv, Awaiting
<1>7. Follows(log')
  BY <1>3, <1>5, <1>6, FollowsStill DEF TalkInv
<1>8. Lines(log) # {}
  BY <1>6 DEF ReadersInv, InTurn
<1>9. PICK i : i = Max(Lines(log))
  OBVIOUS
<1>10. i \in Lines(log) /\ \A j \in Lines(log) : j <= i
  BY <1>5, <1>8, <1>9, LatestLine
<1>11. UnderWay(log, doing, i)
  BY <1>6, <1>10 DEF UnderWay
<1>12. ~ClosesTurn(e) /\ e.kind # "user_input"
  BY <1>3 DEF ClosesTurn
<1>13. TurnsOf(log, doing, answered)
  BY DEF TalkInv
<1>14. doing' = IF ends THEN "over" ELSE doing
  BY Zenon DEF AnswerTurn
<1>15. "over" \notin Assembled
  BY DEF Assembled
<1>16. ASSUME status = "ok" PROVE TurnsOf(log', doing', answered')
  <2>1. RepliesTo(log, doing, i, e)
    BY <1>3, <1>6, <1>10, <1>11, <1>12, <1>16 DEF RepliesTo
  <2>2. CASE ends
    <3>1. PICK b : b = (doing = "route")
      OBVIOUS
    <3>2. PICK t : t = [line |-> i, reply |-> Len(log) + 1, routed |-> b]
      OBVIOUS
    <3>3. answered' = Append(answered, [line |-> Max(Lines(log)), reply |-> Len(log) + 1, routed |-> doing = "route"])
      BY <1>16, <2>2, Zenon DEF AnswerTurn, Here
    <3>4. answered' = Append(answered, t)
      BY <1>9, <3>1, <3>2, <3>3, Zenon
    <3>5. ToldNow(log, doing, i, t)
      <4>1. i \in Nat /\ Len(log) + 1 \in Nat
        BY <1>5, <1>10, LinesAre
      <4>2. b \in BOOLEAN
        BY <3>1
      <4>3. t \in Turns
        BY <3>2, <4>1, <4>2, TurnType, Zenon
      <4> QED
        BY <3>1, <3>2, <4>3, Zenon DEF ToldNow
    <3>6. TurnsOf(log', "over", answered')
      <4>1. PICK v, more : v = log' /\ more = answered'
        OBVIOUS
      <4>2. Grown(log, v, e) /\ Follows(v) /\ more = Append(answered, t)
        BY <1>5, <1>7, <3>4, <4>1
      <4>3. TurnsOf(v, "over", more)
        BY <1>5, <1>13, <1>15, <2>1, <3>5, <4>2, TurnReplied
      <4> QED
        BY <4>1, <4>3
    <3> QED
      BY <1>14, <2>2, <3>6
  <2>3. CASE ~ends
    <3>1. doing = "turn"
      BY <1>4, <1>6, <2>3 DEF Assembled
    <3>2. TurnsOf(log', "turn", answered)
      <4>1. TurnsOf(log, "turn", answered) /\ RepliesTo(log, "turn", i, e)
        BY <1>13, <2>1, <3>1
      <4> QED
        BY <1>5, <1>7, <4>1, TurnGoesOn
    <3>3. answered' = answered /\ doing' = "turn"
      <4>1. answered' = answered
        BY <2>3, Zenon DEF AnswerTurn
      <4> QED
        BY <1>14, <2>3, <3>1, <4>1
    <3> QED
      BY <3>2, <3>3
  <2> QED
    BY <2>2, <2>3
<1>17. ASSUME status = "failed" PROVE TurnsOf(log', doing', answered')
  <2>1. answered' = answered
    <3>1. status # "ok"
      BY <1>17
    <3> QED
      BY <3>1, Zenon DEF AnswerTurn
  <2>2. CASE ends
    <3>1. ~AnsweredInTurn
      BY <1>17, <2>2, Zenon DEF AnswerTurn
    <3>2. ASSUME NEW j \in Lines(log), UnderWay(log, doing, j) PROVE Own(log, j) = {}
      <4>1. j = i
        <5>1. i <= j /\ j <= i
          BY <1>10, <3>2 DEF UnderWay
        <5> QED
          BY <1>5, <1>10, <5>1, LinesAre
      <4>2. Current(log, doing, answered, i)
        BY <1>10, <1>11, <1>13 DEF TurnsOf
      <4> SUFFICES ASSUME NEW k \in Own(log, i) PROVE FALSE
        BY <4>1
      <4>3. log[log[k].of].what = "turn"
        BY <4>2 DEF Current
      <4>4. k \in i + 1 .. Len(log) /\ log[k].kind = "model_response" /\ log[k].status = "ok"
        BY DEF Own, Inside
      <4>5. k \in i .. Len(log)
        BY <1>5, <1>10, <4>4, LinesAre
      <4> QED
        BY <1>9, <3>1, <4>3, <4>4, <4>5 DEF AnsweredInTurn
    <3>3. TurnsOf(log', "over", answered)
      <4>1. e.status # "ok"
        BY <1>3, <1>17
      <4> QED
        BY <1>3, <1>5, <1>7, <1>13, <1>15, <3>2, <4>1, TurnGivenUp
    <3> QED
      BY <1>14, <2>1, <2>2, <3>3
  <2>3. CASE ~ends
    <3>1. \A j \in Lines(log) : ~Answers(log, j, e)
      BY <1>3, <1>17 DEF Answers
    <3>2. TurnsOf(log', doing, answered)
      BY <1>5, <1>7, <1>12, <1>13, <3>1, TurnsBeside
    <3> QED
      BY <1>14, <2>1, <2>3, <3>2
  <2> QED
    BY <2>2, <2>3
<1>18. TurnsOf(log', doing', answered')
  BY <1>16, <1>17
<1>19. Awaiting(log', doing', asked', call', chunk')
  BY <1>4, <1>6 DEF Awaiting
<1>20. LentIsRead'
  BY <1>4, <1>6 DEF TalkInv, LentIsRead, Assembled
<1> QED
  BY <1>7, <1>18, <1>19, <1>20 DEF TalkInv

LEMMA TalkStep ==
  ASSUME "lent" \notin Features, "late" \notin Features
  PROVE  ReadersInv /\ TalkInv /\ [ReadersNext]_readersVars => TalkInv'
<1> SUFFICES ASSUME ReadersInv, TalkInv, [ReadersNext]_readersVars PROVE TalkInv'
  OBVIOUS
<1>1. CASE UNCHANGED readersVars
  <2>1. UNCHANGED <<log, answered>> /\ doing' = doing /\ Awaiting(log', doing', asked', call', chunk') /\ LentIsRead'
    BY <1>1 DEF readersVars, TalkInv, LentIsRead
  <2> QED
    BY <2>1, TalkQuiet
<1>2. ASSUME NEW to \in Assembled, ChatLine(to) PROVE TalkInv'
  BY <1>2, ChatLineTalk
<1>3. ASSUME NEW origin \in {"user", "auto"}, LoadSkill(origin) PROVE TalkInv'
  BY <1>3, LoadSkillTalk
<1>4. ASSUME NEW what \in Assembled \cup {"summary", "plan", "draft", "pipeline"}, AskModel(what) PROVE TalkInv'
  BY <1>4, AskModelTalk
<1>5. ASSUME NEW status \in {"ok", "failed"}, NEW ends \in BOOLEAN, AnswerTurn(status, ends) PROVE TalkInv'
  BY <1>5, AnswerTurnTalk
<1>6. ASSUME NEW status \in {"ok", "failed"}, AnswerSide(status) PROVE TalkInv'
  BY <1>6, AnswerSideTalk
<1>7. ASSUME NEW what \in {"shell", "pipeline"}, AuthorsCall("tool_call", what) PROVE TalkInv'
  BY <1>7, AuthorsCallTalk
<1>8. ASSUME NEW what \in {"draft", "inject"}, AuthorsCall("kb_call", what) PROVE TalkInv'
  BY <1>8, AuthorsCallTalk
<1>9. ASSUME NEW status \in {"ok", "failed"}, Returns(status) PROVE TalkInv'
  BY <1>9, ReturnsTalk
<1>10. ASSUME NEW lend \in BOOLEAN, StartAnalysis(lend) PROVE TalkInv'
  BY <1>10, StartAnalysisTalk
<1>11. CASE CallTool
  BY <1>11, CallToolTalk
<1>12. CASE InjectOutput
  BY <1>12, InjectOutputTalk
<1>13. CASE AskChunk
  BY <1>13, AskChunkTalk
<1>14. CASE GiveModelBack
  BY <1>14, GiveModelBackTalk
<1>15. CASE SwitchModel
  BY <1>15, SwitchModelTalk
<1>16. CASE AnswerOffer
  BY <1>16, AnswerOfferTalk
<1>17. CASE StartPlan
  BY <1>17, StartPlanTalk
<1>18. CASE EndPlan
  BY <1>18, EndPlanTalk
<1>19. CASE EndSession
  BY <1>19, EndSessionTalk
<1> QED
  BY <1>1, <1>2, <1>3, <1>4, <1>5, <1>6, <1>7, <1>8, <1>9, <1>10, <1>11, <1>12, <1>13, <1>14, <1>15, <1>16, <1>17, <1>18, <1>19, Zenon
     DEF ReadersNext

LEMMA TalkStart == ReadersInit => TalkInv
<1> SUFFICES ASSUME ReadersInit PROVE TalkInv
  OBVIOUS
<1>1. ReadersInv
  BY ReadersStart
<1>2. PICK e : e = Event("session_start", "", "", 0, "")
  OBVIOUS
<1>3. e.kind = "session_start"
  BY <1>2 DEF Event
<1>4. log = <<e>> /\ answered = <<>> /\ doing = "prompt" /\ asked = 0 /\ call = 0 /\ chunk = 0 /\ lent = FALSE
  BY <1>2 DEF ReadersInit
<1>5. Len(log) = 1 /\ log[1] = e /\ log \in Seq(Records)
  BY <1>1, <1>4 DEF ReadersInv, ReadersTypeOK
<1>6. Lines(log) = {}
  BY <1>3, <1>5, LinesAre
<1>7. Follows(log)
  BY <1>3, <1>5 DEF Follows
<1>8. Len(answered) = 0
  BY <1>4, EmptySeq
<1>9. TurnsOf(log, doing, answered)
  BY <1>6, <1>8 DEF TurnsOf, InOrderOfLines
<1>10. Awaiting(log, doing, asked, call, chunk) /\ LentIsRead
  BY <1>4 DEF Awaiting, LentIsRead
<1> QED
  BY <1>7, <1>9, <1>10 DEF TalkInv

LEMMA TalkIsReadBack == ReadersInv /\ TalkInv => TurnsReadBack
<1> SUFFICES ASSUME ReadersInv, TalkInv, doing \notin Assembled PROVE LoadTurns(log) = answered
  BY Zenon DEF TurnsReadBack
<1>1. log \in Seq(Records) /\ answered \in Seq(Turns)
  BY DEF ReadersInv, ReadersTypeOK
<1>2. /\ InOrderOfLines(answered) /\ \A n \in 1 .. Len(answered) : ReadBack(log, answered[n])
      /\ \A i \in Lines(log) : Own(log, i) # {} => \E n \in 1 .. Len(answered) : answered[n].line = i
  BY DEF TalkInv, TurnsOf, UnderWay
<1> QED
  BY <1>1, <1>2, TurnsAreRead

\* TurnsReadBack: while no turn is under way, what a later session continues from, or
\* a replay goes through, is the conversation, each line that was answered with its
\* reply and whether a route gave it, whatever was asked and analysed on the side, and
\* also when an analysis or a step of a plan comes right after a turn (sessionload.go
\* loadSessionLog, answeredReply).  The hypotheses keep out the two ways of using a
\* session in which the code reads something else: a file analysed inside a turn by a
\* model lent for it, and a turn that fails after a request of it was answered.
THEOREM TurnsAreReadBack ==
  ASSUME "lent" \notin Features, "late" \notin Features
  PROVE  ReadersSpec => []TurnsReadBack
<1>1. ReadersInv /\ TalkInv /\ [ReadersNext]_readersVars => ReadersInv' /\ TalkInv'
  BY ReadersStep, TalkStep
<1>2. ReadersInit => ReadersInv /\ TalkInv
  BY ReadersStart, TalkStart
<1>3. ReadersSpec => [](ReadersInv /\ TalkInv)
  BY <1>1, <1>2, PTL DEF ReadersSpec
<1> QED
  BY <1>3, TalkIsReadBack, PTL

=============================================================================
