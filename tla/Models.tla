------------------------------- MODULE Models -------------------------------
(***************************************************************************)
(* Which model Harvey uses, on which server, and what it remembers of it:  *)
(* the client and the backend, the capability cache, the windows fixed for *)
(* the session, the aliases, and the steps that borrow another model.      *)
(* Servers come and go, and a probe may fail while its server answers.     *)
(***************************************************************************)
EXTENDS Naturals, Sequences, FiniteSets, FiniteSetsExt

CONSTANTS
  ModelNames, Shorts,      \* names of models, and words that only name aliases
  Tagged,                  \* each name as servers list it: with :latest when it has no tag
  Services, UrlOf,         \* services: of harvey.yaml, and where each is
  EngineOf,                \* the engine harvey.yaml says each has
  OllamaURL, HailoURL,     \* ollama.url and hailo.url
  Catalog,                 \* what a Hailo server can run
  Limited,                 \* models a Hailo server is known to fail early on
  Context(_, _),           \* the context a server that is not Hailo reports
  Accepts(_), Asked,       \* the longest prompt a server takes; a limit users set
  Ceiling, Room, Floor,    \* ollama.max_context, what memory holds, the least
  HailoWindow,             \* the window of every Hailo model
  Worlds,                  \* what may be installed where when Harvey starts
  Refs,                    \* what is typed for a model: [service or Unnamed, model]
  Named,                   \* aliases users set: [word, model]
  Adjusted,                \* those that /model mode and /model limit are given
  Happenings,              \* uses that go wrong, allowed one by one
  Depth, MaxCommands, MaxSettings, MaxRefusals, MaxOutages,
  NoClient, NoBackend, NoCap, NoWindow, NoAlias, NoURL, NoModel

Unnamed == ""   \* no service or engine is named
URLs == {OllamaURL, HailoURL} \cup {UrlOf[s] : s \in Services}
Engines == {"ollama", "hailo"}
ServiceNames == Engines \cup Services
Words == ModelNames \cup Shorts
Keys == ({Unnamed, "hailo"} \cup Services) \X ModelNames
Whole == {m \in ModelNames : Tagged[m] = m}   \* names that have their tag

ASSUME ModelsAssumption ==
  /\ Services \cap (Engines \cup {Unnamed}) = {}
  /\ ModelNames \cap Shorts = {}
  /\ UrlOf \in [Services -> URLs] /\ EngineOf \in [Services -> Engines]
  /\ NoURL \notin URLs /\ NoModel \notin ModelNames
  /\ Named \subseteq [word : Words, model : ModelNames]
  /\ Refs \cup Adjusted \subseteq [service : ServiceNames \cup {Unnamed}, model : ModelNames]
  /\ Tagged \in [ModelNames -> ModelNames] /\ \A m \in ModelNames : Tagged[m] \in Whole
  /\ Catalog \subseteq Whole /\ Limited \subseteq Catalog
  /\ \A u \in URLs : Accepts(u) \in Nat
  /\ \A u \in URLs, m \in ModelNames : Context(u, m) \in Nat
  /\ {Asked, Ceiling, Room, Floor, HailoWindow, Depth, MaxCommands, MaxSettings, MaxRefusals, MaxOutages} \subseteq Nat
  /\ Worlds \subseteq [kindAt : [URLs -> Engines], has : [URLs -> SUBSET Whole]]

Clients == [service : ServiceNames, engine : Engines, url : URLs, model : ModelNames]
Backends == [kind : Engines, url : URLs, model : ModelNames]

ASSUME NothingAssumption ==
  NoClient \notin Clients /\ NoBackend \notin Backends /\ NoModel \notin Keys

VARIABLES
  up,        \* the servers that answer
  kindAt,    \* what each server really is
  pulled,    \* the models installed on each
  aliases,   \* Config.ModelAliases
  agent,     \* Client, Backend, Config.Ollama.Model, ModelCache, windowLimits
  lent,      \* what each step under way restores, the innermost last
  started,   \* the last model accepted of -m, of ollama.model or of a step, and when
  spent      \* commands given, settings among them, prompts refused and outages so far

vars == <<up, kindAt, pulled, aliases, agent, lent, started, spent>>
world == <<up, kindAt, pulled>>

Unused == [client |-> NoClient, backend |-> NoBackend, model |-> NoModel,
           caps |-> [k \in Keys |-> NoCap], windows |-> [k \in Keys |-> NoWindow]]

----------------------------------------------------------------------------
(* The servers, as Harvey finds them when it asks and those of v answer. *)

(* Choosing a model asks the servers again and again: what is installed
   (requireInstalled), who has the model, the family or the service
   (setOllamaModel, setServiceModel), the family once more (setHailoModel), and
   the fast probe. Up to each question the servers of up answer, from there on
   those left after one of them went or came. *)
Installing == 1
Naming == 2
Finding == 3
FindingHailo == 4
Probing == 5
Seen(after) == {[q \in 1 .. 5 |-> IF q < n THEN up ELSE after] : n \in {2, 3, 4, 5, 6}}

(* DetectHailo asks a server for its Hailo catalog; no other server has one. *)
HailoAt(v, u) == u \in v /\ kindAt[u] = "hailo"

(* ollamaFamily: the Hailo server is at hailo.url, or Harvey finds that the
   server at ollama.url is one and relabels it. *)
Family(v) ==
  LET found == IF HailoAt(v, HailoURL) THEN HailoURL
               ELSE IF HailoAt(v, OllamaURL) THEN OllamaURL ELSE NoURL
  IN [ollama |-> IF found = OllamaURL THEN NoURL ELSE OllamaURL,
      hailo |-> found, relabelled |-> found = OllamaURL]

Installed(v, url, service, engine) ==
  IF url \in v
  THEN {[model |-> m, service |-> service, engine |-> engine, isPulled |-> TRUE] :
          m \in pulled[url]}
  ELSE {}

InCatalog(v, url, service) ==
  IF HailoAt(v, url)
  THEN {[model |-> m, service |-> service, engine |-> "hailo", isPulled |-> FALSE] :
          m \in Catalog \ pulled[url]}
  ELSE {}

(* listFamilyModels: what each server that answers has, and what a Hailo
   server could pull. *)
Listed(v) ==
  Installed(v, Family(v).ollama, "ollama", "ollama")
    \cup Installed(v, Family(v).hailo, "hailo", "hailo") \cup InCatalog(v, Family(v).hailo, "hailo")
    \cup UNION {Installed(v, UrlOf[s], s, EngineOf[s])
                  \cup (IF EngineOf[s] = "hailo" THEN InCatalog(v, UrlOf[s], s) ELSE {}) :
                s \in Services}

----------------------------------------------------------------------------
(* The key of a model, its window, and what a probe finds. *)

Key(service, m) == <<IF service = "ollama" THEN Unnamed ELSE service, m>>

ActiveEngine(a) ==
  IF a.client # NoClient THEN a.client.engine
  ELSE IF a.backend # NoBackend THEN a.backend.kind ELSE Unnamed

ActiveService(a) ==
  IF a.client # NoClient /\ a.client.service # a.client.engine THEN a.client.service
  ELSE IF a.backend # NoBackend THEN a.backend.kind ELSE "ollama"

ModelKey(a, m) == Key(ActiveService(a), m)

SafeWindow(ctx) ==
  LET asked == Min({ctx, Ceiling})
  IN IF ctx = 0 THEN 0 ELSE IF Room >= asked THEN asked ELSE Max({Room, Floor})

(* What the cache holds of a model, and a row written to it. *)
Cached(a, k) == IF a.caps[k] = NoCap THEN [ctx |-> 0, limit |-> 0, mode |-> "auto"] ELSE a.caps[k]
Store(a, k, cap) == [a EXCEPT !.caps[k] = cap]

(* fixWindowLimit: nothing known keeps nothing. *)
FixWindow(a, m, cap) ==
  LET byEngine == ActiveEngine(a) = "hailo" /\ (cap = NoCap \/ cap.ctx = 0)
      ctx == IF byEngine THEN HailoWindow ELSE cap.ctx
  IN IF ~byEngine /\ cap = NoCap THEN a
     ELSE [a EXCEPT !.windows[ModelKey(a, m)] = SafeWindow(ctx)]

(* fastProbe, of a server that answers. *)
Probed(url, m) ==
  IF kindAt[url] = "hailo"
  THEN [ctx |-> 0, limit |-> IF m \in Limited THEN Accepts(url) ELSE 0, mode |-> "auto"]
  ELSE [ctx |-> Context(url, m), limit |-> 0, mode |-> "auto"]

(* probeModelAndCache: the client learns it talks to a Hailo server; a limit
   and a tool mode already cached stay. *)
WithProbe(a, url, m) ==
  LET b == IF kindAt[url] = "hailo" /\ a.client.model = m
           THEN [a EXCEPT !.client.engine = "hailo"] ELSE a
      key == ModelKey(b, m)
      old == b.caps[key]
      cap == IF old = NoCap THEN Probed(url, m)
             ELSE [Probed(url, m) EXCEPT !.mode = old.mode,
                     !.limit = IF old.limit > 0 THEN old.limit ELSE @]
  IN FixWindow(Store(b, key, cap), m, cap)

Probe(a, url, m, seen) ==
  {a} \cup (IF url \in seen[Probing] /\ Tagged[m] \in pulled[url] THEN {WithProbe(a, url, m)} ELSE {})

----------------------------------------------------------------------------
(* Selecting a model. Each operator gives the outcomes there may be: the
   agent afterwards, and whether the selection worked. *)

Outcomes(as) == {[agent |-> a, ok |-> TRUE] : a \in as}
Refused(a) == {[agent |-> a, ok |-> FALSE]}

(* useServiceModelAt: the window is fixed from the cache before the backend
   is replaced. *)
UseServiceModelAt(a, service, engine, url, m) ==
  LET b == [a EXCEPT !.model = m, !.client = [service |-> service, engine |-> engine,
                                              url |-> url, model |-> m]]
  IN FixWindow(b, m, b.caps[ModelKey(b, m)])

(* Variant: the backend stays when there is one *)
ManagedKeepingBackend(a, service, engine, url, m, seen) ==
  LET b == UseServiceModelAt(a, service, engine, url, m)
      backend == IF b.backend = NoBackend THEN [kind |-> engine, url |-> url, model |-> m]
                 ELSE b.backend
  IN Outcomes(Probe([b EXCEPT !.backend = backend], url, m, seen))

(* What every way to a managed backend does: client, backend, probe. *)
Managed(a, service, engine, url, m, seen) ==
  LET b == UseServiceModelAt(a, service, engine, url, m)
  IN Outcomes(Probe([b EXCEPT !.backend = [kind |-> engine, url |-> url, model |-> m]], url, m, seen))

SetServiceModel(a, s, m, seen) ==
  IF UrlOf[s] \in seen[Finding] THEN Managed(a, s, EngineOf[s], UrlOf[s], m, seen) ELSE Refused(a)

SetHailoModel(a, m, seen) ==
  LET url == Family(seen[FindingHailo]).hailo
  IN IF url = NoURL THEN Refused(a) ELSE Managed(a, "hailo", "hailo", url, m, seen)

(* A Hailo server at ollama.url that went before it was asked again is taken
   for an Ollama server. *)
SetOllamaModel(a, m, seen) ==
  IF Family(seen[Finding]).relabelled /\ Family(seen[FindingHailo]).hailo # NoURL
  THEN SetHailoModel(a, m, seen)
  ELSE Managed(a, "ollama", "ollama", OllamaURL, m, seen)

(* setOllamaModel or setHailoModel for a listed model: the engine is all that
   is looked at, so a model of a service is asked of another server of that
   engine. *)
ByEngine(a, x, seen) ==
  IF x.service # x.engine /\ "elsewhere" \notin Happenings THEN {}
  ELSE IF x.engine = "hailo" THEN SetHailoModel(a, x.model, seen)
  ELSE SetOllamaModel(a, x.model, seen)

(* Variant: a catalog entry counts as installed *)
IsInstalledOrListed(service, m, v) ==
  LET asked == {x \in Listed(v) : service \in {Unnamed, x.service}}
  IN asked = {} \/ \E x \in asked : Tagged[x.model] = Tagged[m]

IsInstalled(service, m, v) ==
  LET asked == {x \in Listed(v) : service \in {Unnamed, x.service}}
  IN asked = {} \/ \E x \in asked : x.isPulled /\ Tagged[x.model] = Tagged[m]

(* matchModel, and the candidates of useStartupModel: the whole name. *)
Matches(w, v) == {x \in Listed(v) : x.model = w}

(* What a user picks of those; a Hailo model that was never pulled is not
   pulled here either. *)
Choosable(named) ==
  IF "elsewhere" \in Happenings \/ \A x \in named : ~x.isPulled THEN named
  ELSE {x \in named : x.isPulled}

(* useStartupModel, with chooseAmong for a name on several servers. *)
UseStartupModel(a, service, m, seen) ==
  LET named == Matches(m, seen[Naming])
  IN IF ~IsInstalled(service, m, seen[Installing]) THEN Refused(a)
     ELSE IF service \in Services THEN SetServiceModel(a, service, m, seen)
     ELSE IF service = "hailo" THEN SetHailoModel(a, m, seen)
     ELSE IF service = "ollama" \/ named = {} THEN SetOllamaModel(a, m, seen)
     ELSE (UNION {ByEngine(a, x, seen) : x \in Choosable(named)})
            \cup (IF Cardinality(named) > 1 THEN Refused(a) ELSE {})

(* attemptModelSwitch: an alias, or a model some alias names; of several
   aliases of one model any is taken. An alias without an engine, or with
   ollama, changes the client alone. *)
AliasesFor(w) ==
  IF aliases[w] # NoAlias THEN {aliases[w]}
  ELSE {aliases[v] : v \in Words} \cap {e \in {aliases[v] : v \in Words} \ {NoAlias} : e.model = w}

ByAlias(a, e, seen) ==
  CASE e.engine \in Services -> SetServiceModel(a, e.engine, e.model, seen)
    [] e.engine = "hailo" -> SetHailoModel(a, e.model, seen)
    [] OTHER ->
         IF a.backend # NoBackend /\ a.backend.kind # "ollama" /\ "alias" \notin Happenings THEN {}
         ELSE Outcomes({UseServiceModelAt(a, "ollama", "ollama", OllamaURL, e.model)})

(* useSelectedModel, for a model of the list: the old backend is given up
   before the pull it may need. *)
UseSelected(a, x, seen) ==
  LET b == IF a.backend # NoBackend /\ a.backend.kind # x.engine
           THEN [a EXCEPT !.backend = NoBackend] ELSE a
  IN CASE x.service \in Services /\ ~x.isPulled -> Refused(a)
       [] x.service \in Services /\ x.isPulled -> SetServiceModel(a, x.service, x.model, seen)
       [] x.service = "ollama" -> SetOllamaModel(b, x.model, seen)
       [] x.service = "hailo" /\ x.isPulled -> SetHailoModel(b, x.model, seen)
       [] OTHER -> Refused(b)

----------------------------------------------------------------------------
NotStarted == [model |-> NoModel, listed |-> FALSE, nth |-> 0]

Init ==
  /\ up \in {URLs}
  /\ \E w \in Worlds : kindAt = w.kindAt /\ pulled = w.has
  /\ aliases = [w \in Words |-> NoAlias]
  /\ agent = Unused
  /\ lent = <<>>
  /\ started = NotStarted
  /\ spent = [commands |-> 0, settings |-> 0, refusals |-> 0, outages |-> 0]

(* A command of the session, given between steps. *)
Command == lent = <<>> /\ spent.commands < MaxCommands
Given == spent' = [spent EXCEPT !.commands = @ + 1]
(* One of aliases, modes and limits, which selects nothing. *)
Setting == Command /\ spent.settings < MaxSettings
IsSet == spent' = [spent EXCEPT !.commands = @ + 1, !.settings = @ + 1]
(* A command that selects: while it asks, a server may go or come. *)
Left == {up} \cup {up \cup {u} : u \in URLs}
             \cup {up \ {u} : u \in IF spent.outages < MaxOutages THEN up ELSE {}}
Leaves(after) ==
  /\ up' = after
  /\ spent' = [spent EXCEPT !.commands = @ + 1,
                            !.outages = IF up \subseteq after THEN @ ELSE @ + 1]
  /\ UNCHANGED kindAt
Takes(outcomes) == \E r \in outcomes : agent' = r.agent

(* A server is stopped or started by somebody else. *)
Stops(u) ==
  /\ u \in up /\ spent.outages < MaxOutages
  /\ up' = up \ {u}
  /\ spent' = [spent EXCEPT !.outages = @ + 1]
  /\ UNCHANGED <<kindAt, pulled, aliases, agent, lent, started>>

Starts(u) ==
  /\ u \notin up
  /\ up' = up \cup {u}
  /\ UNCHANGED <<kindAt, pulled, aliases, agent, lent, started, spent>>

(* hailo's pull: what was pulled is there even when the answer broke off. *)
Pulls(u, m) == pulled' = [pulled EXCEPT ![u] = @ \cup {m}]

Noted(m, service, v) ==
  started' = [model |-> m, listed |-> \E x \in Listed(v) : service \in {Unnamed, x.service},
              nth |-> spent.commands + 1]

(* noteRelabelledServer: the aliases of ollama move with the server. *)
Moved(as) ==
  [w \in Words |-> IF as[w] # NoAlias /\ as[w].engine = "ollama"
                   THEN [as[w] EXCEPT !.engine = "hailo"] ELSE as[w]]

(* Run, as far as selectBackend: the caches of the last session are there,
   its windows are not. A model of the command line or of ollama.model... *)
StartWith(service, m) ==
  /\ Command /\ agent.client = NoClient
  /\ OllamaURL \in up \/ Family(up).hailo # NoURL
  /\ \E after \in Left : \E seen \in Seen(after) :
       /\ \E r \in UseStartupModel(agent, service, m, seen) :
            /\ agent' = r.agent
            /\ IF r.ok THEN Noted(m, service, seen[Installing]) ELSE UNCHANGED started
       /\ Leaves(after)
  /\ aliases' = IF Family(up).relabelled THEN Moved(aliases) ELSE aliases
  /\ UNCHANGED <<pulled, lent>>

(* ...or one picked: of the list when a Hailo server is about, else of what
   the server at ollama.url has. *)
StartPicking ==
  /\ Command /\ agent.client = NoClient
  /\ \E after \in Left : \E seen \in Seen(after) :
       /\ IF \E x \in Listed(up) : x.engine = "hailo"
          THEN \E x \in Listed(up) : x.isPulled /\ Takes(ByEngine(agent, x, seen))
          ELSE \E x \in Installed(up, OllamaURL, "ollama", "ollama") :
                 Takes(SetOllamaModel(agent, x.model, seen))
       /\ Leaves(after)
  /\ aliases' = IF Family(up).relabelled THEN Moved(aliases) ELSE aliases
  /\ UNCHANGED <<pulled, lent, started>>

(* /model use NAME, and a word a prompt is addressed to. *)
ModelUse(w) ==
  /\ Command
  /\ \E after \in Left : \E seen \in Seen(after) :
       /\ IF AliasesFor(w) # {} THEN \E e \in AliasesFor(w) : Takes(ByAlias(agent, e, seen))
          ELSE \E x \in Matches(w, up) : Takes(UseSelected(agent, x, seen))
       /\ Leaves(after)
  /\ UNCHANGED <<pulled, aliases, lent, started>>

(* Picking a Hailo model that is not pulled: the pull succeeds, fails before
   anything is there, or fails after. *)
PullAndUse(x) ==
  /\ Command /\ ~x.isPulled /\ x.service = "hailo"
  /\ \E after \in Left : \E seen \in Seen(after) :
       /\ \/ /\ Pulls(Family(up).hailo, x.model)
             /\ \E r \in UseSelected(agent, [x EXCEPT !.isPulled = TRUE], seen) :
                  \/ agent' = r.agent
                  \/ /\ r.ok /\ Family(up).hailo \in seen[Probing]
                     /\ Family(seen[FindingHailo]).hailo = Family(up).hailo
                     /\ agent' = WithProbe(r.agent, Family(up).hailo, x.model)
          \/ Pulls(Family(up).hailo, x.model) /\ Takes(UseSelected(agent, x, seen))
          \/ Takes(UseSelected(agent, x, seen)) /\ UNCHANGED pulled
       /\ Leaves(after)
  /\ UNCHANGED <<aliases, lent, started>>

(* /model pull, which selects nothing. *)
ModelPull(m) ==
  /\ Command
  /\ \E x \in Listed(up) : x.engine = "hailo" /\ x.model = m /\ ~x.isPulled
  /\ Family(up).hailo # NoURL /\ Pulls(Family(up).hailo, m)
  /\ Given /\ UNCHANGED <<up, kindAt, aliases, agent, lent, started>>

(* The picker offers to save an alias, with the service, for a model that has
   none. *)
SaveAlias(w, x) ==
  /\ Command /\ x.service \in Engines
  /\ ~\E v \in Words : aliases[v] # NoAlias /\ aliases[v].model = x.model /\ aliases[v].engine \in {Unnamed, x.service}
  /\ aliases' = [aliases EXCEPT ![w] = [model |-> x.model, engine |-> x.service]]
  /\ \E after \in Left : \E seen \in Seen(after) :
       Takes(UseSelected(agent, x, seen)) /\ Leaves(after)
  /\ UNCHANGED <<pulled, lent, started>>

(* aliasClashesWithModel asks the cache, and the server only when the cache
   is empty. *)
Clashes(w) ==
  LET cached == {k \in Keys : agent.caps[k] # NoCap}
  IN IF cached # {} THEN <<Unnamed, w>> \in cached
     ELSE OllamaURL \in up /\ w \in pulled[OllamaURL]

(* /model alias set names no engine. *)
SetAlias(w, m) ==
  /\ Setting /\ ~Clashes(w)
  /\ aliases' = [aliases EXCEPT ![w] = [model |-> m, engine |-> Unnamed]]
  /\ IsSet /\ UNCHANGED <<world, agent, lent, started>>

RemoveAlias(w) ==
  /\ Setting /\ aliases[w] # NoAlias
  /\ aliases' = [aliases EXCEPT ![w] = NoAlias]
  /\ IsSet /\ UNCHANGED <<world, agent, lent, started>>

(* pruneStaleModelRefs: an alias without an engine, or of a service, stays. *)
Stale(e) ==
  e # NoAlias /\ e.engine \in Engines
    /\ ~\E x \in Listed(up) : x.service = e.engine /\ x.model = e.model

(* /model clean *)
ModelClean ==
  LET as == IF Family(up).relabelled THEN Moved(aliases) ELSE aliases
  IN /\ Setting
     /\ aliases' = [w \in Words |-> IF Stale(as[w]) THEN NoAlias ELSE as[w]]
     /\ IsSet /\ UNCHANGED <<world, agent, lent, started>>

CacheKeyFor(service, m) ==
  IF service = Unnamed THEN ModelKey(agent, m) ELSE Key(service, m)

(* /model mode [MODEL] MODE *)
ModelMode(service, m, mode) ==
  LET k == CacheKeyFor(service, m)
  IN /\ Setting
     /\ agent' = Store(agent, k, [Cached(agent, k) EXCEPT !.mode = mode])
     /\ IsSet /\ UNCHANGED <<world, aliases, lent, started>>

(* /model limit [MODEL] N, or auto for 0 *)
ModelLimit(service, m, n) ==
  LET k == CacheKeyFor(service, m)
  IN /\ Setting
     /\ agent' = Store(agent, k, [Cached(agent, k) EXCEPT !.limit = n])
     /\ IsSet /\ UNCHANGED <<world, aliases, lent, started>>

(* windowLimitFor: a request asks for the window fixed at selection, or
   fixes it now. *)
AsksWindow ==
  LET k == ModelKey(agent, agent.model)
  IN /\ agent.client # NoClient /\ agent.windows[k] = NoWindow
     /\ agent' = FixWindow(agent, agent.model, agent.caps[k])
     /\ agent' # agent
     /\ UNCHANGED <<world, aliases, lent, started, spent>>

(* Variant: the limit is kept under the model's bare name *)
(* learnPromptLimit: the server of the client failed on a prompt, and a
   shorter one worked. *)
LearnPromptLimit ==
  LET k == ModelKey(agent, agent.client.model)
      n == Accepts(agent.client.url)
      cap == Cached(agent, k)
  IN /\ lent = <<>> /\ agent.client # NoClient /\ agent.client.url \in up
     /\ spent.refusals < MaxRefusals
     /\ ~(cap.limit > 0 /\ cap.limit <= n)
     /\ agent' = Store(agent, k, [cap EXCEPT !.limit = n])
     /\ spent' = [spent EXCEPT !.refusals = @ + 1]
     /\ UNCHANGED <<world, aliases, lent, started>>

----------------------------------------------------------------------------
(* A plan step, a pipeline stage, a delegated task or an @mention borrows a
   model, inside a step another, and gives it back. *)

(* resolveDispatchTarget: what Restore needs is read before the switch. *)
Captured ==
  [service |-> agent.client.service, engine |-> agent.client.engine,
   url |-> agent.client.url, model |-> agent.model, backend |-> agent.backend,
   switched |-> TRUE]

SwitchedTo(service, w, seen) ==
  IF service = Unnamed THEN UNION {ByAlias(agent, e, seen) : e \in AliasesFor(w)}
  ELSE UseStartupModel(agent, service, w, seen)

ResolveDispatch(service, w) ==
  /\ spent.commands < MaxCommands
  /\ agent.client # NoClient /\ Len(lent) < Depth
  /\ service = Unnamed \/ w \in ModelNames
  /\ IF service = Unnamed /\ w = agent.model
     THEN /\ lent' = Append(lent, [Captured EXCEPT !.switched = FALSE])
          /\ Given /\ UNCHANGED <<up, kindAt, agent, started>>
     ELSE \E after \in Left : \E seen \in Seen(after) :
            /\ \E r \in SwitchedTo(service, w, seen) : r.ok /\ agent' = r.agent
            /\ lent' = Append(lent, Captured)
            /\ IF service = Unnamed THEN UNCHANGED started ELSE Noted(w, service, seen[Installing])
            /\ Leaves(after)
  /\ UNCHANGED <<pulled, aliases>>

(* Variant: the backend of the step stays *)
RestoredClient(a, was) ==
  IF was.switched THEN UseServiceModelAt(a, was.service, was.engine, was.url, was.model) ELSE a

Restored(a, was) ==
  IF ~was.switched THEN a
  ELSE [UseServiceModelAt(a, was.service, was.engine, was.url, was.model)
          EXCEPT !.backend = was.backend]

Restore ==
  /\ lent # <<>>
  /\ agent' = Restored(agent, lent[Len(lent)])
  /\ lent' = SubSeq(lent, 1, Len(lent) - 1)
  /\ UNCHANGED <<world, aliases, started, spent>>

(* Harvey ends, or is killed inside a step: the cache stays. *)
Quit ==
  /\ agent.client # NoClient
  /\ agent' = [Unused EXCEPT !.caps = agent.caps]
  /\ lent' = <<>>
  /\ started' = NotStarted
  /\ UNCHANGED <<world, aliases, spent>>

Next ==
  \/ \E u \in URLs : Stops(u) \/ Starts(u)
  \/ StartPicking
  \/ \E r \in Refs : StartWith(r.service, r.model)
  \/ \E w \in Words : ModelUse(w) \/ RemoveAlias(w)
  \/ \E x \in Listed(up) : PullAndUse(x)
  \/ \E m \in ModelNames : ModelPull(m)
  \/ \E w \in Shorts, x \in Listed(up) : SaveAlias(w, x)
  \/ \E n \in Named : SetAlias(n.word, n.model)
  \/ ModelClean
  \/ \E r \in Adjusted, mode \in {"auto", "none"} : ModelMode(r.service, r.model, mode)
  \/ \E r \in Adjusted, n \in {0, Asked} : ModelLimit(r.service, r.model, n)
  \/ AsksWindow \/ LearnPromptLimit
  \/ \E r \in Refs : ResolveDispatch(r.service, r.model)
  \/ \E w \in Shorts : ResolveDispatch(Unnamed, w)
  \/ Restore
  \/ Quit

Spec == Init /\ [][Next]_vars

----------------------------------------------------------------------------
(* Properties *)

(* The key under which Harvey looks up and records what it knows of the model
   in use names the service its client talks to, whichever commands, failed
   selections and borrowed models came before (modelKey reads the backend,
   the client is set elsewhere). *)
KeyOfClient ==
  agent.client # NoClient =>
    ModelKey(agent, agent.client.model) = Key(agent.client.service, agent.client.model)

(* A server a key may stand for. *)
ServersOf(k) ==
  IF k[1] \in Services THEN {UrlOf[k[1]]}
  ELSE IF k[1] = Unnamed THEN {OllamaURL} ELSE {u \in {OllamaURL, HailoURL} : kindAt[u] = "hailo"}

(* A prompt limit kept for a model is one its own server set, by failing on
   more (learnPromptLimit, the Hailo probe), or one the user set: a limit
   learnt of one server is never charged to a model of another. *)
LearntOfItsOwn ==
  \A k \in Keys :
    agent.caps[k] # NoCap => agent.caps[k].limit \in {Accepts(u) : u \in ServersOf(k)} \cup {0, Asked}

\* RememberedOfItsOwn: what Harvey remembers of a model, and is about to use, is of the
\* server that model is asked of (modelKey, learnPromptLimit).
RememberedOfItsOwn == KeyOfClient /\ LearntOfItsOwn

(* The Hailo server in use was at ollama.url, and then one answers at
   hailo.url. *)
HailoCame == Family(up).relabelled /\ HailoAt(up', HailoURL) /\ ~HailoAt(up, HailoURL)

(* A model named by -m, by ollama.model or by a step, and accepted although
   the servers that may have it could be asked, is installed on the server it
   is then asked of (requireInstalled, useStartupModel), which is asked anew at
   every step of the choice. What may come between is one server: one that had
   the model and went, or a Hailo server that came where another was in use. And
   a name without its tag is looked for with :latest and then not found among
   the candidates: it is asked of the server at ollama.url. *)
StartsWhereInstalled ==
  [][ (started' # started /\ started'.listed) =>
        LET m == Tagged[started'.model]
        IN \/ m \in pulled'[agent'.client.url]
           \/ \E u \in up \ up' : m \in pulled[u]
           \/ HailoCame
           \/ started'.model # m /\ agent'.client.url = OllamaURL ]_vars

(* What is in use changes only by choosing, and every step gives back what
   was in use before it, inside one another and after failed switches. *)
Choice == INSTANCE ModelChoice WITH
  Picks <- Keys, None <- NoModel,
  inUse <- IF agent.client = NoClient THEN NoModel ELSE ModelKey(agent, agent.client.model),
  kept <- [i \in DOMAIN lent |-> Key(lent[i].service, lent[i].model)]
ImplementsModelChoice == Choice!Spec
=============================================================================
