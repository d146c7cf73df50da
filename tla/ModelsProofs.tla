---------------------------- MODULE ModelsProofs ----------------------------
(***************************************************************************)
(* Proofs about Models: what Harvey remembers of a model is of the server  *)
(* that model is asked of, a model that was checked is on the server it is *)
(* asked of, and Models implements ModelChoice, for every set of models,   *)
(* services and servers, whichever stop and start, and whatever fails.     *)
(*                                                                         *)
(* The key of a model is read off two fields, the client and the backend,  *)
(* which different paths set.  The invariant says how the two go together  *)
(* (BackedBy) and where a client's server is (ServedAt), of the client in  *)
(* use and of every client a step under way will give back.                *)
(***************************************************************************)
EXTENDS Models, SequenceTheorems, TLAPS

Aliases == [model : ModelNames, engine : Engines \cup {Unnamed}]
Caps == [ctx : Nat, limit : Nat, mode : {"auto", "none"}]

Agents ==
  [client : Clients \cup {NoClient}, backend : Backends \cup {NoBackend},
   model : ModelNames \cup {NoModel},
   caps : [Keys -> Caps \cup {NoCap}], windows : [Keys -> Nat \cup {NoWindow}]]

Startings == [model : ModelNames \cup {NoModel}, listed : BOOLEAN, nth : Nat]

Loans ==
  [service : ServiceNames, engine : Engines, url : URLs, model : ModelNames,
   backend : Backends \cup {NoBackend}, switched : BOOLEAN]

\* Every variable keeps its type.
ModelsTypeOK ==
  /\ up \subseteq URLs
  /\ kindAt \in [URLs -> Engines]
  /\ pulled \in [URLs -> SUBSET Whole]
  /\ aliases \in [Words -> Aliases \cup {NoAlias}]
  /\ agent \in Agents
  /\ lent \in Seq(Loans)
  /\ started \in Startings
  /\ spent \in [commands : Nat, settings : Nat, refusals : Nat, outages : Nat]

\* The server is one the service stands for.
ServedAt(service, url) ==
  /\ service \in Services => url = UrlOf[service]
  /\ service = "ollama" => url = OllamaURL
  /\ service = "hailo" => url \in {OllamaURL, HailoURL} /\ kindAt[url] = "hailo"

\* When the service of a client is its engine, the key is read off the backend.
BackedBy(service, engine, backend) ==
  /\ service = "hailo" => engine = "hailo"
  /\ service = engine => IF backend = NoBackend THEN service = "ollama" ELSE backend.kind = service

ClientInv(a) ==
  a.client # NoClient =>
    /\ ServedAt(a.client.service, a.client.url)
    /\ BackedBy(a.client.service, a.client.engine, a.backend)
    /\ a.model = a.client.model

\* LearntOfItsOwn, of any agent.
LimitsInv(a) ==
  \A k \in Keys :
    a.caps[k] # NoCap => a.caps[k].limit \in {Accepts(u) : u \in ServersOf(k)} \cup {0, Asked}

GoodAgent(a) == a \in Agents /\ ClientInv(a) /\ LimitsInv(a)

\* A step that was lent no other model runs on the one in use before it.
LoansInv ==
  /\ \A i \in 1 .. Len(lent) :
       /\ ServedAt(lent[i].service, lent[i].url)
       /\ BackedBy(lent[i].service, lent[i].engine, lent[i].backend)
  /\ \A i \in 1 .. Len(lent) - 1 :
       ~lent[i].switched => lent[i + 1].service = lent[i].service /\ lent[i + 1].model = lent[i].model
  /\ lent # <<>> =>
       /\ agent.client # NoClient
       /\ ~lent[Len(lent)].switched =>
            agent.client.service = lent[Len(lent)].service /\ agent.client.model = lent[Len(lent)].model

ModelsInv == ModelsTypeOK /\ GoodAgent(agent) /\ LoansInv

-----------------------------------------------------------------------------
(* The operators the selections are built from.                            *)

LEMMA EnginesAre ==
  ASSUME ModelsAssumption
  PROVE  /\ "ollama" \in Engines /\ "hailo" \in Engines
         /\ Engines \subseteq ServiceNames /\ Services \subseteq ServiceNames
         /\ "ollama" \notin Services /\ "hailo" \notin Services /\ Unnamed \notin Services
         /\ Unnamed \notin Engines
         /\ OllamaURL \in URLs /\ HailoURL \in URLs
         /\ \A s \in Services : UrlOf[s] \in URLs /\ EngineOf[s] \in Engines
         /\ ModelNames \subseteq Words
<1>1. Unnamed # "ollama" /\ Unnamed # "hailo"
  BY Zenon DEF Unnamed
<1> QED
  BY <1>1 DEF ModelsAssumption, Engines, ServiceNames, URLs, Words

\* The key of a model of a service.
LEMMA KeyType ==
  ASSUME ModelsAssumption, NEW service \in ServiceNames, NEW m \in ModelNames
  PROVE  Key(service, m) \in Keys
BY DEF Key, Keys, ServiceNames, Engines, ModelsAssumption

\* Only the client and the backend are read for a key.
LEMMA ActiveType ==
  ASSUME ModelsAssumption, NEW a \in Agents
  PROVE  ActiveService(a) \in ServiceNames
<1>1. /\ a.client \in Clients \cup {NoClient} /\ a.backend \in Backends \cup {NoBackend}
  BY DEF Agents
<1>2. a.client \in Clients => a.client.service \in ServiceNames
  BY DEF Clients
<1>3. a.backend \in Backends => a.backend.kind \in Engines
  BY DEF Backends
<1> QED
  BY <1>1, <1>2, <1>3, EnginesAre DEF ActiveService

LEMMA ModelKeyType ==
  ASSUME ModelsAssumption, NEW a \in Agents, NEW m \in ModelNames
  PROVE  ModelKey(a, m) \in Keys
BY ActiveType, KeyType DEF ModelKey

\* The key names the service of the client, although it may be read off the backend.
LEMMA KeyNamesService ==
  ASSUME ModelsAssumption, NEW a \in Agents, NEW m, a.client # NoClient,
         BackedBy(a.client.service, a.client.engine, a.backend)
  PROVE  ModelKey(a, m) = Key(a.client.service, m)
BY DEF ModelKey, ActiveService, BackedBy

\* The least and the greatest of two numbers.
LEMMA MinMaxOfTwo ==
  ASSUME NEW i \in Nat, NEW j \in Nat
  PROVE  Min({i, j}) \in Nat /\ Max({i, j}) \in Nat
<1>1. \E x \in {i, j} : \A y \in {i, j} : x <= y
  OBVIOUS
<1>2. \E x \in {i, j} : \A y \in {i, j} : x >= y
  OBVIOUS
<1> QED
  BY <1>1, <1>2 DEF Min, Max

LEMMA SafeWindowType ==
  ASSUME ModelsAssumption, NEW ctx \in Nat
  PROVE  SafeWindow(ctx) \in Nat
<1>1. Ceiling \in Nat /\ Room \in Nat /\ Floor \in Nat
  BY DEF ModelsAssumption
<1>2. Min({ctx, Ceiling}) \in Nat /\ Max({Room, Floor}) \in Nat
  BY <1>1, MinMaxOfTwo
<1> QED
  BY <1>2 DEF SafeWindow

\* Two agents that differ in their windows only.
SameBesidesWindows(a, b) ==
  b.client = a.client /\ b.backend = a.backend /\ b.model = a.model /\ b.caps = a.caps

\* Fixing a window changes windows, and nothing else.
LEMMA FixWindowResult ==
  ASSUME ModelsAssumption, NEW a \in Agents, NEW m \in ModelNames, NEW cap \in Caps \cup {NoCap}
  PROVE  FixWindow(a, m, cap) \in Agents /\ SameBesidesWindows(a, FixWindow(a, m, cap))
<1> DEFINE byEngine == ActiveEngine(a) = "hailo" /\ (cap = NoCap \/ cap.ctx = 0)
           ctx == IF byEngine THEN HailoWindow ELSE cap.ctx
           k == ModelKey(a, m)
           b == [a EXCEPT !.windows[k] = SafeWindow(ctx)]
<1>1. CASE ~byEngine /\ cap = NoCap
  BY <1>1 DEF FixWindow, SameBesidesWindows
<1>2. CASE ~(~byEngine /\ cap = NoCap)
  <2>1. ctx \in Nat
    BY <1>2 DEF Caps, ModelsAssumption
  <2>2. SafeWindow(ctx) \in Nat /\ k \in Keys
    BY <2>1, SafeWindowType, ModelKeyType
  <2>3. FixWindow(a, m, cap) = b
    BY <1>2 DEF FixWindow
  <2> HIDE DEF ctx, byEngine, k
  <2>4. b \in Agents /\ SameBesidesWindows(a, b)
    BY <2>2 DEF Agents, SameBesidesWindows
  <2> QED
    BY <2>3, <2>4
<1> QED
  BY <1>1, <1>2

\* A model is asked of a server by a client; nothing else was changed.
Uses(b, a, service, engine, url, m) ==
  /\ b.client \in Clients /\ b.model = m
  /\ b.client.service = service /\ b.client.engine = engine
  /\ b.client.url = url /\ b.client.model = m
  /\ b.backend = a.backend /\ b.caps = a.caps

LEMMA UseResult ==
  ASSUME ModelsAssumption, NEW a \in Agents, NEW service \in ServiceNames, NEW engine \in Engines,
         NEW url \in URLs, NEW m \in ModelNames
  PROVE  /\ UseServiceModelAt(a, service, engine, url, m) \in Agents
         /\ Uses(UseServiceModelAt(a, service, engine, url, m), a, service, engine, url, m)
<1> DEFINE c == [service |-> service, engine |-> engine, url |-> url, model |-> m]
           d == [a EXCEPT !.model = m, !.client = c]
<1>1. c \in Clients
  BY DEF Clients
<1>2. d \in Agents /\ Uses(d, a, service, engine, url, m)
  BY <1>1 DEF Agents, Uses
<1>3. d.caps[ModelKey(d, m)] \in Caps \cup {NoCap}
  BY <1>2, ModelKeyType DEF Agents
<1> DEFINE cap == d.caps[ModelKey(d, m)]
<1>4. UseServiceModelAt(a, service, engine, url, m) = FixWindow(d, m, cap)
  BY DEF UseServiceModelAt
<1>5. cap \in Caps \cup {NoCap}
  BY <1>3
<1> HIDE DEF d, cap
<1>6. FixWindow(d, m, cap) \in Agents /\ SameBesidesWindows(d, FixWindow(d, m, cap))
  BY <1>2, <1>5, FixWindowResult
<1> QED
  BY <1>2, <1>4, <1>6 DEF SameBesidesWindows, Uses

-----------------------------------------------------------------------------
(* A selection gives a good agent, whose client is where it was asked for. *)

\* What a probe finds is true of the server probed.
LEMMA ProbedLimit ==
  ASSUME ModelsAssumption, kindAt \in [URLs -> Engines], NEW url \in URLs, NEW m \in ModelNames
  PROVE  /\ Probed(url, m) \in Caps /\ Probed(url, m).limit \in {Accepts(url), 0}
         /\ Probed(url, m).mode = "auto"
BY DEF Probed, Caps, ModelsAssumption

\* The servers of a key have the limits that may be kept under it.
LEMMA ServedServer ==
  ASSUME ModelsAssumption, NEW service \in ServiceNames, NEW url \in URLs, NEW m \in ModelNames,
         ServedAt(service, url)
  PROVE  url \in ServersOf(Key(service, m))
BY EnginesAre DEF ServedAt, ServersOf, Key, ServiceNames, Engines

\* Two agents that have selected the same.
SameSelection(a, b) == b.client = a.client /\ b.backend = a.backend /\ b.model = a.model

LEMMA StoreResult ==
  ASSUME ModelsAssumption, NEW a \in Agents, NEW k \in Keys, NEW cap \in Caps,
         LimitsInv(a), cap.limit \in {Accepts(u) : u \in ServersOf(k)} \cup {0, Asked}
  PROVE  Store(a, k, cap) \in Agents /\ LimitsInv(Store(a, k, cap)) /\ SameSelection(a, Store(a, k, cap))
<1> DEFINE b == [a EXCEPT !.caps[k] = cap]
<1>1. b \in Agents /\ SameSelection(a, b)
  BY DEF Agents, SameSelection
<1>2. /\ b.caps[k] = cap
      /\ \A l \in Keys : l # k => b.caps[l] = a.caps[l]
  BY DEF Agents
<1>3. LimitsInv(b)
  <2> HIDE DEF b
  <2> QED
    BY <1>2 DEF LimitsInv
<1> QED
  BY <1>1, <1>3 DEF Store

\* A probe leaves the model with its service and its server.
Probes(b, a, url, m) ==
  /\ b.client # NoClient /\ b.client.url = url /\ b.client.model = m
  /\ b.client.service = a.client.service /\ b.backend = a.backend

\* Asked for a model it has, the server of the client tells what is kept.
LEMMA WithProbeResult ==
  ASSUME ModelsAssumption, kindAt \in [URLs -> Engines], NEW a \in Agents,
         NEW url \in URLs, NEW m \in ModelNames,
         GoodAgent(a), a.client # NoClient, a.client.url = url, a.client.model = m
  PROVE  GoodAgent(WithProbe(a, url, m)) /\ Probes(WithProbe(a, url, m), a, url, m)
<1> DEFINE b == IF kindAt[url] = "hailo" /\ a.client.model = m
                THEN [a EXCEPT !.client.engine = "hailo"] ELSE a
           key == ModelKey(b, m)
           old == b.caps[key]
           cap == IF old = NoCap THEN Probed(url, m)
                  ELSE [Probed(url, m) EXCEPT !.mode = old.mode,
                          !.limit = IF old.limit > 0 THEN old.limit ELSE @]
           c == Store(b, key, cap)
<1>1. a.client \in Clients
  BY DEF Agents
<1>2. /\ b \in Agents /\ b.client # NoClient /\ b.client.url = url /\ b.client.model = m
      /\ b.client.service = a.client.service /\ b.backend = a.backend /\ b.model = a.model
      /\ b.caps = a.caps
      /\ b.client.engine \in {a.client.engine, "hailo"} /\ b.client \in Clients
  <2>1. [a.client EXCEPT !.engine = "hailo"] \in Clients
    BY <1>1 DEF Clients, Engines
  <2>2. [a.client EXCEPT !.engine = "hailo"] # NoClient
    BY <2>1, NothingAssumption
  <2> QED
    BY <1>1, <2>1, <2>2 DEF Agents, Clients, Engines
<1>3. BackedBy(b.client.service, b.client.engine, b.backend)
  BY <1>2 DEF GoodAgent, ClientInv, BackedBy
<1>4. key = Key(b.client.service, m) /\ key \in Keys
  BY <1>2, <1>3, KeyNamesService, ModelKeyType
<1>5. ServedAt(b.client.service, url)
  BY <1>2 DEF GoodAgent, ClientInv
<1>6. url \in ServersOf(key)
  BY <1>2, <1>4, <1>5, ServedServer DEF Clients
<1>7. old \in Caps \cup {NoCap} /\ LimitsInv(b)
  <2>1. b.caps[key] \in Caps \cup {NoCap}
    BY <1>2, <1>4 DEF Agents
  <2>2. LimitsInv(b)
    BY <1>2 DEF GoodAgent, LimitsInv
  <2> QED
    BY <2>1, <2>2
<1>8. old # NoCap => old.limit \in {Accepts(u) : u \in ServersOf(key)} \cup {0, Asked}
  BY <1>4, <1>7 DEF LimitsInv
<1> HIDE DEF b, key
<1>9. cap \in Caps /\ cap.limit \in {Accepts(u) : u \in ServersOf(key)} \cup {0, Asked}
  <2>1. Probed(url, m) \in Caps /\ Probed(url, m).limit \in {Accepts(url), 0}
    BY ProbedLimit
  <2> DEFINE p == Probed(url, m)
             limit == IF old.limit > 0 THEN old.limit ELSE p.limit
  <2>2. CASE old = NoCap
    BY <1>6, <2>1, <2>2
  <2>3. CASE old # NoCap
    <3>1. old \in Caps
      BY <1>7, <2>3
    <3>2. cap = [p EXCEPT !.mode = old.mode, !.limit = limit]
      BY <2>3
    <3>3. limit \in Nat /\ limit \in {Accepts(u) : u \in ServersOf(key)} \cup {0, Asked}
      BY <1>6, <1>8, <2>1, <2>3, <3>1 DEF Caps
    <3> HIDE DEF limit, p, cap
    <3>4. p \in Caps
      BY <2>1 DEF p
    <3>5. cap \in Caps /\ cap.limit = limit
      BY <3>1, <3>2, <3>3, <3>4 DEF Caps
    <3> QED
      BY <3>3, <3>5
  <2> QED
    BY <2>2, <2>3
<1> HIDE DEF cap
<1>10. c \in Agents /\ LimitsInv(c) /\ SameSelection(b, c)
  BY <1>2, <1>4, <1>7, <1>9, StoreResult
<1>11. WithProbe(a, url, m) = FixWindow(c, m, cap)
  BY DEF WithProbe, b, key, cap
<1> HIDE DEF c
<1> DEFINE d == FixWindow(c, m, cap)
<1>12. d \in Agents /\ SameBesidesWindows(c, d)
  BY <1>9, <1>10, FixWindowResult
<1> HIDE DEF d
<1>13. LimitsInv(d)
  BY <1>10, <1>12 DEF LimitsInv, SameBesidesWindows
<1>14. ClientInv(d)
  BY <1>2, <1>3, <1>5, <1>10, <1>12 DEF ClientInv, GoodAgent, SameBesidesWindows, SameSelection
<1> QED
  BY <1>2, <1>10, <1>11, <1>12, <1>13, <1>14 DEF GoodAgent, Probes, d, SameBesidesWindows, SameSelection

\* The selection worked: the model is asked of that server.
Selected(r, service, url, m) ==
  /\ r.ok /\ GoodAgent(r.agent) /\ r.agent.client # NoClient
  /\ r.agent.client.service = service /\ r.agent.client.url = url /\ r.agent.client.model = m

LEMMA ManagedResult ==
  ASSUME ModelsAssumption, kindAt \in [URLs -> Engines], NEW a \in Agents, LimitsInv(a),
         NEW service \in ServiceNames, NEW engine \in Engines, NEW url \in URLs, NEW m \in ModelNames,
         ServedAt(service, url), service \in Engines => engine = service,
         NEW seen, NEW r \in Managed(a, service, engine, url, m, seen)
  PROVE  Selected(r, service, url, m)
<1> DEFINE b == UseServiceModelAt(a, service, engine, url, m)
           k == [kind |-> engine, url |-> url, model |-> m]
           c == [b EXCEPT !.backend = k]
<1>1. b \in Agents /\ Uses(b, a, service, engine, url, m)
  BY UseResult
<1>2. k \in Backends /\ k.kind = engine
  BY DEF Backends
<1> HIDE DEF b, k
<1>3. k # NoBackend
  BY <1>2, NothingAssumption
<1>4. /\ c \in Agents /\ c.client = b.client /\ c.model = b.model /\ c.caps = b.caps
      /\ c.backend = k
  BY <1>1, <1>2 DEF Agents
<1> HIDE DEF c
<1>5. /\ c.client # NoClient /\ c.client.service = service /\ c.client.engine = engine
      /\ c.client.url = url /\ c.client.model = m /\ c.model = m /\ c.caps = a.caps
  BY <1>1, <1>4, NothingAssumption DEF Uses
<1>6. BackedBy(service, engine, k)
  BY <1>2, <1>3 DEF BackedBy, Engines
<1>7. GoodAgent(c)
  BY <1>4, <1>5, <1>6 DEF GoodAgent, ClientInv, LimitsInv
<1>8. r \in Outcomes(Probe(c, url, m, seen))
  BY DEF Managed, b, c, k
<1>9. PICK d \in Probe(c, url, m, seen) : r = [agent |-> d, ok |-> TRUE]
  BY <1>8 DEF Outcomes
<1>10. r.agent = d /\ r.ok /\ d \in {c, WithProbe(c, url, m)}
  BY <1>9 DEF Probe
<1>11. CASE d = c
  BY <1>5, <1>7, <1>10, <1>11 DEF Selected
<1>12. CASE d = WithProbe(c, url, m)
  <2>1. Probes(d, c, url, m) /\ GoodAgent(d)
    BY <1>4, <1>5, <1>7, <1>12, WithProbeResult
  <2> QED
    BY <1>5, <1>10, <2>1 DEF Selected, Probes
<1> QED
  BY <1>10, <1>11, <1>12

\* Where the Hailo server is, and whether it was found at ollama.url.
LEMMA FamilyResult ==
  ASSUME ModelsAssumption, NEW v \in SUBSET URLs
  PROVE  /\ Family(v).hailo # NoURL => Family(v).hailo \in {OllamaURL, HailoURL} /\ HailoAt(v, Family(v).hailo)
         /\ Family(v).relabelled => Family(v).ollama = NoURL /\ Family(v).hailo = OllamaURL
         /\ ~Family(v).relabelled => Family(v).ollama = OllamaURL
         /\ HailoAt(v, HailoURL) => Family(v).hailo = HailoURL
         /\ NoURL \notin v /\ OllamaURL # NoURL
<1>1. NoURL \notin v /\ OllamaURL # NoURL /\ HailoURL # NoURL
  BY EnginesAre DEF ModelsAssumption
<1> QED
  BY <1>1 DEF Family

\* The servers that answer each question: those of up, and from some question on
\* those that are left.
LEMMA SeenResult ==
  ASSUME ModelsAssumption, ModelsTypeOK, NEW after \in Left, NEW seen \in Seen(after)
  PROVE  /\ after \in SUBSET URLs
         /\ \A q \in 1 .. 5 : seen[q] \in SUBSET URLs
         /\ \A p \in 1 .. 5, q \in 1 .. 5 :
              p < q => seen[p] = seen[q] \/ (seen[p] = up /\ seen[q] = after)
<1>1. after \in SUBSET URLs /\ up \in SUBSET URLs
  BY DEF Left, ModelsTypeOK
<1>2. PICK n \in {2, 3, 4, 5, 6} : seen = [q \in 1 .. 5 |-> IF q < n THEN up ELSE after]
  BY DEF Seen
<1> QED
  BY <1>1, <1>2

Entries == [model : ModelNames, service : ServiceNames, engine : Engines, isPulled : BOOLEAN]

\* What is listed is on a server of its service, and installed there if it says so.
ListedAt(x, v) ==
  /\ x.service \in Engines => x.engine = x.service
  /\ x.service \in Services => x.engine = EngineOf[x.service] /\ (x.isPulled => x.model \in pulled[UrlOf[x.service]])
  /\ x.service = "hailo" => Family(v).hailo # NoURL /\ (x.isPulled => x.model \in pulled[Family(v).hailo])
  /\ x.isPulled => x.model \in Whole
  /\ ~x.isPulled => x.model \in Whole /\ x.engine = "hailo"
  /\ x.service = "ollama" => ~Family(v).relabelled /\ x.isPulled /\ x.model \in pulled[OllamaURL]

LEMMA ListedResult ==
  ASSUME ModelsAssumption, ModelsTypeOK, NEW v \in SUBSET URLs, NEW x \in Listed(v)
  PROVE  x \in Entries /\ ListedAt(x, v)
<1>1. ASSUME NEW url, NEW service \in ServiceNames, NEW engine \in Engines, x \in Installed(v, url, service, engine)
      PROVE  /\ x \in Entries /\ x.service = service /\ x.engine = engine /\ x.isPulled
             /\ url \in v /\ x.model \in pulled[url] /\ x.model \in Whole
  <2>1. url \in v /\ url \in URLs
    BY <1>1 DEF Installed, ModelsTypeOK
  <2>2. pulled[url] \subseteq Whole /\ Whole \subseteq ModelNames
    BY <2>1 DEF ModelsTypeOK, Whole
  <2>3. PICK m \in pulled[url] : x = [model |-> m, service |-> service, engine |-> engine, isPulled |-> TRUE]
    BY <1>1, <2>1 DEF Installed
  <2> QED
    BY <2>1, <2>2, <2>3 DEF Entries
<1>2. ASSUME NEW url, NEW service \in ServiceNames, x \in InCatalog(v, url, service)
      PROVE  /\ x \in Entries /\ x.service = service /\ x.engine = "hailo" /\ ~x.isPulled
             /\ url \in v /\ x.model \in Whole
  <2>1. url \in v
    BY <1>2 DEF InCatalog, HailoAt
  <2>2. PICK m \in Catalog \ pulled[url] :
          x = [model |-> m, service |-> service, engine |-> "hailo", isPulled |-> FALSE]
    BY <1>2 DEF InCatalog
  <2>3. m \in Whole /\ m \in ModelNames
    BY <2>2 DEF ModelsAssumption, Whole
  <2> QED
    BY <2>1, <2>2, <2>3, EnginesAre DEF Entries
<1>3. CASE x \in Installed(v, Family(v).ollama, "ollama", "ollama")
  <2>1. /\ x \in Entries /\ x.service = "ollama" /\ x.engine = "ollama" /\ x.isPulled
        /\ Family(v).ollama \in v /\ x.model \in pulled[Family(v).ollama] /\ x.model \in Whole
    BY <1>1, <1>3, EnginesAre
  <2>2. ~Family(v).relabelled /\ Family(v).ollama = OllamaURL
    BY <2>1, FamilyResult
  <2> QED
    BY <2>1, <2>2, EnginesAre DEF ListedAt
<1>4. CASE x \in Installed(v, Family(v).hailo, "hailo", "hailo")
  <2>1. /\ x \in Entries /\ x.service = "hailo" /\ x.engine = "hailo" /\ x.isPulled
        /\ Family(v).hailo \in v /\ x.model \in pulled[Family(v).hailo] /\ x.model \in Whole
    BY <1>1, <1>4, EnginesAre
  <2>2. Family(v).hailo # NoURL
    BY <2>1, FamilyResult
  <2> QED
    BY <2>1, <2>2, EnginesAre DEF ListedAt
<1>5. CASE x \in InCatalog(v, Family(v).hailo, "hailo")
  BY <1>2, <1>5, EnginesAre, FamilyResult DEF ListedAt
<1>6. ASSUME NEW s \in Services
      PROVE  s \in ServiceNames /\ EngineOf[s] \in Engines /\ s \notin Engines /\ s # "hailo" /\ s # "ollama"
  BY EnginesAre DEF ModelsAssumption
<1> DEFINE OfService(s) ==
             Installed(v, UrlOf[s], s, EngineOf[s])
               \cup (IF EngineOf[s] = "hailo" THEN InCatalog(v, UrlOf[s], s) ELSE {})
<1>7. CASE x \in UNION {OfService(s) : s \in Services}
  <2>1. PICK s \in Services : x \in OfService(s)
    BY <1>7
  <2>2. CASE x \in Installed(v, UrlOf[s], s, EngineOf[s])
    <3>1. /\ x \in Entries /\ x.service = s /\ x.engine = EngineOf[s]
          /\ x.model \in pulled[UrlOf[s]] /\ x.model \in Whole /\ x.isPulled
      BY <1>1, <1>6, <2>2
    <3> QED
      BY <1>6, <3>1 DEF ListedAt
  <2>3. CASE EngineOf[s] = "hailo" /\ x \in InCatalog(v, UrlOf[s], s)
    <3>1. x \in Entries /\ x.service = s /\ x.engine = "hailo" /\ ~x.isPulled /\ x.model \in Whole
      BY <1>2, <1>6, <2>3
    <3> QED
      BY <1>6, <2>3, <3>1 DEF ListedAt
  <2> QED
    BY <2>1, <2>2, <2>3
<1>8. \/ x \in Installed(v, Family(v).ollama, "ollama", "ollama")
      \/ x \in Installed(v, Family(v).hailo, "hailo", "hailo")
      \/ x \in InCatalog(v, Family(v).hailo, "hailo")
      \/ x \in UNION {OfService(s) : s \in Services}
  BY Zenon DEF Listed
<1> QED
  BY <1>3, <1>4, <1>5, <1>7, <1>8

-----------------------------------------------------------------------------
(* The ways to select a model.                                             *)

\* A selection that fails leaves the agent as it was.
Outcome(a, r) ==
  /\ GoodAgent(r.agent)
  /\ r.ok => r.agent.client # NoClient
  /\ ~r.ok => r.agent = a

LEMMA RefusedResult ==
  ASSUME NEW a, GoodAgent(a), NEW r \in Refused(a)
  PROVE  Outcome(a, r) /\ ~r.ok
BY DEF Refused, Outcome

LEMMA SelectedOutcome ==
  ASSUME NEW a, NEW r, NEW service, NEW url, NEW m, Selected(r, service, url, m)
  PROVE  Outcome(a, r)
BY DEF Selected, Outcome

LEMMA SetServiceModelResult ==
  ASSUME ModelsAssumption, ModelsTypeOK, NEW a, GoodAgent(a), NEW s \in Services, NEW m \in ModelNames,
         NEW seen, NEW r \in SetServiceModel(a, s, m, seen)
  PROVE  Outcome(a, r) /\ (r.ok => Selected(r, s, UrlOf[s], m))
<1>1. CASE UrlOf[s] \in seen[Finding]
  <2>1. s \in ServiceNames /\ UrlOf[s] \in URLs /\ EngineOf[s] \in Engines /\ s \notin Engines
    BY EnginesAre DEF ModelsAssumption
  <2>2. ServedAt(s, UrlOf[s])
    BY EnginesAre DEF ServedAt
  <2>3. r \in Managed(a, s, EngineOf[s], UrlOf[s], m, seen)
    BY <1>1 DEF SetServiceModel
  <2>4. Selected(r, s, UrlOf[s], m)
    BY <2>1, <2>2, <2>3, ManagedResult DEF GoodAgent, ModelsTypeOK
  <2> QED
    BY <2>4, SelectedOutcome
<1>2. CASE UrlOf[s] \notin seen[Finding]
  BY <1>2, RefusedResult DEF SetServiceModel
<1> QED
  BY <1>1, <1>2

\* The servers that answer a question are servers.
SeenOK(seen) == \A q \in 1 .. 5 : seen[q] \in SUBSET URLs

LEMMA SetHailoModelResult ==
  ASSUME ModelsAssumption, ModelsTypeOK, NEW a, GoodAgent(a), NEW m \in ModelNames,
         NEW seen, SeenOK(seen), NEW r \in SetHailoModel(a, m, seen)
  PROVE  /\ Outcome(a, r)
         /\ r.ok => Family(seen[FindingHailo]).hailo # NoURL /\ Selected(r, "hailo", Family(seen[FindingHailo]).hailo, m)
<1> DEFINE url == Family(seen[FindingHailo]).hailo
<1>0. seen[FindingHailo] \in SUBSET URLs
  BY DEF SeenOK, FindingHailo
<1>1. CASE url = NoURL
  BY <1>1, RefusedResult DEF SetHailoModel
<1>2. CASE url # NoURL
  <2>1. "hailo" \in ServiceNames /\ "hailo" \in Engines /\ url \in URLs /\ ServedAt("hailo", url)
    BY <1>0, <1>2, EnginesAre, FamilyResult DEF ServedAt, HailoAt
  <2>2. r \in Managed(a, "hailo", "hailo", url, m, seen)
    BY <1>2 DEF SetHailoModel
  <2>3. Selected(r, "hailo", url, m)
    BY <2>1, <2>2, ManagedResult DEF GoodAgent, ModelsTypeOK
  <2> QED
    BY <1>2, <2>3, SelectedOutcome DEF Selected
<1> QED
  BY <1>1, <1>2

\* A server found to be a Hailo server is asked as one, if it is still there.
OfOllama(r, m, seen) ==
  \/ Selected(r, "ollama", OllamaURL, m)
  \/ /\ Family(seen[Finding]).relabelled
     /\ Selected(r, "hailo", Family(seen[FindingHailo]).hailo, m)
     /\ Family(seen[FindingHailo]).hailo # NoURL

LEMMA SetOllamaModelResult ==
  ASSUME ModelsAssumption, ModelsTypeOK, NEW a \in Agents, LimitsInv(a), NEW m \in ModelNames,
         NEW seen, SeenOK(seen), NEW r \in SetOllamaModel(a, m, seen)
  PROVE  OfOllama(r, m, seen)
<1> DEFINE url == Family(seen[FindingHailo]).hailo
           asHailo == Family(seen[Finding]).relabelled /\ url # NoURL
<1>0. seen[FindingHailo] \in SUBSET URLs
  BY DEF SeenOK, FindingHailo
<1>1. CASE asHailo
  <2>1. "hailo" \in ServiceNames /\ "hailo" \in Engines /\ url \in URLs /\ ServedAt("hailo", url)
    BY <1>0, <1>1, EnginesAre, FamilyResult DEF ServedAt, HailoAt
  <2>2. r \in Managed(a, "hailo", "hailo", url, m, seen)
    BY <1>1 DEF SetOllamaModel, SetHailoModel
  <2>3. Selected(r, "hailo", url, m)
    BY <2>1, <2>2, ManagedResult DEF ModelsTypeOK
  <2> QED
    BY <1>1, <2>3 DEF OfOllama
<1>2. CASE ~asHailo
  <2>1. ServedAt("ollama", OllamaURL) /\ "ollama" \in ServiceNames /\ "ollama" \in Engines /\ OllamaURL \in URLs
    BY EnginesAre DEF ServedAt
  <2>2. r \in Managed(a, "ollama", "ollama", OllamaURL, m, seen)
    BY <1>2 DEF SetOllamaModel
  <2>3. Selected(r, "ollama", OllamaURL, m)
    BY <2>1, <2>2, ManagedResult DEF ModelsTypeOK
  <2> QED
    BY <2>3 DEF OfOllama
<1> QED
  BY <1>1, <1>2

LEMMA OfOllamaOutcome ==
  ASSUME NEW a, NEW r, NEW m, NEW seen, OfOllama(r, m, seen)
  PROVE  Outcome(a, r) /\ r.ok
BY SelectedOutcome DEF OfOllama, Selected

LEMMA ByEngineResult ==
  ASSUME ModelsAssumption, ModelsTypeOK, NEW a, GoodAgent(a), NEW v \in SUBSET URLs, NEW x \in Listed(v),
         NEW seen, SeenOK(seen), NEW r \in ByEngine(a, x, seen)
  PROVE  Outcome(a, r)
<1>1. x \in Entries /\ x.model \in ModelNames
  BY ListedResult DEF Entries
<1>2. r \in SetHailoModel(a, x.model, seen) \/ r \in SetOllamaModel(a, x.model, seen)
  BY DEF ByEngine
<1>3. a \in Agents /\ LimitsInv(a)
  BY DEF GoodAgent
<1> QED
  BY <1>1, <1>2, <1>3, SetHailoModelResult, SetOllamaModelResult, OfOllamaOutcome

\* The ways useStartupModel takes.
LEMMA StartupWays ==
  ASSUME ModelsAssumption, NEW a, NEW service, NEW m, NEW seen, NEW r \in UseStartupModel(a, service, m, seen)
  PROVE  \/ r \in Refused(a)
         \/ /\ IsInstalled(service, m, seen[Installing]) /\ service \in Services
            /\ r \in SetServiceModel(a, service, m, seen)
         \/ /\ IsInstalled(service, m, seen[Installing]) /\ service = "hailo"
            /\ r \in SetHailoModel(a, m, seen)
         \/ /\ IsInstalled(service, m, seen[Installing]) /\ service \notin Services /\ service # "hailo"
            /\ service = "ollama" \/ Matches(m, seen[Naming]) = {}
            /\ r \in SetOllamaModel(a, m, seen)
         \/ /\ IsInstalled(service, m, seen[Installing]) /\ service \notin Services \cup Engines
            /\ \E x \in Choosable(Matches(m, seen[Naming])) : r \in ByEngine(a, x, seen)
<1> DEFINE named == Matches(m, seen[Naming])
           asked == (UNION {ByEngine(a, x, seen) : x \in Choosable(named)})
                      \cup (IF Cardinality(named) > 1 THEN Refused(a) ELSE {})
           plain == service = "ollama" \/ named = {}
           known == IsInstalled(service, m, seen[Installing])
<1>0. "hailo" \notin Services /\ "ollama" \notin Services
  BY EnginesAre
<1>1. UseStartupModel(a, service, m, seen) =
        IF ~known THEN Refused(a)
        ELSE IF service \in Services THEN SetServiceModel(a, service, m, seen)
        ELSE IF service = "hailo" THEN SetHailoModel(a, m, seen)
        ELSE IF plain THEN SetOllamaModel(a, m, seen)
        ELSE asked
  BY DEF UseStartupModel
<1>2. r \in asked => r \in Refused(a) \/ \E x \in Choosable(named) : r \in ByEngine(a, x, seen)
  <2>1. r \in asked => r \in UNION {ByEngine(a, x, seen) : x \in Choosable(named)} \/ r \in Refused(a)
    OBVIOUS
  <2>2. r \in UNION {ByEngine(a, x, seen) : x \in Choosable(named)} =>
          \E x \in Choosable(named) : r \in ByEngine(a, x, seen)
    BY Zenon
  <2> QED
    BY <2>1, <2>2
<1>3. ~plain => service # "ollama"
  OBVIOUS
<1>4. plain => service = "ollama" \/ named = {}
  OBVIOUS
<1> HIDE DEF asked, plain, known, named
<1>5. CASE ~known
  BY <1>1, <1>5
<1>6. CASE known
  <2>1. service \in Services => r \in SetServiceModel(a, service, m, seen)
    BY <1>0, <1>1, <1>6
  <2>2. service = "hailo" => r \in SetHailoModel(a, m, seen)
    BY <1>0, <1>1, <1>6
  <2>3. service \notin Services /\ service # "hailo" /\ plain => r \in SetOllamaModel(a, m, seen)
    BY <1>1, <1>6
  <2>4. service \notin Services /\ service # "hailo" /\ ~plain => r \in asked
    BY <1>1, <1>6
  <2>5. \/ known /\ service \in Services /\ r \in SetServiceModel(a, service, m, seen)
        \/ known /\ service = "hailo" /\ r \in SetHailoModel(a, m, seen)
        \/ /\ known /\ service \notin Services /\ service # "hailo"
           /\ service = "ollama" \/ named = {}
           /\ r \in SetOllamaModel(a, m, seen)
        \/ known /\ service \notin Services \cup Engines /\ \E x \in Choosable(named) : r \in ByEngine(a, x, seen)
        \/ r \in Refused(a)
    BY <1>2, <1>3, <1>4, <1>6, <2>1, <2>2, <2>3, <2>4 DEF Engines
  <2> QED
    BY <2>5 DEF known, named
<1> QED
  BY <1>5, <1>6

LEMMA ChoosableAre ==
  ASSUME NEW named, NEW x \in Choosable(named)
  PROVE  x \in named
BY DEF Choosable

LEMMA UseStartupModelResult ==
  ASSUME ModelsAssumption, ModelsTypeOK, NEW a, GoodAgent(a), NEW service \in ServiceNames \cup {Unnamed},
         NEW m \in ModelNames, NEW seen, SeenOK(seen), NEW r \in UseStartupModel(a, service, m, seen)
  PROVE  Outcome(a, r)
<1>0. a \in Agents /\ LimitsInv(a) /\ seen[Naming] \in SUBSET URLs
  BY DEF GoodAgent, SeenOK, Naming
<1>1. CASE r \in Refused(a)
  BY <1>1, RefusedResult
<1>2. CASE service \in Services /\ r \in SetServiceModel(a, service, m, seen)
  BY <1>2, SetServiceModelResult
<1>3. CASE r \in SetHailoModel(a, m, seen)
  BY <1>3, SetHailoModelResult
<1>4. CASE r \in SetOllamaModel(a, m, seen)
  BY <1>0, <1>4, SetOllamaModelResult, OfOllamaOutcome
<1>5. CASE \E x \in Choosable(Matches(m, seen[Naming])) : r \in ByEngine(a, x, seen)
  <2>1. PICK x \in Choosable(Matches(m, seen[Naming])) : r \in ByEngine(a, x, seen)
    BY <1>5
  <2>2. x \in Listed(seen[Naming])
    BY <2>1, ChoosableAre DEF Matches
  <2> QED
    BY <1>0, <2>1, <2>2, ByEngineResult
<1> QED
  BY <1>1, <1>2, <1>3, <1>4, <1>5, StartupWays

\* What may have come between two questions: a server with the model went, or a
\* Hailo server came where another was in use.
Came(after) == Family(up).relabelled /\ HailoAt(after, HailoURL) /\ ~HailoAt(up, HailoURL)
Gone(m, after) == \E u \in up \ after : m \in pulled[u]

\* The Hailo server asked last has what the one that was listed has.
LEMMA FamilyMoves ==
  ASSUME ModelsAssumption, ModelsTypeOK, NEW after \in SUBSET URLs, NEW v \in SUBSET URLs, NEW w \in SUBSET URLs,
         v = w \/ (v = up /\ w = after), Family(v).hailo # NoURL, Family(w).hailo # NoURL,
         NEW m, m \in pulled[Family(v).hailo]
  PROVE  m \in pulled[Family(w).hailo] \/ Gone(m, after) \/ Came(after)
<1>1. CASE Family(v).hailo = Family(w).hailo
  BY <1>1
<1>2. CASE Family(v).hailo # Family(w).hailo
  <2>1. v = up /\ w = after
    BY <1>2
  <2>2. Family(up).hailo = HailoURL \/ Family(after).hailo = HailoURL
    BY <1>2, <2>1, FamilyResult
  <2>3. CASE Family(up).hailo = HailoURL
    <3>1. HailoAt(up, HailoURL) /\ ~HailoAt(after, HailoURL)
      BY <1>2, <2>1, <2>3, FamilyResult
    <3>2. HailoURL \in up \ after
      BY <3>1 DEF HailoAt
    <3> QED
      BY <2>1, <2>3, <3>2 DEF Gone
  <2>4. CASE Family(up).hailo # HailoURL
    <3>1. Family(up).hailo = OllamaURL /\ Family(after).hailo = HailoURL
      BY <2>1, <2>2, <2>4, FamilyResult
    <3>2. HailoAt(after, HailoURL) /\ ~HailoAt(up, HailoURL)
      BY <2>1, <2>4, <3>1, FamilyResult
    <3>3. Family(up).relabelled
      BY <3>1, <2>1 DEF Family
    <3> QED
      BY <3>2, <3>3 DEF Came
  <2> QED
    BY <2>3, <2>4
<1> QED
  BY <1>1, <1>2

\* A model asked of the server at ollama.url is asked of another only when a Hailo
\* server came.
LEMMA OllamaMoves ==
  ASSUME ModelsAssumption, ModelsTypeOK, NEW after \in Left, NEW seen \in Seen(after),
         NEW r, NEW m, OfOllama(r, m, seen)
  PROVE  r.agent.client.url = OllamaURL \/ Came(after)
<1>1. CASE Selected(r, "ollama", OllamaURL, m)
  BY <1>1 DEF Selected
<1>2. CASE /\ Family(seen[Finding]).relabelled /\ Family(seen[FindingHailo]).hailo # NoURL
           /\ Selected(r, "hailo", Family(seen[FindingHailo]).hailo, m)
  <2>1. /\ seen[3] \in SUBSET URLs /\ seen[4] \in SUBSET URLs
        /\ seen[3] = seen[4] \/ (seen[3] = up /\ seen[4] = after)
    BY SeenResult
  <2>2. Finding = 3 /\ FindingHailo = 4
    BY DEF Finding, FindingHailo
  <2>3. r.agent.client.url = Family(seen[4]).hailo /\ Family(seen[3]).relabelled /\ Family(seen[4]).hailo # NoURL
    BY <1>2, <2>2 DEF Selected
  <2>4. Family(seen[3]).hailo = OllamaURL
    BY <2>1, <2>3, FamilyResult
  <2>5. CASE Family(seen[4]).hailo = OllamaURL
    BY <2>3, <2>5
  <2>6. CASE Family(seen[4]).hailo # OllamaURL
    <3>1. seen[3] = up /\ seen[4] = after
      BY <2>1, <2>4, <2>6
    <3>2. Family(after).hailo = HailoURL /\ HailoAt(after, HailoURL) /\ HailoURL # OllamaURL
      BY <2>1, <2>3, <2>6, <3>1, FamilyResult
    <3>3. ~HailoAt(up, HailoURL)
      BY <2>1, <2>4, <3>1, <3>2, FamilyResult
    <3> QED
      BY <2>3, <3>1, <3>2, <3>3 DEF Came
  <2> QED
    BY <2>5, <2>6
<1> QED
  BY <1>1, <1>2 DEF OfOllama

\* An installed model that is not listed any more: its server went, a Hailo server
\* came, or its server turned out to be a Hailo server.
LEMMA Vanished ==
  ASSUME ModelsAssumption, ModelsTypeOK, NEW after \in SUBSET URLs,
         NEW x \in Listed(up), x.isPulled, x \notin Listed(after)
  PROVE  \/ Gone(x.model, after) \/ Came(after)
         \/ Family(after).relabelled /\ x.model \in pulled[OllamaURL]
<1>0. up \in SUBSET URLs
  BY DEF ModelsTypeOK
<1>1. ASSUME NEW url, NEW service, NEW engine, x \in Installed(up, url, service, engine)
      PROVE  /\ url \in up /\ x.model \in pulled[url]
             /\ url \in after => x \in Installed(after, url, service, engine)
  <2>1. url \in up
    BY <1>1 DEF Installed
  <2>2. PICK m \in pulled[url] : x = [model |-> m, service |-> service, engine |-> engine, isPulled |-> TRUE]
    BY <1>1, <2>1 DEF Installed
  <2> QED
    BY <1>1, <2>1, <2>2 DEF Installed
<1>2. ASSUME NEW url, NEW service
      PROVE  x \notin InCatalog(up, url, service)
  BY DEF InCatalog
<1> DEFINE OfService(v, s) ==
             Installed(v, UrlOf[s], s, EngineOf[s])
               \cup (IF EngineOf[s] = "hailo" THEN InCatalog(v, UrlOf[s], s) ELSE {})
<1>3. /\ x \notin Installed(after, Family(after).ollama, "ollama", "ollama")
      /\ x \notin Installed(after, Family(after).hailo, "hailo", "hailo")
      /\ \A s \in Services : x \notin Installed(after, UrlOf[s], s, EngineOf[s])
  BY DEF Listed
<1>4. CASE x \in Installed(up, Family(up).ollama, "ollama", "ollama")
  <2>1. Family(up).ollama = OllamaURL /\ OllamaURL \in up /\ x.model \in pulled[OllamaURL]
    BY <1>0, <1>1, <1>4, FamilyResult
  <2>2. CASE OllamaURL \notin after
    BY <2>1, <2>2 DEF Gone
  <2>3. CASE OllamaURL \in after
    <3>1. Family(after).ollama # OllamaURL
      BY <1>1, <1>3, <1>4, <2>1, <2>3
    <3> QED
      BY <2>1, <3>1, FamilyResult
  <2> QED
    BY <2>2, <2>3
<1>5. CASE x \in Installed(up, Family(up).hailo, "hailo", "hailo")
  <2> DEFINE url == Family(up).hailo
  <2>1. url \in up /\ x.model \in pulled[url] /\ (url \in after => url # Family(after).hailo)
    BY <1>1, <1>3, <1>5
  <2>2. url \in {OllamaURL, HailoURL} /\ HailoAt(up, url)
    BY <1>0, <2>1, FamilyResult
  <2>3. CASE url \notin after
    BY <2>1, <2>3 DEF Gone
  <2>4. CASE url \in after
    <3>1. HailoAt(after, url) /\ Family(after).hailo # url
      BY <2>1, <2>2, <2>4 DEF HailoAt
    <3>2. url = OllamaURL /\ url # HailoURL
      BY <2>2, <3>1, FamilyResult
    <3>3. Family(after).hailo = HailoURL /\ HailoAt(after, HailoURL)
      BY <3>1, <3>2 DEF Family
    <3>4. ~HailoAt(up, HailoURL) /\ Family(up).relabelled
      BY <3>2 DEF Family
    <3> QED
      BY <3>3, <3>4 DEF Came
  <2> QED
    BY <2>3, <2>4
<1>6. CASE \E s \in Services : x \in Installed(up, UrlOf[s], s, EngineOf[s])
  <2>1. PICK s \in Services : x \in Installed(up, UrlOf[s], s, EngineOf[s])
    BY <1>6
  <2>2. UrlOf[s] \in up /\ x.model \in pulled[UrlOf[s]] /\ UrlOf[s] \notin after
    BY <1>1, <1>3, <2>1
  <2> QED
    BY <2>2 DEF Gone
<1>7. \/ x \in Installed(up, Family(up).ollama, "ollama", "ollama")
      \/ x \in Installed(up, Family(up).hailo, "hailo", "hailo")
      \/ x \in InCatalog(up, Family(up).hailo, "hailo")
      \/ x \in UNION {OfService(up, s) : s \in Services}
  BY Zenon DEF Listed
<1>8. x \in UNION {OfService(up, s) : s \in Services} =>
        \E s \in Services : x \in Installed(up, UrlOf[s], s, EngineOf[s])
  <2>1. x \in UNION {OfService(up, s) : s \in Services} => \E s \in Services : x \in OfService(up, s)
    BY Zenon
  <2> QED
    BY <1>2, <2>1
<1> QED
  BY <1>2, <1>4, <1>5, <1>6, <1>7, <1>8

\* Accepted although the servers it may be on could be asked, a model is on the
\* server it is then asked of, but for what came between.
LEMMA StartupInstalled ==
  ASSUME ModelsAssumption, ModelsTypeOK, "elsewhere" \notin Happenings,
         NEW a, GoodAgent(a), NEW service \in ServiceNames \cup {Unnamed}, NEW m \in ModelNames,
         NEW after \in Left, NEW seen \in Seen(after),
         NEW r \in UseStartupModel(a, service, m, seen), r.ok,
         NEW z \in Listed(seen[Installing]), service \in {Unnamed, z.service}
  PROVE  \/ Tagged[m] \in pulled[r.agent.client.url]
         \/ Gone(Tagged[m], after) \/ Came(after)
         \/ Tagged[m] # m /\ r.agent.client.url = OllamaURL
<1> DEFINE url == r.agent.client.url
           Fine == \/ Tagged[m] \in pulled[url] \/ Gone(Tagged[m], after) \/ Came(after)
                   \/ Tagged[m] # m /\ url = OllamaURL
<1>0. /\ up \in SUBSET URLs /\ after \in SUBSET URLs /\ SeenOK(seen)
      /\ seen[Installing] = up
      /\ \A p \in 1 .. 5, q \in 1 .. 5 : p < q => seen[p] = seen[q] \/ (seen[p] = up /\ seen[q] = after)
      /\ seen[Naming] \in SUBSET URLs /\ seen[Finding] \in SUBSET URLs /\ seen[FindingHailo] \in SUBSET URLs
  <2>1. PICK n \in {2, 3, 4, 5, 6} : seen = [q \in 1 .. 5 |-> IF q < n THEN up ELSE after]
    BY DEF Seen
  <2>2. seen[1] = up /\ up \in SUBSET URLs
    BY <2>1 DEF ModelsTypeOK
  <2>3. /\ after \in SUBSET URLs /\ seen[2] \in SUBSET URLs /\ seen[3] \in SUBSET URLs /\ seen[4] \in SUBSET URLs
        /\ \A q \in 1 .. 5 : seen[q] \in SUBSET URLs
        /\ \A p \in 1 .. 5, q \in 1 .. 5 : p < q => seen[p] = seen[q] \/ (seen[p] = up /\ seen[q] = after)
    BY SeenResult
  <2> QED
    BY <2>2, <2>3 DEF SeenOK, Installing, Naming, Finding, FindingHailo
<1>1. /\ seen[Naming] = seen[FindingHailo] \/ (seen[Naming] = up /\ seen[FindingHailo] = after)
      /\ seen[Finding] = seen[FindingHailo] \/ (seen[Finding] = up /\ seen[FindingHailo] = after)
      /\ seen[Naming] = seen[Finding] \/ (seen[Naming] = up /\ seen[Finding] = after)
      /\ seen[Naming] # up => seen[Naming] = after /\ seen[FindingHailo] = after
  <2>1. /\ seen[2] = seen[4] \/ (seen[2] = up /\ seen[4] = after)
        /\ seen[3] = seen[4] \/ (seen[3] = up /\ seen[4] = after)
        /\ seen[2] = seen[3] \/ (seen[2] = up /\ seen[3] = after)
        /\ seen[1] = seen[2] \/ (seen[1] = up /\ seen[2] = after)
    BY <1>0
  <2> QED
    BY <1>0, <2>1 DEF Installing, Naming, Finding, FindingHailo
<1>2. r \notin Refused(a)
  BY RefusedResult
<1>3. ASSUME IsInstalled(service, m, seen[Installing])
      PROVE  \E x \in Listed(up) : service \in {Unnamed, x.service} /\ x.isPulled /\ x.model = Tagged[m]
  <2>1. PICK x \in Listed(up) : service \in {Unnamed, x.service} /\ x.isPulled /\ Tagged[x.model] = Tagged[m]
    BY <1>0, <1>3 DEF IsInstalled
  <2>2. x.model \in Whole
    BY <1>0, <2>1, ListedResult DEF ListedAt
  <2> QED
    BY <2>1, <2>2 DEF Whole
<1>4. Unnamed \notin Services /\ a \in Agents /\ LimitsInv(a)
  BY EnginesAre DEF GoodAgent
<1>5. CASE IsInstalled(service, m, seen[Installing]) /\ service \in Services /\ r \in SetServiceModel(a, service, m, seen)
  <2>1. PICK x \in Listed(up) : service \in {Unnamed, x.service} /\ x.isPulled /\ x.model = Tagged[m]
    BY <1>3, <1>5
  <2>2. x.service = service /\ ListedAt(x, up)
    BY <1>0, <1>4, <1>5, <2>1, ListedResult
  <2>3. Tagged[m] \in pulled[UrlOf[service]]
    BY <1>5, <2>1, <2>2 DEF ListedAt
  <2>4. Selected(r, service, UrlOf[service], m)
    BY <1>5, SetServiceModelResult
  <2> QED
    BY <2>3, <2>4 DEF Selected
<1>6. CASE IsInstalled(service, m, seen[Installing]) /\ service = "hailo" /\ r \in SetHailoModel(a, m, seen)
  <2>1. PICK x \in Listed(up) : service \in {Unnamed, x.service} /\ x.isPulled /\ x.model = Tagged[m]
    BY <1>3, <1>6
  <2>2. x.service = "hailo" /\ ListedAt(x, up)
    BY <1>0, <1>6, <2>1, ListedResult, EnginesAre
  <2>3. Tagged[m] \in pulled[Family(up).hailo] /\ Family(up).hailo # NoURL
    BY <2>1, <2>2 DEF ListedAt
  <2>4. /\ Selected(r, "hailo", Family(seen[FindingHailo]).hailo, m)
        /\ Family(seen[FindingHailo]).hailo # NoURL
    BY <1>0, <1>6, SetHailoModelResult
  <2>5. seen[FindingHailo] = up \/ seen[FindingHailo] = after
    BY <1>1
  <2>6. Tagged[m] \in pulled[Family(seen[FindingHailo]).hailo] \/ Gone(Tagged[m], after) \/ Came(after)
    BY <1>0, <2>3, <2>4, <2>5, FamilyMoves
  <2> QED
    BY <2>4, <2>6 DEF Selected
<1>7. CASE /\ IsInstalled(service, m, seen[Installing]) /\ service \notin Services /\ service # "hailo"
           /\ service = "ollama" \/ Matches(m, seen[Naming]) = {}
           /\ r \in SetOllamaModel(a, m, seen)
  <2>1. PICK x \in Listed(up) : service \in {Unnamed, x.service} /\ x.isPulled /\ x.model = Tagged[m]
    BY <1>3, <1>7
  <2>2. OfOllama(r, m, seen)
    BY <1>0, <1>4, <1>7, SetOllamaModelResult
  <2>3. url = OllamaURL \/ Came(after)
    BY <2>2, OllamaMoves
  <2>4. ListedAt(x, up)
    BY <1>0, <2>1, ListedResult
  <2>5. CASE service = "ollama"
    <3>1. x.service = "ollama"
      BY <2>1, <2>5, EnginesAre
    <3> QED
      BY <2>1, <2>3, <2>4, <3>1 DEF ListedAt
  <2>6. CASE service # "ollama"
    <3>1. Matches(m, seen[Naming]) = {}
      BY <1>7, <2>6
    <3>2. CASE Tagged[m] # m
      BY <2>3, <3>2
    <3>3. CASE Tagged[m] = m
      <4>1. x \notin Listed(seen[Naming])
        BY <2>1, <3>1, <3>3 DEF Matches
      <4>2. x \notin Listed(after)
        BY <1>1, <2>1, <4>1
      <4>3. Gone(Tagged[m], after) \/ Came(after) \/ Tagged[m] \in pulled[OllamaURL]
        BY <1>0, <2>1, <4>2, Vanished
      <4> QED
        BY <2>3, <4>3
    <3> QED
      BY <3>2, <3>3
  <2> QED
    BY <2>5, <2>6
<1>8. CASE /\ IsInstalled(service, m, seen[Installing])
           /\ \E y \in Choosable(Matches(m, seen[Naming])) : r \in ByEngine(a, y, seen)
  <2>1. PICK y \in Choosable(Matches(m, seen[Naming])) : r \in ByEngine(a, y, seen)
    BY <1>8
  <2>2. y \in Listed(seen[Naming]) /\ y.model = m
    BY <2>1, ChoosableAre DEF Matches
  <2>3. y \in Entries /\ ListedAt(y, seen[Naming])
    BY <1>0, <2>2, ListedResult
  <2>4. y.service = y.engine
    BY <2>1 DEF ByEngine
  <2>5. r \in IF y.engine = "hailo" THEN SetHailoModel(a, m, seen) ELSE SetOllamaModel(a, m, seen)
    BY <2>1, <2>2, <2>4 DEF ByEngine
  <2>6. y.engine \in {"hailo", "ollama"} /\ y.isPulled \in BOOLEAN
    BY <2>3 DEF Entries, Engines
  <2>7. m \in Whole /\ Tagged[m] = m
    BY <2>2, <2>3, <2>6 DEF ListedAt, Whole
  <2>8. CASE y.engine = "hailo" /\ y.isPulled
    <3>1. m \in pulled[Family(seen[Naming]).hailo] /\ Family(seen[Naming]).hailo # NoURL
      BY <2>2, <2>3, <2>4, <2>8 DEF ListedAt
    <3>2. /\ Selected(r, "hailo", Family(seen[FindingHailo]).hailo, m)
          /\ Family(seen[FindingHailo]).hailo # NoURL
      BY <1>0, <2>5, <2>8, SetHailoModelResult
    <3>3. m \in pulled[Family(seen[FindingHailo]).hailo] \/ Gone(m, after) \/ Came(after)
      BY <1>0, <1>1, <3>1, <3>2, FamilyMoves
    <3> QED
      BY <2>7, <3>2, <3>3 DEF Selected
  <2>9. CASE y.engine = "ollama"
    <3>1. m \in pulled[OllamaURL]
      BY <2>2, <2>3, <2>4, <2>9 DEF ListedAt
    <3>2. OfOllama(r, m, seen)
      BY <1>0, <1>4, <2>5, <2>9, SetOllamaModelResult
    <3>3. url = OllamaURL \/ Came(after)
      BY <3>2, OllamaMoves
    <3> QED
      BY <2>7, <3>1, <3>3
  <2>10. CASE y.engine = "hailo" /\ ~y.isPulled
    <3>1. \A x \in Matches(m, seen[Naming]) : ~x.isPulled
      BY <2>1, <2>10 DEF Choosable
    <3>2. PICK x \in Listed(up) : x.isPulled /\ x.model = m
      BY <1>3, <1>8, <2>7
    <3>3. x \notin Listed(seen[Naming])
      BY <3>1, <3>2 DEF Matches
    <3>4. seen[FindingHailo] = after /\ x \notin Listed(after)
      BY <1>1, <3>2, <3>3
    <3>5. \/ Gone(m, after) \/ Came(after)
          \/ Family(after).relabelled /\ m \in pulled[OllamaURL]
      BY <1>0, <3>2, <3>4, Vanished
    <3>6. Selected(r, "hailo", Family(after).hailo, m)
      BY <1>0, <2>5, <2>10, <3>4, SetHailoModelResult
    <3>7. Family(after).relabelled => Family(after).hailo = OllamaURL
      BY <1>0, FamilyResult
    <3> QED
      BY <2>7, <3>5, <3>6, <3>7 DEF Selected
  <2> QED
    BY <2>6, <2>8, <2>9, <2>10
<1> QED
  BY <1>2, <1>5, <1>6, <1>7, <1>8, StartupWays

\* An alias stands for a model, and may name an engine.
LEMMA AliasesForType ==
  ASSUME ModelsTypeOK, NEW w \in Words, NEW e \in AliasesFor(w)
  PROVE  e \in Aliases
<1>1. \A v \in Words : aliases[v] \in Aliases \cup {NoAlias}
  BY DEF ModelsTypeOK
<1>2. CASE aliases[w] # NoAlias
  BY <1>1, <1>2 DEF AliasesFor
<1>3. CASE aliases[w] = NoAlias
  <2>1. e \in {aliases[v] : v \in Words} \ {NoAlias}
    BY <1>3 DEF AliasesFor
  <2> QED
    BY <1>1, <2>1
<1> QED
  BY <1>2, <1>3

LEMMA ByAliasResult ==
  ASSUME ModelsAssumption, ModelsTypeOK, "alias" \notin Happenings,
         NEW a, GoodAgent(a), NEW e \in Aliases,
         NEW seen, SeenOK(seen), NEW r \in ByAlias(a, e, seen)
  PROVE  Outcome(a, r)
<1>0. e.model \in ModelNames /\ e.engine \in Engines \cup {Unnamed}
  BY DEF Aliases
<1>1. e.engine \notin Services
  BY <1>0, EnginesAre DEF Engines
<1>2. CASE e.engine = "hailo"
  <2>1. r \in SetHailoModel(a, e.model, seen)
    BY <1>1, <1>2 DEF ByAlias
  <2> QED
    BY <1>0, <2>1, SetHailoModelResult
<1>3. CASE e.engine # "hailo"
  <2> DEFINE b == UseServiceModelAt(a, "ollama", "ollama", OllamaURL, e.model)
  <2>1. r \in IF a.backend # NoBackend /\ a.backend.kind # "ollama" /\ "alias" \notin Happenings THEN {}
             ELSE Outcomes({b})
    BY <1>1, <1>3 DEF ByAlias
  <2>2. a.backend = NoBackend \/ a.backend.kind = "ollama"
    BY <2>1
  <2>3. r \in Outcomes({b})
    BY <2>1, <2>2
  <2>4. b \in Agents /\ Uses(b, a, "ollama", "ollama", OllamaURL, e.model)
    BY <1>0, EnginesAre, UseResult DEF GoodAgent
  <2> HIDE DEF b
  <2>5. r.agent = b /\ r.ok
    <3>1. r = [agent |-> b, ok |-> TRUE]
      BY <2>3 DEF Outcomes
    <3> QED
      BY <3>1
  <2>6. BackedBy("ollama", "ollama", b.backend) /\ ServedAt("ollama", OllamaURL)
    BY <2>2, <2>4, EnginesAre DEF Uses, BackedBy, ServedAt
  <2>7. b.client # NoClient
    BY <2>4, NothingAssumption DEF Uses
  <2>8. LimitsInv(b)
    BY <2>4 DEF Uses, GoodAgent, LimitsInv
  <2>9. ClientInv(b)
    BY <2>4, <2>6 DEF Uses, ClientInv
  <2> QED
    BY <2>4, <2>5, <2>7, <2>8, <2>9 DEF GoodAgent, Outcome
<1> QED
  BY <1>2, <1>3

\* Whatever a selection ends in, a client that was there is not lost.
Settles(a, r) == GoodAgent(r.agent) /\ (a.client # NoClient => r.agent.client # NoClient)

LEMMA OutcomeSettles ==
  ASSUME NEW a, NEW r, Outcome(a, r)
  PROVE  Settles(a, r)
BY DEF Outcome, Settles

LEMMA UseSelectedResult ==
  ASSUME ModelsAssumption, ModelsTypeOK, NEW a, GoodAgent(a), NEW x \in Entries,
         x.service \in Engines => x.engine = x.service,
         NEW seen, SeenOK(seen), NEW r \in UseSelected(a, x, seen)
  PROVE  /\ Settles(a, r)
         /\ x.service = "hailo" /\ x.isPulled /\ r.ok =>
              /\ Family(seen[FindingHailo]).hailo # NoURL
              /\ Selected(r, "hailo", Family(seen[FindingHailo]).hailo, x.model)
<1> DEFINE drops == a.backend # NoBackend /\ a.backend.kind # x.engine
           b == IF drops THEN [a EXCEPT !.backend = NoBackend] ELSE a
<1>0. x.service \in ServiceNames /\ x.model \in ModelNames /\ x.isPulled \in BOOLEAN
  BY DEF Entries
<1>1. /\ b \in Agents /\ b.client = a.client /\ b.model = a.model /\ b.caps = a.caps
      /\ b.backend = IF drops THEN NoBackend ELSE a.backend
  BY DEF GoodAgent, Agents
<1>2. UseSelected(a, x, seen) =
        CASE x.service \in Services /\ ~x.isPulled -> Refused(a)
          [] x.service \in Services /\ x.isPulled -> SetServiceModel(a, x.service, x.model, seen)
          [] x.service = "ollama" -> SetOllamaModel(b, x.model, seen)
          [] x.service = "hailo" /\ x.isPulled -> SetHailoModel(b, x.model, seen)
          [] OTHER -> Refused(b)
  BY DEF UseSelected
<1> HIDE DEF b
<1>3. LimitsInv(b)
  BY <1>1 DEF GoodAgent, LimitsInv
<1>4. "hailo" \notin Services /\ "ollama" \notin Services
  BY EnginesAre
<1>5. CASE x.service \in Services
  <2>1. x.service # "hailo"
    BY <1>4, <1>5
  <2>2. CASE x.isPulled
    <3>1. r \in SetServiceModel(a, x.service, x.model, seen)
      BY <1>2, <1>4, <1>5, <2>2
    <3> QED
      BY <1>0, <1>5, <2>1, <3>1, SetServiceModelResult, OutcomeSettles
  <2>3. CASE ~x.isPulled
    <3>1. r \in Refused(a)
      BY <1>2, <1>4, <1>5, <2>3
    <3> QED
      BY <2>3, <3>1, RefusedResult, OutcomeSettles
  <2> QED
    BY <2>2, <2>3
<1>6. CASE x.service = "ollama"
  <2>1. r \in SetOllamaModel(b, x.model, seen)
    BY <1>2, <1>4, <1>6
  <2>2. OfOllama(r, x.model, seen)
    BY <1>0, <1>1, <1>3, <2>1, SetOllamaModelResult
  <2>3. Outcome(a, r) /\ x.service # "hailo"
    BY <1>6, <2>2, OfOllamaOutcome
  <2> QED
    BY <2>3, OutcomeSettles
<1>7. CASE x.service = "hailo"
  <2>1. x.engine = "hailo"
    BY <1>7, EnginesAre
  <2>2. drops => a.backend \in Backends /\ a.backend.kind = "ollama"
    <3>1. a.backend \in Backends \cup {NoBackend}
      BY DEF GoodAgent, Agents
    <3> QED
      BY <2>1, <3>1 DEF Backends, Engines
  <2>3. ClientInv(b)
    BY <1>1, <2>2 DEF GoodAgent, ClientInv, BackedBy
  <2>4. GoodAgent(b)
    BY <1>1, <1>3, <2>3 DEF GoodAgent
  <2>5. CASE x.isPulled
    <3>1. r \in SetHailoModel(b, x.model, seen)
      BY <1>2, <1>4, <1>7, <2>5
    <3>2. /\ Outcome(b, r)
          /\ r.ok => /\ Family(seen[FindingHailo]).hailo # NoURL
                     /\ Selected(r, "hailo", Family(seen[FindingHailo]).hailo, x.model)
      BY <1>0, <1>7, <2>4, <3>1, SetHailoModelResult
    <3> QED
      BY <1>1, <3>2, OutcomeSettles DEF Settles
  <2>6. CASE ~x.isPulled
    <3>1. r \in Refused(b)
      BY <1>2, <1>4, <1>7, <2>6
    <3>2. r = [agent |-> b, ok |-> FALSE]
      BY <3>1 DEF Refused
    <3>3. r.agent = b
      BY <3>2
    <3> QED
      BY <1>1, <2>4, <2>6, <3>3 DEF Settles
  <2> QED
    BY <2>5, <2>6
<1> QED
  BY <1>0, <1>5, <1>6, <1>7 DEF ServiceNames, Engines

\* Two neighbours of a sequence are in it.
LEMMA TwoOfASequence ==
  ASSUME NEW k \in Nat, NEW i \in 1 .. k - 1
  PROVE  i \in 1 .. k /\ i + 1 \in 1 .. k
OBVIOUS

\* What a step gives back is what was in use before it.
LEMMA RestoredResult ==
  ASSUME ModelsAssumption, NEW a, GoodAgent(a), NEW was \in Loans, was.switched,
         ServedAt(was.service, was.url), BackedBy(was.service, was.engine, was.backend)
  PROVE  /\ GoodAgent(Restored(a, was)) /\ Restored(a, was).client # NoClient
         /\ Restored(a, was).client.service = was.service /\ Restored(a, was).client.model = was.model
<1> DEFINE b == UseServiceModelAt(a, was.service, was.engine, was.url, was.model)
           c == [b EXCEPT !.backend = was.backend]
<1>1. /\ was.service \in ServiceNames /\ was.engine \in Engines /\ was.url \in URLs
      /\ was.model \in ModelNames /\ was.backend \in Backends \cup {NoBackend}
  BY DEF Loans
<1>2. b \in Agents /\ Uses(b, a, was.service, was.engine, was.url, was.model)
  BY <1>1, UseResult DEF GoodAgent
<1>3. Restored(a, was) = c
  BY DEF Restored
<1> HIDE DEF b
<1>4. /\ c \in Agents /\ c.client = b.client /\ c.model = b.model /\ c.caps = b.caps
      /\ c.backend = was.backend
  BY <1>1, <1>2 DEF Agents
<1> HIDE DEF c
<1>5. c.client # NoClient
  BY <1>2, <1>4, NothingAssumption DEF Uses
<1>6. LimitsInv(c)
  BY <1>2, <1>4 DEF Uses, GoodAgent, LimitsInv
<1>7. ClientInv(c)
  BY <1>2, <1>4 DEF Uses, ClientInv
<1> QED
  BY <1>2, <1>3, <1>4, <1>5, <1>6, <1>7 DEF GoodAgent, Uses

-----------------------------------------------------------------------------
(* Every step keeps the invariant.                                         *)

Counters == [commands : Nat, settings : Nat, refusals : Nat, outages : Nat]

LEMMA CounterType ==
  ASSUME NEW s \in Counters
  PROVE  /\ [s EXCEPT !.commands = @ + 1] \in Counters
         /\ [s EXCEPT !.refusals = @ + 1] \in Counters
         /\ [s EXCEPT !.outages = @ + 1] \in Counters
BY DEF Counters

LEMMA CountersAre ==
  ASSUME ModelsTypeOK, Given \/ IsSet
  PROVE  spent' \in Counters
<1>1. spent \in Counters
  BY DEF ModelsTypeOK, Counters
<1>2. CASE Given
  BY <1>1, <1>2 DEF Given, Counters
<1>3. CASE IsSet
  <2> DEFINE given == [spent EXCEPT !.commands = @ + 1]
  <2>1. given \in Counters
    BY <1>1 DEF Counters
  <2>2. spent' = [given EXCEPT !.settings = @ + 1]
    BY <1>3 DEF IsSet
  <2> HIDE DEF given
  <2> QED
    BY <2>1, <2>2 DEF Counters
<1> QED
  BY <1>2, <1>3

\* With no step under way nothing is to be given back.
LEMMA NoLoans ==
  ASSUME lent' = <<>>
  PROVE  LoansInv'
<1>1. \A n \in Int : n < 1 => \A i \in 1 .. n : FALSE
  OBVIOUS
<1>2. Len(lent') = 0
  OBVIOUS
<1>3. /\ \A i \in 1 .. Len(lent') : FALSE
      /\ \A i \in 1 .. Len(lent') - 1 : FALSE
  <2> DEFINE n == Len(lent')
  <2>1. n \in Int /\ n < 1 /\ n - 1 \in Int /\ n - 1 < 1
    BY <1>2
  <2> HIDE DEF n
  <2>2. (\A i \in 1 .. n : FALSE) /\ (\A i \in 1 .. n - 1 : FALSE)
    BY <1>1, <2>1
  <2> QED
    BY <2>2 DEF n
<1> QED
  BY <1>3 DEF LoansInv

\* Only what each server really is, which never changes, is read of the servers.
LEMMA GoodAgentNext ==
  ASSUME kindAt' = kindAt, GoodAgent(agent')
  PROVE  GoodAgent(agent)'
<1>1. ASSUME NEW k \in Keys
      PROVE  ServersOf(k)' = ServersOf(k)
  BY Zenon DEF ServersOf
<1>2. LimitsInv(agent)'
  BY <1>1 DEF GoodAgent, LimitsInv
<1>3. ClientInv(agent)'
  BY DEF GoodAgent, ClientInv, ServedAt, BackedBy
<1> QED
  BY <1>2, <1>3 DEF GoodAgent

\* The types of a step that selects.
TypesNext ==
  /\ up' \subseteq URLs /\ kindAt' = kindAt
  /\ pulled' \in [URLs -> SUBSET Whole]
  /\ aliases' \in [Words -> Aliases \cup {NoAlias}]
  /\ started' \in Startings
  /\ spent' \in Counters

\* The model in use, by the key it is remembered under.
InUse(a) == IF a.client = NoClient THEN NoModel ELSE ModelKey(a, a.client.model)
KeptOf(l) == [i \in DOMAIN l |-> Key(l[i].service, l[i].model)]

ChoiceStep == [Choice!Next]_(Choice!vars)

LEMMA KeyOfAgent ==
  ASSUME ModelsAssumption, NEW a, GoodAgent(a), a.client # NoClient
  PROVE  InUse(a) = Key(a.client.service, a.client.model) /\ InUse(a) \in Keys
<1>1. a.client \in Clients
  BY DEF GoodAgent, Agents
<1>2. a.client.model \in ModelNames
  BY <1>1 DEF Clients
<1> QED
  BY <1>2, KeyNamesService, ModelKeyType DEF GoodAgent, ClientInv, InUse

\* A step of Models, in the terms of ModelChoice.
LEMMA StepChooses ==
  ASSUME NEW c \in Keys, lent = <<>>, lent' = lent, InUse(agent') = c
  PROVE  ChoiceStep
<1>1. KeptOf(lent) = <<>>
  BY DEF KeptOf
<1>2. Choice!Choose(c)
  BY <1>1 DEF Choice!Choose, InUse, KeptOf, ModelKey, ActiveService, Key
<1> QED
  BY <1>2 DEF ChoiceStep, Choice!Next

LEMMA StepStutters ==
  ASSUME lent' = lent, InUse(agent') = InUse(agent)
  PROVE  ChoiceStep
BY DEF ChoiceStep, Choice!vars, InUse, KeptOf, ModelKey, ActiveService, Key

LEMMA StepLends ==
  ASSUME NEW c \in Keys, InUse(agent') = c, InUse(agent) # NoModel, Len(KeptOf(lent)) < Depth,
         KeptOf(lent') = Append(KeptOf(lent), InUse(agent))
  PROVE  ChoiceStep
<1>1. Choice!Lend(c)
  BY DEF Choice!Lend, InUse, KeptOf, ModelKey, ActiveService, Key
<1> QED
  BY <1>1 DEF ChoiceStep, Choice!Next

LEMMA StepGivesBack ==
  ASSUME KeptOf(lent) # <<>>, InUse(agent') = KeptOf(lent)[Len(KeptOf(lent))],
         KeptOf(lent') = SubSeq(KeptOf(lent), 1, Len(KeptOf(lent)) - 1)
  PROVE  ChoiceStep
<1>1. Choice!GiveBack
  BY DEF Choice!GiveBack, InUse, KeptOf, ModelKey, ActiveService, Key
<1> QED
  BY <1>1 DEF ChoiceStep, Choice!Next

LEMMA StepRestarts ==
  ASSUME InUse(agent') = NoModel, lent' = <<>>
  PROVE  ChoiceStep
<1>1. KeptOf(lent') = <<>>
  BY DEF KeptOf
<1>2. Choice!Restart
  BY <1>1 DEF Choice!Restart, InUse, KeptOf, ModelKey, ActiveService, Key
<1> QED
  BY <1>2 DEF ChoiceStep, Choice!Next

\* Between steps a command may select anything, and lends nothing.
LEMMA CommandKeeps ==
  ASSUME ModelsAssumption, ModelsInv, TypesNext, lent = <<>>, lent' = lent,
         GoodAgent(agent'), agent.client # NoClient => agent'.client # NoClient
  PROVE  ModelsInv' /\ ChoiceStep
<1>1. ModelsTypeOK'
  BY DEF ModelsInv, ModelsTypeOK, TypesNext, GoodAgent, Counters
<1>2. GoodAgent(agent)'
  BY GoodAgentNext DEF TypesNext
<1>3. LoansInv'
  <2>1. lent' = <<>> /\ Len(lent') = 0
    OBVIOUS
  <2> QED
    BY <2>1, NoLoans
<1>4. ChoiceStep
  <2>1. CASE agent'.client # NoClient
    BY <2>1, KeyOfAgent, StepChooses
  <2>2. CASE agent'.client = NoClient
    BY <2>2, StepStutters DEF InUse
  <2> QED
    BY <2>1, <2>2
<1> QED
  BY <1>1, <1>2, <1>3, <1>4 DEF ModelsInv

\* Outside the choice, nothing changes what is lent, or what is in use.
LEMMA BesidesKeeps ==
  ASSUME ModelsAssumption, ModelsInv, TypesNext, UNCHANGED lent,
         GoodAgent(agent'), SameSelection(agent, agent')
  PROVE  ModelsInv' /\ ChoiceStep
<1>1. ModelsTypeOK'
  BY DEF ModelsInv, ModelsTypeOK, TypesNext, GoodAgent, Counters
<1>2. GoodAgent(agent)'
  BY GoodAgentNext DEF TypesNext
<1>3. LoansInv'
  <2>1. lent' = lent /\ kindAt' = kindAt /\ agent'.client = agent.client
    BY DEF SameSelection, TypesNext
  <2>2. /\ \A i \in 1 .. Len(lent) : BackedBy(lent[i].service, lent[i].engine, lent[i].backend)
        /\ \A i \in 1 .. Len(lent) : ServedAt(lent[i].service, lent[i].url)
    BY DEF ModelsInv, LoansInv
  <2>3. \A i \in 1 .. Len(lent) : ServedAt(lent[i].service, lent[i].url)'
    BY <2>1, <2>2 DEF ServedAt
  <2>4. \A i \in 1 .. Len(lent) : BackedBy(lent[i].service, lent[i].engine, lent[i].backend)'
    BY <2>1, <2>2 DEF BackedBy
  <2> QED
    BY <2>1, <2>3, <2>4 DEF ModelsInv, LoansInv
<1>4. ChoiceStep
  BY StepStutters DEF InUse, SameSelection, ModelKey, ActiveService
<1> QED
  BY <1>1, <1>2, <1>3, <1>4 DEF ModelsInv

LEMMA MovedType ==
  ASSUME NEW as \in [Words -> Aliases \cup {NoAlias}]
  PROVE  Moved(as) \in [Words -> Aliases \cup {NoAlias}]
<1>1. ASSUME NEW e \in Aliases
      PROVE  [e EXCEPT !.engine = "hailo"] \in Aliases
  BY DEF Aliases, Engines
<1>2. \A w \in Words : as[w] \in Aliases \cup {NoAlias}
  OBVIOUS
<1> QED
  BY <1>1, <1>2 DEF Moved

LEMMA NotedType ==
  ASSUME NEW m \in ModelNames, NEW service, NEW v, spent.commands \in Nat, Noted(m, service, v)
  PROVE  started' \in Startings
<1>1. (\E x \in Listed(v) : service \in {Unnamed, x.service}) \in BOOLEAN
  BY Zenon
<1> DEFINE listed == \E x \in Listed(v) : service \in {Unnamed, x.service}
<1>2. started' = [model |-> m, listed |-> listed, nth |-> spent.commands + 1]
  BY DEF Noted
<1> HIDE DEF listed
<1> QED
  BY <1>1, <1>2 DEF listed, Startings

\* What a command leaves alone keeps its type.
LEMMA CommandTypes ==
  ASSUME ModelsInv, spent' \in Counters, kindAt' = kindAt, up' \subseteq URLs,
         UNCHANGED pulled \/ pulled' \in [URLs -> SUBSET Whole],
         UNCHANGED aliases \/ aliases' \in [Words -> Aliases \cup {NoAlias}],
         UNCHANGED started \/ started' \in Startings
  PROVE  TypesNext
BY DEF TypesNext, ModelsInv, ModelsTypeOK

\* A command that selects is counted, and so is a server that goes.
LEMMA LeavesResult ==
  ASSUME ModelsAssumption, ModelsTypeOK, NEW after \in Left, Leaves(after)
  PROVE  spent' \in Counters /\ kindAt' = kindAt /\ up' = after /\ up' \subseteq URLs
<1>1. spent \in Counters /\ after \subseteq URLs
  BY DEF ModelsTypeOK, Counters, Left
<1> DEFINE given == [spent EXCEPT !.commands = @ + 1]
           k == IF up \subseteq after THEN spent.outages ELSE spent.outages + 1
<1>2. spent' = [given EXCEPT !.outages = k] /\ up' = after /\ kindAt' = kindAt
  BY <1>1 DEF Leaves, Counters
<1>3. given \in Counters /\ k \in Nat
  BY <1>1 DEF Counters
<1> HIDE DEF given, k
<1> QED
  BY <1>1, <1>2, <1>3 DEF Counters

\* A setting or a pull is counted, and no server is asked.
LEMMA CountedResult ==
  ASSUME ModelsTypeOK, Given \/ IsSet, UNCHANGED <<up, kindAt>>
  PROVE  spent' \in Counters /\ kindAt' = kindAt /\ up' \subseteq URLs
BY CountersAre DEF ModelsTypeOK

\* A server that stops or starts changes nothing Harvey keeps.
LEMMA OutageKeeps ==
  ASSUME ModelsAssumption, ModelsInv, NEW u \in URLs, Stops(u) \/ Starts(u)
  PROVE  ModelsInv' /\ ChoiceStep
<1>1. /\ UNCHANGED <<kindAt, pulled, aliases, agent, lent, started>>
      /\ up' \subseteq up \cup {u}
      /\ spent' = spent \/ spent' = [spent EXCEPT !.outages = @ + 1]
  BY DEF Stops, Starts
<1>2. spent \in Counters /\ GoodAgent(agent)
  BY DEF ModelsInv, ModelsTypeOK, Counters
<1>3. spent' \in Counters
  <2>1. [spent EXCEPT !.outages = @ + 1] \in Counters
    BY <1>2, CounterType
  <2> QED
    BY <1>1, <1>2, <2>1
<1>4. TypesNext
  BY <1>1, <1>3 DEF TypesNext, ModelsInv, ModelsTypeOK
<1>5. SameSelection(agent, agent')
  BY <1>1 DEF SameSelection
<1>6. GoodAgent(agent')
  BY <1>1, <1>2
<1> QED
  BY <1>1, <1>4, <1>5, <1>6, BesidesKeeps

LEMMA StartPickingKeeps ==
  ASSUME ModelsAssumption, ModelsInv, StartPicking
  PROVE  ModelsInv' /\ ChoiceStep
<1>1. ModelsTypeOK /\ GoodAgent(agent)
  BY DEF ModelsInv
<1>0. PICK after \in Left : \E seen \in Seen(after) :
        /\ IF \E x \in Listed(up) : x.engine = "hailo"
           THEN \E x \in Listed(up) : x.isPulled /\ Takes(ByEngine(agent, x, seen))
           ELSE \E x \in Installed(up, OllamaURL, "ollama", "ollama") :
                  Takes(SetOllamaModel(agent, x.model, seen))
        /\ Leaves(after)
  BY DEF StartPicking
<1>a. PICK seen \in Seen(after) :
         \/ \E x \in Listed(up) : Takes(ByEngine(agent, x, seen))
         \/ \E x \in Installed(up, OllamaURL, "ollama", "ollama") : Takes(SetOllamaModel(agent, x.model, seen))
  BY <1>0
<1>b. SeenOK(seen) /\ up \in SUBSET URLs /\ agent \in Agents /\ LimitsInv(agent)
  BY <1>1, SeenResult DEF SeenOK, ModelsTypeOK, GoodAgent
<1>2. \E r : Outcome(agent, r) /\ agent' = r.agent
  <2>1. CASE \E x \in Listed(up) : Takes(ByEngine(agent, x, seen))
    <3>1. PICK x \in Listed(up) : \E r \in ByEngine(agent, x, seen) : agent' = r.agent
      BY <2>1 DEF Takes
    <3> QED
      BY <1>1, <1>b, <3>1, ByEngineResult
  <2>2. CASE \E x \in Installed(up, OllamaURL, "ollama", "ollama") : Takes(SetOllamaModel(agent, x.model, seen))
    <3>1. PICK x \in Installed(up, OllamaURL, "ollama", "ollama") :
            \E r \in SetOllamaModel(agent, x.model, seen) : agent' = r.agent
      BY <2>2 DEF Takes
    <3>2. OllamaURL \in up /\ OllamaURL \in URLs
      BY <3>1, EnginesAre DEF Installed
    <3>3. PICK n \in pulled[OllamaURL] :
            x = [model |-> n, service |-> "ollama", engine |-> "ollama", isPulled |-> TRUE]
      BY <3>1, <3>2 DEF Installed
    <3>4. x.model \in ModelNames
      BY <1>1, <3>2, <3>3 DEF ModelsTypeOK, Whole
    <3> QED
      BY <1>1, <1>b, <3>1, <3>4, SetOllamaModelResult, OfOllamaOutcome
  <2>3. (\E x \in Listed(up) : Takes(ByEngine(agent, x, seen)))
           \/ \E x \in Installed(up, OllamaURL, "ollama", "ollama") : Takes(SetOllamaModel(agent, x.model, seen))
    BY <1>a
  <2> QED
    BY <2>1, <2>2, <2>3
<1>3. lent = <<>> /\ lent' = lent /\ agent.client = NoClient
  BY DEF StartPicking, Command
<1>4. GoodAgent(agent')
  BY <1>2 DEF Outcome
<1>5. aliases' = aliases \/ aliases' = Moved(aliases)
  BY DEF StartPicking
<1>6. UNCHANGED aliases \/ aliases' \in [Words -> Aliases \cup {NoAlias}]
  <2>1. aliases \in [Words -> Aliases \cup {NoAlias}]
    BY <1>1 DEF ModelsTypeOK
  <2> QED
    BY <1>5, <2>1, MovedType
<1>7. /\ spent' \in Counters /\ kindAt' = kindAt /\ up' \subseteq URLs
      /\ UNCHANGED <<pulled, started>>
  BY <1>0, <1>1, LeavesResult DEF StartPicking
<1>8. TypesNext
  BY <1>6, <1>7, CommandTypes
<1> QED
  BY <1>3, <1>4, <1>8, CommandKeeps

\* StartsWhereInstalled, of a step.
WhereInstalled ==
  (started' # started /\ started'.listed) =>
    LET m == Tagged[started'.model]
    IN \/ m \in pulled'[agent'.client.url]
       \/ \E u \in up \ up' : m \in pulled[u]
       \/ HailoCame
       \/ started'.model # m /\ agent'.client.url = OllamaURL

LEMMA InstalledThen ==
  ASSUME ModelsAssumption, ModelsInv, "elsewhere" \notin Happenings,
         NEW service \in ServiceNames \cup {Unnamed}, NEW m \in ModelNames,
         NEW after \in Left, NEW seen \in Seen(after), Leaves(after), pulled' = pulled,
         NEW r \in UseStartupModel(agent, service, m, seen), r.ok, agent' = r.agent,
         Noted(m, service, seen[Installing])
  PROVE  WhereInstalled
<1>1. CASE \A z \in Listed(seen[Installing]) : service \notin {Unnamed, z.service}
  <2>1. ~started'.listed
    BY <1>1 DEF Noted
  <2> QED
    BY <2>1 DEF WhereInstalled
<1>2. CASE \E z \in Listed(seen[Installing]) : service \in {Unnamed, z.service}
  <2>1. PICK z \in Listed(seen[Installing]) : service \in {Unnamed, z.service}
    BY <1>2
  <2>2. ModelsTypeOK /\ GoodAgent(agent)
    BY DEF ModelsInv
  <2>3. \/ Tagged[m] \in pulled[r.agent.client.url]
        \/ Gone(Tagged[m], after) \/ Came(after)
        \/ Tagged[m] # m /\ r.agent.client.url = OllamaURL
    BY <2>1, <2>2, StartupInstalled
  <2>4. started'.model = m
    BY DEF Noted
  <2>5. up' = after
    BY DEF Leaves
  <2> QED
    BY <2>3, <2>4, <2>5 DEF WhereInstalled, Gone, Came, HailoCame
<1> QED
  BY <1>1, <1>2

LEMMA StartWithKeeps ==
  ASSUME ModelsAssumption, ModelsInv, NEW service \in ServiceNames \cup {Unnamed}, NEW m \in ModelNames,
         StartWith(service, m)
  PROVE  ModelsInv' /\ ChoiceStep /\ ("elsewhere" \notin Happenings => WhereInstalled)
<1>1. ModelsTypeOK /\ GoodAgent(agent) /\ spent.commands \in Nat
  BY DEF ModelsInv, ModelsTypeOK
<1>2. PICK after, seen :
        /\ after \in Left /\ seen \in Seen(after)
        /\ \E r \in UseStartupModel(agent, service, m, seen) :
             /\ agent' = r.agent
             /\ IF r.ok THEN Noted(m, service, seen[Installing]) ELSE UNCHANGED started
        /\ Leaves(after)
  BY DEF StartWith
<1>3. PICK r \in UseStartupModel(agent, service, m, seen) :
        agent' = r.agent /\ IF r.ok THEN Noted(m, service, seen[Installing]) ELSE UNCHANGED started
  BY <1>2
<1>4. lent = <<>> /\ lent' = lent /\ agent.client = NoClient /\ pulled' = pulled
  BY DEF StartWith, Command
<1>5. SeenOK(seen)
  BY <1>1, <1>2, SeenResult DEF SeenOK
<1>6. Outcome(agent, r)
  BY <1>1, <1>5, UseStartupModelResult
<1>7. GoodAgent(agent')
  BY <1>3, <1>6 DEF Outcome
<1>8. aliases' = aliases \/ aliases' = Moved(aliases)
  BY DEF StartWith
<1>9. UNCHANGED aliases \/ aliases' \in [Words -> Aliases \cup {NoAlias}]
  <2>1. aliases \in [Words -> Aliases \cup {NoAlias}]
    BY <1>1 DEF ModelsTypeOK
  <2> QED
    BY <1>8, <2>1, MovedType
<1>10. UNCHANGED started \/ started' \in Startings
  BY <1>1, <1>3, NotedType
<1>11. spent' \in Counters /\ kindAt' = kindAt /\ up' \subseteq URLs
  BY <1>1, <1>2, LeavesResult
<1>12. TypesNext
  BY <1>4, <1>9, <1>10, <1>11, CommandTypes
<1>13. ASSUME "elsewhere" \notin Happenings
       PROVE  WhereInstalled
  <2>1. CASE r.ok
    BY <1>2, <1>3, <1>4, <1>13, <2>1, InstalledThen
  <2>2. CASE ~r.ok
    BY <1>3, <2>2 DEF WhereInstalled
  <2> QED
    BY <2>1, <2>2
<1> QED
  BY <1>4, <1>7, <1>12, <1>13, CommandKeeps

\* A selection among the listed models.
LEMMA ListedSettles ==
  ASSUME ModelsAssumption, ModelsInv, NEW x \in Listed(up),
         NEW after \in Left, NEW seen \in Seen(after), NEW r \in UseSelected(agent, x, seen)
  PROVE  Settles(agent, r)
<1>1. ModelsTypeOK /\ GoodAgent(agent)
  BY DEF ModelsInv
<1>2. x \in Entries /\ ListedAt(x, up) /\ SeenOK(seen)
  BY <1>1, ListedResult, SeenResult DEF SeenOK, ModelsTypeOK
<1> QED
  BY <1>1, <1>2, UseSelectedResult DEF ListedAt

LEMMA ModelUseKeeps ==
  ASSUME ModelsAssumption, ModelsInv, "alias" \notin Happenings, NEW w \in Words, ModelUse(w)
  PROVE  ModelsInv' /\ ChoiceStep
<1>1. ModelsTypeOK /\ GoodAgent(agent)
  BY DEF ModelsInv
<1>a. PICK after, seen :
        /\ after \in Left /\ seen \in Seen(after)
        /\ IF AliasesFor(w) # {} THEN \E e \in AliasesFor(w) : Takes(ByAlias(agent, e, seen))
           ELSE \E x \in Matches(w, up) : Takes(UseSelected(agent, x, seen))
        /\ Leaves(after)
  BY DEF ModelUse
<1>b. SeenOK(seen)
  BY <1>1, <1>a, SeenResult DEF SeenOK
<1>2. \E r : Settles(agent, r) /\ agent' = r.agent
  <2>1. CASE \E e \in AliasesFor(w) : Takes(ByAlias(agent, e, seen))
    <3>1. PICK e \in AliasesFor(w) : \E r \in ByAlias(agent, e, seen) : agent' = r.agent
      BY <2>1 DEF Takes
    <3>2. e \in Aliases
      BY <1>1, AliasesForType
    <3> QED
      BY <1>1, <1>b, <3>1, <3>2, ByAliasResult, OutcomeSettles
  <2>2. CASE \E x \in Matches(w, up) : Takes(UseSelected(agent, x, seen))
    <3>1. PICK x \in Matches(w, up) : \E r \in UseSelected(agent, x, seen) : agent' = r.agent
      BY <2>2 DEF Takes
    <3>2. x \in Listed(up)
      BY DEF Matches
    <3> QED
      BY <1>a, <3>1, <3>2, ListedSettles
  <2> QED
    BY <1>a, <2>1, <2>2
<1>3. /\ lent = <<>> /\ lent' = lent /\ UNCHANGED <<pulled, aliases, started>>
      /\ spent' \in Counters /\ kindAt' = kindAt /\ up' \subseteq URLs
  BY <1>1, <1>a, LeavesResult DEF ModelUse, Command
<1>4. TypesNext
  BY <1>3, CommandTypes
<1> QED
  BY <1>2, <1>3, <1>4, CommandKeeps DEF Settles

LEMMA PulledType ==
  ASSUME ModelsTypeOK, NEW u \in URLs, NEW m \in Whole, Pulls(u, m)
  PROVE  pulled' \in [URLs -> SUBSET Whole]
<1>1. pulled \in [URLs -> SUBSET Whole]
  BY DEF ModelsTypeOK
<1>2. pulled[u] \cup {m} \in SUBSET Whole
  BY <1>1
<1> QED
  BY <1>1, <1>2 DEF Pulls

\* A model that is pulled and then used; the pull may fail.
LEMMA PullAndUseKeeps ==
  ASSUME ModelsAssumption, ModelsInv, NEW x \in Listed(up), PullAndUse(x)
  PROVE  ModelsInv' /\ ChoiceStep
<1> DEFINE y == [x EXCEPT !.isPulled = TRUE]
           url == Family(up).hailo
<1>1. ModelsTypeOK /\ GoodAgent(agent) /\ kindAt \in [URLs -> Engines] /\ up \in SUBSET URLs
  BY DEF ModelsInv, ModelsTypeOK
<1>2. x \in Entries /\ ListedAt(x, up)
  BY <1>1, ListedResult
<1>3. /\ x.service = "hailo" /\ ~x.isPulled /\ lent = <<>> /\ lent' = lent
      /\ UNCHANGED <<aliases, started>>
  BY DEF PullAndUse, Command
<1>4. /\ url # NoURL /\ x.engine = "hailo" /\ x.model \in ModelNames /\ x.model \in Whole
      /\ url \in URLs
  BY <1>1, <1>2, <1>3, FamilyResult, EnginesAre DEF ListedAt, Entries
<1>5. y \in Entries /\ y.service = "hailo" /\ y.engine = "hailo" /\ y.isPulled /\ y.model = x.model
  BY <1>2, <1>3, <1>4 DEF Entries
<1>6. PICK after, seen :
        /\ after \in Left /\ seen \in Seen(after)
        /\ \/ /\ Pulls(url, x.model)
              /\ \E r \in UseSelected(agent, y, seen) :
                   \/ agent' = r.agent
                   \/ /\ r.ok /\ url \in seen[Probing]
                      /\ Family(seen[FindingHailo]).hailo = url
                      /\ agent' = WithProbe(r.agent, url, x.model)
           \/ Pulls(url, x.model) /\ Takes(UseSelected(agent, x, seen))
           \/ Takes(UseSelected(agent, x, seen)) /\ UNCHANGED pulled
        /\ Leaves(after)
  BY DEF PullAndUse
<1> HIDE DEF y, url
<1>7. SeenOK(seen)
  BY <1>1, <1>6, SeenResult DEF SeenOK
<1>8. GoodAgent(agent') /\ (agent.client # NoClient => agent'.client # NoClient)
  <2>1. CASE Takes(UseSelected(agent, x, seen))
    <3>1. PICK r \in UseSelected(agent, x, seen) : agent' = r.agent
      BY <2>1 DEF Takes
    <3> QED
      BY <1>6, <3>1, ListedSettles DEF Settles
  <2>2. CASE \E r \in UseSelected(agent, y, seen) :
               \/ agent' = r.agent
               \/ /\ r.ok /\ Family(seen[FindingHailo]).hailo = url
                  /\ agent' = WithProbe(r.agent, url, x.model)
    <3>1. PICK r \in UseSelected(agent, y, seen) :
            \/ agent' = r.agent
            \/ /\ r.ok /\ Family(seen[FindingHailo]).hailo = url
               /\ agent' = WithProbe(r.agent, url, x.model)
      BY <2>2
    <3>2. /\ Settles(agent, r)
          /\ r.ok => Selected(r, "hailo", Family(seen[FindingHailo]).hailo, x.model)
      BY <1>1, <1>5, <1>7, <3>1, UseSelectedResult, EnginesAre
    <3>3. CASE agent' = r.agent
      BY <3>2, <3>3 DEF Settles
    <3>4. CASE /\ r.ok /\ Family(seen[FindingHailo]).hailo = url
               /\ agent' = WithProbe(r.agent, url, x.model)
      <4>1. GoodAgent(r.agent) /\ r.agent \in Agents /\ Selected(r, "hailo", url, x.model)
        BY <3>2, <3>4 DEF Selected, GoodAgent
      <4>2. GoodAgent(agent') /\ Probes(agent', r.agent, url, x.model)
        BY <1>1, <1>4, <3>4, <4>1, WithProbeResult DEF Selected
      <4> QED
        BY <4>2 DEF Probes
    <3> QED
      BY <3>1, <3>3, <3>4
  <2> QED
    BY <1>6, <2>1, <2>2
<1>9. UNCHANGED pulled \/ pulled' \in [URLs -> SUBSET Whole]
  BY <1>1, <1>4, <1>6, PulledType
<1>10. spent' \in Counters /\ kindAt' = kindAt /\ up' \subseteq URLs
  BY <1>1, <1>6, LeavesResult
<1>11. TypesNext
  BY <1>3, <1>9, <1>10, CommandTypes
<1> QED
  BY <1>3, <1>8, <1>11, CommandKeeps

\* The commands that select nothing, and leave the agent alone.
LEMMA ElsewhereKeeps ==
  ASSUME ModelsAssumption, ModelsInv,
         \/ \E m \in ModelNames : ModelPull(m)
         \/ \E k \in Named : SetAlias(k.word, k.model)
         \/ \E w \in Words : RemoveAlias(w)
         \/ ModelClean
  PROVE  ModelsInv' /\ ChoiceStep
<1>1. ModelsTypeOK /\ GoodAgent(agent)
  BY DEF ModelsInv
<1>b. up \in SUBSET URLs
  BY <1>1 DEF ModelsTypeOK
<1>2. /\ lent = <<>> /\ lent' = lent /\ agent' = agent /\ (Given \/ IsSet)
      /\ UNCHANGED <<up, kindAt, started>>
  BY DEF ModelPull, SetAlias, RemoveAlias, ModelClean, Setting, Command, world
<1>3. UNCHANGED pulled \/ pulled' \in [URLs -> SUBSET Whole]
  <2>1. CASE \E m \in ModelNames : ModelPull(m)
    <3>0. PICK m \in ModelNames : ModelPull(m)
      BY <2>1
    <3>1. Family(up).hailo \in URLs /\ Pulls(Family(up).hailo, m)
      BY <1>b, <3>0, FamilyResult, EnginesAre DEF ModelPull
    <3>2. PICK x \in Listed(up) : x.model = m /\ ~x.isPulled
      BY <3>0 DEF ModelPull
    <3>3. m \in Whole
      BY <1>1, <1>b, <3>2, ListedResult DEF ListedAt
    <3> QED
      BY <1>1, <3>1, <3>3, PulledType
  <2>2. CASE (\E k \in Named : SetAlias(k.word, k.model)) \/ (\E w \in Words : RemoveAlias(w)) \/ ModelClean
    BY <2>2 DEF SetAlias, RemoveAlias, ModelClean, world
  <2> QED
    BY <2>1, <2>2
<1>4. UNCHANGED aliases \/ aliases' \in [Words -> Aliases \cup {NoAlias}]
  <2>0. aliases \in [Words -> Aliases \cup {NoAlias}]
    BY <1>1 DEF ModelsTypeOK
  <2>1. CASE \E m \in ModelNames : ModelPull(m)
    BY <2>1 DEF ModelPull
  <2>2. CASE \E k \in Named : SetAlias(k.word, k.model)
    <3>0. PICK k \in Named : SetAlias(k.word, k.model)
      BY <2>2
    <3>1. [model |-> k.model, engine |-> Unnamed] \in Aliases
      BY DEF Aliases, ModelsAssumption
    <3> QED
      BY <2>0, <3>0, <3>1 DEF SetAlias
  <2>3. CASE \E w \in Words : RemoveAlias(w)
    BY <2>0, <2>3 DEF RemoveAlias
  <2>4. CASE ModelClean
    <3> DEFINE as == IF Family(up).relabelled THEN Moved(aliases) ELSE aliases
    <3>1. as \in [Words -> Aliases \cup {NoAlias}]
      BY <2>0, MovedType
    <3>2. aliases' = [v \in Words |-> IF Stale(as[v]) THEN NoAlias ELSE as[v]]
      BY <2>4 DEF ModelClean
    <3> HIDE DEF as
    <3> QED
      BY <3>1, <3>2
  <2> QED
    BY <2>1, <2>2, <2>3, <2>4
<1>5. TypesNext
  BY <1>1, <1>2, <1>3, <1>4, CountedResult, CommandTypes
<1>6. GoodAgent(agent')
  BY <1>1, <1>2
<1> QED
  BY <1>2, <1>5, <1>6, CommandKeeps

LEMMA SaveAliasKeeps ==
  ASSUME ModelsAssumption, ModelsInv, NEW w \in Shorts, NEW x \in Listed(up), SaveAlias(w, x)
  PROVE  ModelsInv' /\ ChoiceStep
<1>1. ModelsTypeOK /\ GoodAgent(agent)
  BY DEF ModelsInv
<1>a. PICK after, seen : /\ after \in Left /\ seen \in Seen(after)
        /\ Takes(UseSelected(agent, x, seen)) /\ Leaves(after)
  BY DEF SaveAlias
<1>2. /\ lent = <<>> /\ lent' = lent /\ UNCHANGED <<pulled, started>>
      /\ spent' \in Counters /\ kindAt' = kindAt /\ up' \subseteq URLs
  BY <1>1, <1>a, LeavesResult DEF SaveAlias, Command
<1>3. PICK r \in UseSelected(agent, x, seen) : agent' = r.agent
  BY <1>a DEF Takes
<1>4. Settles(agent, r)
  BY <1>a, <1>3, ListedSettles
<1>5. aliases' \in [Words -> Aliases \cup {NoAlias}]
  <2>1. x \in Entries /\ x.service \in Engines
    BY <1>1, ListedResult DEF SaveAlias, ModelsTypeOK
  <2>2. [model |-> x.model, engine |-> x.service] \in Aliases
    BY <2>1 DEF Aliases, Entries
  <2>3. aliases' = [aliases EXCEPT ![w] = [model |-> x.model, engine |-> x.service]]
    BY DEF SaveAlias
  <2>4. aliases \in [Words -> Aliases \cup {NoAlias}]
    BY <1>1 DEF ModelsTypeOK
  <2> QED
    BY <2>2, <2>3, <2>4
<1>6. TypesNext
  BY <1>2, <1>5, CommandTypes
<1> QED
  BY <1>2, <1>3, <1>4, <1>6, CommandKeeps DEF Settles

\* The limits that may be kept under a key.
Limits(k) == {Accepts(u) : u \in ServersOf(k)} \cup {0, Asked}

LEMMA SetLimits ==
  ASSUME NEW k
  PROVE  0 \in Limits(k) /\ Asked \in Limits(k)
BY Zenon DEF Limits

LEMMA SetLimitType ==
  ASSUME Asked \in Nat, NEW n \in {0, Asked}
  PROVE  n \in Nat
OBVIOUS

LEMMA NothingKnown ==
  ASSUME NEW cap, cap = [ctx |-> 0, limit |-> 0, mode |-> "auto"]
  PROVE  cap.limit = 0 /\ cap \in Caps
BY DEF Caps

LEMMA CachedResult ==
  ASSUME ModelsAssumption, NEW a \in Agents, LimitsInv(a), NEW k \in Keys
  PROVE  Cached(a, k) \in Caps /\ Cached(a, k).limit \in Limits(k)
<1>1. a.caps[k] \in Caps \cup {NoCap}
  BY DEF Agents
<1>2. CASE a.caps[k] = NoCap
  <2>1. Cached(a, k) = [ctx |-> 0, limit |-> 0, mode |-> "auto"]
    BY <1>2 DEF Cached
  <2>2. Cached(a, k).limit = 0 /\ Cached(a, k) \in Caps
    BY <2>1, NothingKnown
  <2> QED
    BY <2>2, SetLimits
<1>3. CASE a.caps[k] # NoCap
  <2>1. Cached(a, k) = a.caps[k] /\ a.caps[k] \in Caps
    BY <1>1, <1>3 DEF Cached
  <2> QED
    BY <1>3, <2>1 DEF LimitsInv, Limits
<1> QED
  BY <1>2, <1>3

LEMMA StoreKeepsGood ==
  ASSUME ModelsAssumption, NEW a, GoodAgent(a), NEW k \in Keys, NEW cap \in Caps, cap.limit \in Limits(k)
  PROVE  GoodAgent(Store(a, k, cap)) /\ SameSelection(a, Store(a, k, cap))
<1>1. /\ Store(a, k, cap) \in Agents /\ LimitsInv(Store(a, k, cap))
      /\ SameSelection(a, Store(a, k, cap))
  BY StoreResult DEF GoodAgent, Limits
<1>2. ClientInv(Store(a, k, cap))
  BY <1>1 DEF GoodAgent, ClientInv, SameSelection
<1> QED
  BY <1>1, <1>2 DEF GoodAgent

LEMMA CacheKeyType ==
  ASSUME ModelsAssumption, ModelsInv, NEW service \in ServiceNames \cup {Unnamed}, NEW m \in ModelNames
  PROVE  CacheKeyFor(service, m) \in Keys
BY KeyType, ModelKeyType DEF CacheKeyFor, ModelsInv, GoodAgent

\* A mode or a limit the user sets is kept beside what else is known.
LEMMA SettingKeeps ==
  ASSUME ModelsAssumption, ModelsInv, NEW service \in ServiceNames \cup {Unnamed}, NEW m \in ModelNames,
         NEW mode \in {"auto", "none"}, NEW n \in {0, Asked},
         ModelMode(service, m, mode) \/ ModelLimit(service, m, n)
  PROVE  ModelsInv' /\ ChoiceStep
<1> DEFINE k == CacheKeyFor(service, m)
           cap == Cached(agent, k)
<1>1. GoodAgent(agent) /\ agent \in Agents /\ LimitsInv(agent)
  BY DEF ModelsInv, GoodAgent
<1>2. k \in Keys
  BY CacheKeyType
<1>3. cap \in Caps /\ cap.limit \in Limits(k)
  BY <1>1, <1>2, CachedResult
<1>4. /\ lent = <<>> /\ lent' = lent /\ IsSet /\ UNCHANGED <<up, kindAt, pulled, aliases, started>>
      /\ \/ agent' = Store(agent, k, [cap EXCEPT !.mode = mode])
         \/ agent' = Store(agent, k, [cap EXCEPT !.limit = n])
  BY DEF ModelMode, ModelLimit, Setting, Command, world
<1> HIDE DEF k, cap
<1>5. [cap EXCEPT !.mode = mode] \in Caps /\ [cap EXCEPT !.mode = mode].limit = cap.limit
  BY <1>3 DEF Caps
<1>6. n \in Nat /\ n \in Limits(k)
  <2>1. n \in Nat
    BY SetLimitType DEF ModelsAssumption
  <2>2. n \in Limits(k)
    BY SetLimits
  <2> QED
    BY <2>1, <2>2
<1>7. [cap EXCEPT !.limit = n] \in Caps /\ [cap EXCEPT !.limit = n].limit = n
  BY <1>3, <1>6 DEF Caps
<1>8. GoodAgent(agent') /\ SameSelection(agent, agent')
  <2>1. CASE agent' = Store(agent, k, [cap EXCEPT !.mode = mode])
    BY <1>1, <1>2, <1>3, <1>5, <2>1, StoreKeepsGood
  <2>2. CASE agent' = Store(agent, k, [cap EXCEPT !.limit = n])
    BY <1>1, <1>2, <1>6, <1>7, <2>2, StoreKeepsGood
  <2> QED
    BY <1>4, <2>1, <2>2
<1>9. TypesNext
  BY <1>4, CountedResult, CommandTypes DEF ModelsInv
<1> QED
  BY <1>4, <1>8, <1>9, BesidesKeeps

LEMMA AsksWindowKeeps ==
  ASSUME ModelsAssumption, ModelsInv, AsksWindow
  PROVE  ModelsInv' /\ ChoiceStep
<1> DEFINE k == ModelKey(agent, agent.model)
           cap == agent.caps[k]
<1>1. GoodAgent(agent) /\ agent \in Agents
  BY DEF ModelsInv, GoodAgent
<1>2. agent.client # NoClient /\ agent' = FixWindow(agent, agent.model, cap)
  BY DEF AsksWindow
<1>3. UNCHANGED <<up, kindAt, pulled, aliases, lent, started, spent>>
  BY DEF AsksWindow, world
<1>4. agent.client \in Clients /\ agent.model = agent.client.model
  BY <1>1, <1>2 DEF GoodAgent, ClientInv, Agents
<1>5. agent.model \in ModelNames
  BY <1>4 DEF Clients
<1>6. cap \in Caps \cup {NoCap}
  <2>1. k \in Keys
    BY <1>1, <1>5, ModelKeyType
  <2> QED
    BY <1>1, <2>1 DEF Agents
<1> HIDE DEF k, cap
<1>7. agent' \in Agents /\ SameBesidesWindows(agent, agent')
  BY <1>1, <1>2, <1>5, <1>6, FixWindowResult
<1>8. GoodAgent(agent') /\ SameSelection(agent, agent')
  BY <1>1, <1>7 DEF GoodAgent, ClientInv, LimitsInv, SameBesidesWindows, SameSelection
<1>9. TypesNext
  BY <1>3 DEF TypesNext, ModelsInv, ModelsTypeOK, Counters
<1> QED
  BY <1>3, <1>8, <1>9, BesidesKeeps

\* The limit a server sets by failing is kept under a key that server stands for.
LEMMA LearnPromptLimitKeeps ==
  ASSUME ModelsAssumption, ModelsInv, LearnPromptLimit
  PROVE  ModelsInv' /\ ChoiceStep
<1> DEFINE k == ModelKey(agent, agent.client.model)
           n == Accepts(agent.client.url)
           cap == Cached(agent, k)
<1>1. GoodAgent(agent) /\ agent \in Agents /\ LimitsInv(agent)
  BY DEF ModelsInv, GoodAgent
<1>2. /\ agent.client # NoClient
      /\ agent' = Store(agent, k, [cap EXCEPT !.limit = n])
      /\ spent' = [spent EXCEPT !.refusals = @ + 1]
      /\ UNCHANGED <<up, kindAt, pulled, aliases, lent, started>>
  BY DEF LearnPromptLimit, world
<1>3. agent.client \in Clients
  BY <1>1, <1>2 DEF Agents
<1>4. /\ agent.client.service \in ServiceNames /\ agent.client.url \in URLs
      /\ agent.client.model \in ModelNames
  BY <1>3 DEF Clients
<1>5. k = Key(agent.client.service, agent.client.model) /\ k \in Keys
  BY <1>1, <1>2, KeyOfAgent DEF InUse
<1>6. ServedAt(agent.client.service, agent.client.url)
  BY <1>1, <1>2 DEF GoodAgent, ClientInv
<1>7. agent.client.url \in ServersOf(k)
  BY <1>4, <1>5, <1>6, ServedServer
<1>8. n \in Nat /\ n \in Limits(k)
  BY <1>4, <1>7 DEF ModelsAssumption, Limits
<1>9. cap \in Caps
  BY <1>1, <1>5, CachedResult
<1> HIDE DEF k, n, cap
<1>10. [cap EXCEPT !.limit = n] \in Caps /\ [cap EXCEPT !.limit = n].limit = n
  BY <1>8, <1>9 DEF Caps
<1>11. GoodAgent(agent') /\ SameSelection(agent, agent')
  BY <1>1, <1>2, <1>5, <1>8, <1>10, StoreKeepsGood
<1>12. spent' \in Counters
  BY <1>2, CounterType DEF ModelsInv, ModelsTypeOK, Counters
<1>13. TypesNext
  BY <1>2, <1>12 DEF TypesNext, ModelsInv, ModelsTypeOK
<1> QED
  BY <1>2, <1>11, <1>13, BesidesKeeps

LEMMA QuitKeeps ==
  ASSUME ModelsAssumption, ModelsInv, Quit
  PROVE  ModelsInv' /\ ChoiceStep
<1>1. GoodAgent(agent) /\ agent.caps \in [Keys -> Caps \cup {NoCap}]
  BY DEF ModelsInv, GoodAgent, Agents
<1>2. /\ lent' = <<>> /\ UNCHANGED <<up, kindAt, pulled, aliases, spent>>
      /\ agent' = [Unused EXCEPT !.caps = agent.caps]
      /\ started' = NotStarted
  BY DEF Quit, world
<1>3. agent'.client = NoClient /\ agent'.caps = agent.caps /\ agent' \in Agents
  BY <1>1, <1>2 DEF Unused, Agents
<1>4. GoodAgent(agent')
  BY <1>1, <1>3 DEF GoodAgent, ClientInv, LimitsInv
<1>5. GoodAgent(agent)'
  BY <1>2, <1>4, GoodAgentNext
<1>6. lent' \in Seq(Loans)
  <2>1. <<>> \in Seq(Loans)
    BY EmptySeq
  <2> QED
    BY <1>2, <2>1
<1>7. ModelsTypeOK'
  BY <1>2, <1>3, <1>6 DEF ModelsInv, ModelsTypeOK, NotStarted, Startings
<1>8. LoansInv'
  BY <1>2, NoLoans
<1>9. ChoiceStep
  BY <1>2, <1>3, StepRestarts DEF InUse
<1> QED
  BY <1>5, <1>7, <1>8, <1>9 DEF ModelsInv

\* A step that borrows a model runs on it, and remembers what was in use.
LEMMA ResolveDispatchKeeps ==
  ASSUME ModelsAssumption, ModelsInv, "alias" \notin Happenings,
         NEW service \in ServiceNames \cup {Unnamed}, NEW w \in Words, ResolveDispatch(service, w)
  PROVE  ModelsInv' /\ ChoiceStep /\ ("elsewhere" \notin Happenings => WhereInstalled)
<1> DEFINE loan(b) == IF b THEN Captured ELSE [Captured EXCEPT !.switched = FALSE]
<1>1. /\ ModelsTypeOK /\ GoodAgent(agent) /\ lent \in Seq(Loans)
      /\ agent.client # NoClient /\ Len(lent) < Depth
      /\ UNCHANGED <<pulled, aliases>> /\ spent.commands \in Nat
  <2>1. ModelsTypeOK /\ GoodAgent(agent)
    BY DEF ModelsInv
  <2>2. lent \in Seq(Loans)
    BY <2>1 DEF ModelsTypeOK
  <2> QED
    BY <2>1, <2>2 DEF ResolveDispatch, ModelsTypeOK
<1>2. /\ agent.client \in Clients /\ agent.backend \in Backends \cup {NoBackend}
      /\ agent.model = agent.client.model
  BY <1>1 DEF GoodAgent, ClientInv, Agents
<1>3. ASSUME NEW b \in BOOLEAN
      PROVE  /\ loan(b) \in Loans /\ loan(b).switched = b
             /\ loan(b).service = agent.client.service /\ loan(b).engine = agent.client.engine
             /\ loan(b).url = agent.client.url /\ loan(b).model = agent.client.model
             /\ loan(b).backend = agent.backend
  BY <1>2 DEF Captured, Loans, Clients
<1>4. Captured = loan(TRUE) /\ [Captured EXCEPT !.switched = FALSE] = loan(FALSE)
  OBVIOUS
<1> DEFINE Switches(after, seen, r) ==
             /\ after \in Left /\ seen \in Seen(after) /\ r \in SwitchedTo(service, w, seen)
             /\ r.ok /\ agent' = r.agent /\ lent' = Append(lent, loan(TRUE)) /\ Leaves(after)
             /\ IF service = Unnamed THEN UNCHANGED started ELSE Noted(w, service, seen[Installing])
<1>5. \/ /\ lent' = Append(lent, loan(FALSE)) /\ agent' = agent /\ UNCHANGED <<up, kindAt, started>> /\ Given
      \/ \E after, seen, r : Switches(after, seen, r)
  BY <1>4 DEF ResolveDispatch
<1> HIDE DEF loan
<1>6. \E b \in BOOLEAN : lent' = Append(lent, loan(b)) /\ (~b => agent' = agent)
  BY <1>5
<1>7. service # Unnamed => w \in ModelNames
  BY DEF ResolveDispatch
<1>8. ASSUME NEW after, NEW seen, NEW r, Switches(after, seen, r)
      PROVE  Outcome(agent, r)
  <2>0. r \in SwitchedTo(service, w, seen) /\ SeenOK(seen)
    BY <1>1, <1>8, SeenResult DEF SeenOK
  <2>1. CASE service = Unnamed
    <3>1. PICK e \in AliasesFor(w) : r \in ByAlias(agent, e, seen)
      BY <2>0, <2>1 DEF SwitchedTo
    <3>2. e \in Aliases
      BY <1>1, AliasesForType
    <3> QED
      BY <1>1, <2>0, <3>1, <3>2, ByAliasResult
  <2>2. CASE service # Unnamed
    <3>1. r \in UseStartupModel(agent, service, w, seen)
      BY <2>0, <2>2 DEF SwitchedTo
    <3> QED
      BY <1>1, <1>7, <2>0, <2>2, <3>1, UseStartupModelResult
  <2> QED
    BY <2>1, <2>2
<1>9. GoodAgent(agent') /\ agent'.client # NoClient
  <2>1. CASE agent' = agent
    BY <1>1, <2>1
  <2>2. CASE \E after, seen, r : Switches(after, seen, r)
    BY <1>8, <2>2 DEF Outcome
  <2> QED
    BY <1>5, <2>1, <2>2
<1>10. TypesNext
  <2>1. UNCHANGED started \/ (service # Unnamed /\ \E v : Noted(w, service, v))
    BY <1>5
  <2>2. UNCHANGED started \/ started' \in Startings
    BY <1>1, <1>7, <2>1, NotedType
  <2>3. spent' \in Counters /\ kindAt' = kindAt /\ up' \subseteq URLs
    BY <1>1, <1>5, LeavesResult, CountedResult
  <2> QED
    BY <1>1, <2>2, <2>3, CommandTypes
<1>11. PICK b \in BOOLEAN : lent' = Append(lent, loan(b)) /\ (~b => agent' = agent)
  BY <1>6
<1>12. /\ Len(lent') = Len(lent) + 1 /\ Len(lent) \in Nat
       /\ lent'[Len(lent) + 1] = loan(b)
       /\ \A i \in 1 .. Len(lent) : lent'[i] = lent[i]
       /\ lent' \in Seq(Loans)
  <2>1. loan(b) \in Loans
    BY <1>3
  <2> QED
    BY <1>1, <1>11, <2>1, AppendProperties, LenProperties
<1>13. ModelsTypeOK'
  BY <1>1, <1>9, <1>10, <1>12 DEF ModelsTypeOK, TypesNext, GoodAgent, Counters
<1>14. GoodAgent(agent)'
  BY <1>9, <1>10, GoodAgentNext DEF TypesNext
<1>15. LoansInv'
  <2>1. \A i \in 1 .. Len(lent') :
          /\ ServedAt(lent'[i].service, lent'[i].url)
          /\ BackedBy(lent'[i].service, lent'[i].engine, lent'[i].backend)
    <3>1. ASSUME NEW i \in 1 .. Len(lent')
          PROVE  /\ ServedAt(lent'[i].service, lent'[i].url)
                 /\ BackedBy(lent'[i].service, lent'[i].engine, lent'[i].backend)
      <4>1. CASE i \in 1 .. Len(lent)
        BY <1>12, <4>1 DEF ModelsInv, LoansInv
      <4>2. CASE i = Len(lent) + 1
        <5>1. lent'[i] = loan(b)
          BY <1>12, <4>2
        <5>2. /\ ServedAt(agent.client.service, agent.client.url)
              /\ BackedBy(agent.client.service, agent.client.engine, agent.backend)
          BY <1>1 DEF GoodAgent, ClientInv
        <5> QED
          BY <1>3, <5>1, <5>2
      <4> QED
        BY <1>12, <3>1, <4>1, <4>2
    <3> QED
      BY <3>1
  <2>2. \A i \in 1 .. Len(lent') - 1 :
          ~lent'[i].switched => lent'[i + 1].service = lent'[i].service /\ lent'[i + 1].model = lent'[i].model
    <3>1. ASSUME NEW i \in 1 .. Len(lent), ~lent[i].switched
          PROVE  lent'[i + 1].service = lent[i].service /\ lent'[i + 1].model = lent[i].model
      <4>1. CASE i = Len(lent)
        <5>1. lent # <<>>
          BY <1>12, <3>1
        <5>2. agent.client.service = lent[i].service /\ agent.client.model = lent[i].model
          BY <3>1, <4>1, <5>1 DEF ModelsInv, LoansInv
        <5> QED
          BY <1>3, <1>12, <4>1, <5>2
      <4>2. CASE i # Len(lent)
        <5>1. i \in 1 .. Len(lent) - 1 /\ i + 1 \in 1 .. Len(lent)
          BY SMTT(30), <1>12, <3>1, <4>2
        <5>2. lent[i + 1].service = lent[i].service /\ lent[i + 1].model = lent[i].model
          BY <3>1, <5>1 DEF ModelsInv, LoansInv
        <5> QED
          BY <1>12, <5>1, <5>2
      <4> QED
        BY <4>1, <4>2
    <3> QED
      BY SMTT(30), <1>12, <3>1
  <2>3. ~lent'[Len(lent')].switched =>
          agent'.client.service = lent'[Len(lent')].service /\ agent'.client.model = lent'[Len(lent')].model
    BY <1>3, <1>11, <1>12
  <2>4. /\ \A i \in 1 .. Len(lent') : ServedAt(lent[i].service, lent[i].url)'
        /\ \A i \in 1 .. Len(lent') : BackedBy(lent[i].service, lent[i].engine, lent[i].backend)'
    BY <1>10, <2>1 DEF ServedAt, BackedBy, TypesNext
  <2> QED
    BY <1>9, <2>2, <2>3, <2>4 DEF LoansInv
<1>16. ChoiceStep
  <2>1. InUse(agent') \in Keys /\ InUse(agent) \in Keys
    BY <1>1, <1>9, KeyOfAgent
  <2>2. InUse(agent) = Key(agent.client.service, agent.client.model)
    BY <1>1, KeyOfAgent
  <2>3. InUse(agent) # NoModel
    BY <2>1, NothingAssumption
  <2>4. KeptOf(lent') = Append(KeptOf(lent), InUse(agent))
    BY <1>3, <1>12, <2>2 DEF KeptOf
  <2>5. Len(KeptOf(lent)) < Depth
    BY <1>1 DEF KeptOf
  <2> QED
    BY <2>1, <2>3, <2>4, <2>5, StepLends
<1>17. ASSUME "elsewhere" \notin Happenings
       PROVE  WhereInstalled
  <2>1. CASE UNCHANGED started
    BY <2>1 DEF WhereInstalled
  <2>2. CASE ~UNCHANGED started
    <3>1. PICK after, seen, r : Switches(after, seen, r)
      BY <1>5, <2>2
    <3>2. service # Unnamed /\ Noted(w, service, seen[Installing]) /\ w \in ModelNames
      BY <1>7, <2>2, <3>1
    <3>3. r \in UseStartupModel(agent, service, w, seen)
      BY <3>1, <3>2 DEF SwitchedTo
    <3> QED
      BY <1>1, <1>17, <3>1, <3>2, <3>3, InstalledThen
  <2> QED
    BY <2>1, <2>2
<1> QED
  BY <1>13, <1>14, <1>15, <1>16, <1>17 DEF ModelsInv

\* A step gives back what was in use before it.
LEMMA RestoreKeeps ==
  ASSUME ModelsAssumption, ModelsInv, Restore
  PROVE  ModelsInv' /\ ChoiceStep
<1> DEFINE n == Len(lent)
           was == lent[n]
<1>1. ModelsTypeOK /\ GoodAgent(agent) /\ lent \in Seq(Loans) /\ spent \in Counters
  <2>1. ModelsTypeOK /\ GoodAgent(agent)
    BY DEF ModelsInv
  <2> QED
    BY <2>1 DEF ModelsTypeOK, Counters
<1>2. /\ lent # <<>> /\ agent' = Restored(agent, was) /\ lent' = SubSeq(lent, 1, n - 1)
      /\ UNCHANGED <<up, kindAt, pulled, aliases, started, spent>>
  BY DEF Restore, world
<1>3. n \in Nat /\ n >= 1 /\ was \in Loans
  BY <1>1, <1>2
<1>4. /\ lent' \in Seq(Loans) /\ Len(lent') = n - 1
      /\ \A i \in 1 .. n - 1 : lent'[i] = lent[i]
  <2>1. \A i \in 1 .. n - 1 : lent[i] \in Loans
    BY <1>1, <1>3
  <2> HIDE DEF n
  <2>2. /\ SubSeq(lent, 1, n - 1) \in Seq(Loans)
        /\ Len(SubSeq(lent, 1, n - 1)) = IF 1 <= n - 1 THEN n - 1 - 1 + 1 ELSE 0
        /\ \A i \in 1 .. n - 1 - 1 + 1 : SubSeq(lent, 1, n - 1)[i] = lent[1 + i - 1]
    BY <1>3, <2>1, SubSeqProperties
  <2> QED
    BY <1>2, <1>3, <2>2
<1>5. /\ agent.client # NoClient
      /\ ~was.switched => agent.client.service = was.service /\ agent.client.model = was.model
      /\ ServedAt(was.service, was.url) /\ BackedBy(was.service, was.engine, was.backend)
  BY <1>2, <1>3 DEF ModelsInv, LoansInv
<1>6. /\ \A i \in 1 .. n : ServedAt(lent[i].service, lent[i].url)
      /\ \A i \in 1 .. n : BackedBy(lent[i].service, lent[i].engine, lent[i].backend)
      /\ \A i \in 1 .. n - 1 :
           ~lent[i].switched => lent[i + 1].service = lent[i].service /\ lent[i + 1].model = lent[i].model
  BY DEF ModelsInv, LoansInv
<1> HIDE DEF was, n
<1>7. /\ GoodAgent(agent') /\ agent'.client # NoClient
      /\ agent'.client.service = was.service /\ agent'.client.model = was.model
  <2>1. CASE was.switched
    BY <1>1, <1>2, <1>3, <1>5, <2>1, RestoredResult
  <2>2. CASE ~was.switched
    <3>1. agent' = agent
      BY <1>2, <2>2 DEF Restored
    <3> QED
      BY <1>1, <1>5, <2>2, <3>1
  <2> QED
    BY <2>1, <2>2
<1>8. TypesNext
  BY <1>1, <1>2 DEF TypesNext, ModelsTypeOK
<1>9. ModelsTypeOK'
  BY <1>1, <1>4, <1>7, <1>8 DEF ModelsTypeOK, TypesNext, GoodAgent, Counters
<1>10. GoodAgent(agent)'
  BY <1>7, <1>8, GoodAgentNext DEF TypesNext
<1>11. LoansInv'
  <2>1. /\ \A i \in 1 .. Len(lent') : ServedAt(lent[i].service, lent[i].url)'
        /\ \A i \in 1 .. Len(lent') : BackedBy(lent[i].service, lent[i].engine, lent[i].backend)'
    BY <1>2, <1>3, <1>4, <1>6 DEF ServedAt, BackedBy
  <2>2. \A i \in 1 .. Len(lent') - 1 :
          ~lent'[i].switched => lent'[i + 1].service = lent'[i].service /\ lent'[i + 1].model = lent'[i].model
    <3>1. ASSUME NEW i \in 1 .. Len(lent') - 1
          PROVE  i \in 1 .. n - 1 /\ i + 1 \in 1 .. n - 1
      <4>1. Len(lent') = n - 1 /\ n - 1 \in Nat
        BY <1>3, <1>4
      <4> QED
        BY <4>1, TwoOfASequence
    <3>2. \A i \in 1 .. Len(lent') - 1 : lent'[i] = lent[i] /\ lent'[i + 1] = lent[i + 1]
      BY <1>4, <3>1
    <3> QED
      BY <1>6, <3>1, <3>2
  <2>3. lent' # <<>> /\ ~lent'[Len(lent')].switched =>
          agent'.client.service = lent'[Len(lent')].service /\ agent'.client.model = lent'[Len(lent')].model
    <3>1. lent' # <<>> => n - 1 \in 1 .. n - 1
      BY <1>3, <1>4, EmptySeq
    <3>2. was = lent[n - 1 + 1]
      BY <1>3 DEF was
    <3>3. lent' # <<>> => lent'[Len(lent')] = lent[n - 1]
      BY <1>4, <3>1
    <3>4. lent' # <<>> /\ ~lent[n - 1].switched =>
            was.service = lent[n - 1].service /\ was.model = lent[n - 1].model
      BY <1>6, <3>1, <3>2
    <3> QED
      BY <1>7, <3>3, <3>4
  <2> QED
    BY <1>7, <2>1, <2>2, <2>3 DEF LoansInv
<1>12. ChoiceStep
  <2>1. InUse(agent') = Key(was.service, was.model)
    BY <1>7, KeyOfAgent
  <2>2. /\ KeptOf(lent) = [i \in 1 .. n |-> Key(lent[i].service, lent[i].model)]
        /\ KeptOf(lent') = [i \in 1 .. n - 1 |-> Key(lent[i].service, lent[i].model)]
    <3>1. DOMAIN lent = 1 .. n
      BY <1>1, LenProperties DEF n
    <3>2. DOMAIN lent' = 1 .. n - 1
      BY <1>4, LenProperties
    <3> QED
      BY <1>4, <3>1, <3>2 DEF KeptOf
  <2>3. KeptOf(lent) # <<>> /\ Len(KeptOf(lent)) = n
    <3> DEFINE k == KeptOf(lent)
               V == {k[i] : i \in 1 .. n}
    <3>1. DOMAIN k = 1 .. n /\ k \in [1 .. n -> V]
      BY <2>2
    <3> HIDE DEF k, V
    <3>2. k \in Seq(V)
      BY <1>3, <3>1, SeqDef
    <3>3. Len(k) \in Nat /\ 1 .. Len(k) = 1 .. n
      BY <3>1, <3>2, LenProperties
    <3>4. Len(k) = n
      BY <1>3, <3>3
    <3>5. k # <<>>
      BY <1>3, <3>4
    <3> QED
      BY <3>4, <3>5 DEF k
  <2>4. KeptOf(lent)[n] = Key(was.service, was.model)
    BY <1>3, <2>2 DEF was
  <2>5. KeptOf(lent') = SubSeq(KeptOf(lent), 1, n - 1)
    BY <1>3, <2>2, <2>3
  <2> QED
    BY <2>1, <2>3, <2>4, <2>5, StepGivesBack
<1> QED
  BY <1>9, <1>10, <1>11, <1>12 DEF ModelsInv

-----------------------------------------------------------------------------
(* The theorems.  The two uses that go wrong are left out: an alias that   *)
(* changes the client alone, and a model asked of another server of its    *)
(* engine.                                                                 *)

LEMMA InitKeeps ==
  ASSUME ModelsAssumption, Init
  PROVE  ModelsInv /\ Choice!Init
<1>1. /\ up = URLs /\ aliases = [w \in Words |-> NoAlias] /\ agent = Unused /\ lent = <<>>
      /\ started = NotStarted
      /\ spent = [commands |-> 0, settings |-> 0, refusals |-> 0, outages |-> 0]
  BY DEF Init
<1>2. PICK w \in Worlds : kindAt = w.kindAt /\ pulled = w.has
  BY DEF Init
<1>3. kindAt \in [URLs -> Engines] /\ pulled \in [URLs -> SUBSET Whole]
  BY <1>2 DEF ModelsAssumption
<1>4. agent \in Agents /\ agent.client = NoClient /\ \A k \in Keys : agent.caps[k] = NoCap
  BY <1>1 DEF Unused, Agents
<1>5. lent \in Seq(Loans) /\ Len(lent) = 0
  BY <1>1, EmptySeq
<1>6. ModelsTypeOK
  BY <1>1, <1>3, <1>4, <1>5 DEF ModelsTypeOK, NotStarted, Startings
<1>7. GoodAgent(agent)
  BY <1>4 DEF GoodAgent, ClientInv, LimitsInv
<1>8. LoansInv
  BY <1>1, <1>5 DEF LoansInv
<1>9. Choice!Init
  BY <1>1, <1>4 DEF Choice!Init
<1> QED
  BY <1>6, <1>7, <1>8, <1>9 DEF ModelsInv

\* Started changes only where a model was checked, and when Harvey ends.
LEMMA StartedStays ==
  ASSUME UNCHANGED started \/ started' = NotStarted
  PROVE  WhereInstalled
BY DEF WhereInstalled, NotStarted

LEMMA NextKeeps ==
  ASSUME ModelsAssumption, ModelsInv, "alias" \notin Happenings, [Next]_vars
  PROVE  ModelsInv' /\ ChoiceStep /\ ("elsewhere" \notin Happenings => WhereInstalled)
<1>0. /\ ModelsTypeOK
      /\ \A r \in Refs \cup Adjusted : r.service \in ServiceNames \cup {Unnamed} /\ r.model \in ModelNames /\ r.model \in Words
  BY EnginesAre DEF ModelsInv, ModelsAssumption
<1>1. CASE \E u \in URLs : Stops(u) \/ Starts(u)
  <2>1. UNCHANGED started
    BY <1>1 DEF Stops, Starts
  <2> QED
    BY <1>1, <2>1, OutageKeeps, StartedStays
<1>2. CASE StartPicking
  <2>1. UNCHANGED started
    BY <1>2 DEF StartPicking
  <2> QED
    BY <1>2, <2>1, StartPickingKeeps, StartedStays
<1>3. CASE \E r \in Refs : StartWith(r.service, r.model)
  BY <1>0, <1>3, StartWithKeeps
<1>4. CASE \E w \in Words : ModelUse(w)
  <2>1. UNCHANGED started
    BY <1>4 DEF ModelUse
  <2> QED
    BY <1>4, <2>1, ModelUseKeeps, StartedStays
<1>5. CASE \E x \in Listed(up) : PullAndUse(x)
  <2>1. UNCHANGED started
    BY <1>5 DEF PullAndUse
  <2> QED
    BY <1>5, <2>1, PullAndUseKeeps, StartedStays
<1>6. CASE \/ \E m \in ModelNames : ModelPull(m)
           \/ \E k \in Named : SetAlias(k.word, k.model)
           \/ \E w \in Words : RemoveAlias(w)
           \/ ModelClean
  <2>1. UNCHANGED started
    BY <1>6 DEF ModelPull, SetAlias, RemoveAlias, ModelClean
  <2> QED
    BY <1>6, <2>1, ElsewhereKeeps, StartedStays
<1>7. CASE \E w \in Shorts, x \in Listed(up) : SaveAlias(w, x)
  <2>1. UNCHANGED started
    BY <1>7 DEF SaveAlias
  <2> QED
    BY <1>7, <2>1, SaveAliasKeeps, StartedStays
<1>8. CASE \E r \in Adjusted, mode \in {"auto", "none"}, n \in {0, Asked} :
             ModelMode(r.service, r.model, mode) \/ ModelLimit(r.service, r.model, n)
  <2>1. UNCHANGED started
    BY <1>8 DEF ModelMode, ModelLimit
  <2>2. PICK r \in Adjusted, mode \in {"auto", "none"}, n \in {0, Asked} :
          ModelMode(r.service, r.model, mode) \/ ModelLimit(r.service, r.model, n)
    BY <1>8
  <2>3. r.service \in ServiceNames \cup {Unnamed} /\ r.model \in ModelNames
    BY <1>0
  <2> QED
    BY <2>1, <2>2, <2>3, SettingKeeps, StartedStays
<1>9. CASE AsksWindow \/ LearnPromptLimit \/ Restore
  <2>1. UNCHANGED started
    BY <1>9 DEF AsksWindow, LearnPromptLimit, Restore
  <2> QED
    BY <1>9, <2>1, AsksWindowKeeps, LearnPromptLimitKeeps, RestoreKeeps, StartedStays
<1>10. CASE \E r \in Refs : ResolveDispatch(r.service, r.model)
  BY <1>0, <1>10, ResolveDispatchKeeps
<1>11. CASE \E w \in Shorts : ResolveDispatch(Unnamed, w)
  BY <1>11, ResolveDispatchKeeps DEF Words
<1>12. CASE Quit
  <2>1. started' = NotStarted
    BY <1>12 DEF Quit
  <2> QED
    BY <1>12, <2>1, QuitKeeps, StartedStays
<1>13. CASE UNCHANGED vars
  <2>1. /\ UNCHANGED <<up, kindAt, pulled, aliases, agent, lent, started, spent>>
        /\ GoodAgent(agent) /\ SameSelection(agent, agent')
    BY <1>13 DEF vars, ModelsInv, SameSelection
  <2>2. GoodAgent(agent') /\ TypesNext
    BY <1>0, <2>1 DEF TypesNext, ModelsTypeOK, Counters
  <2> QED
    BY <2>1, <2>2, BesidesKeeps, StartedStays
<1> QED
  BY <1>1, <1>2, <1>3, <1>4, <1>5, <1>6, <1>7, <1>8, <1>9, <1>10, <1>11, <1>12, <1>13 DEF Next

(* Every variable keeps its type, the client, the backend and what is kept *)
(* of every model fit together, in use and in every step under way.        *)
THEOREM ModelsInvariance ==
  ASSUME "alias" \notin Happenings
  PROVE  Spec => []ModelsInv
<1>1. Init => ModelsInv
  BY ModelsAssumption, InitKeeps
<1>2. ModelsInv /\ [Next]_vars => ModelsInv'
  BY ModelsAssumption, NextKeeps
<1> QED
  BY <1>1, <1>2, PTL DEF Spec

(* What Harvey remembers of a model, and is about to use, is of the server *)
(* that model is asked of: modelKey reads the backend, the client is set   *)
(* elsewhere, and servers, aliases, pulls and borrowed models come between *)
(* (modelKey, learnPromptLimit, probeModelAndCache).                       *)
THEOREM RememberedOfItsOwnHolds ==
  ASSUME "alias" \notin Happenings
  PROVE  Spec => []RememberedOfItsOwn
<1>1. ModelsInv => RememberedOfItsOwn
  <2>1. ModelsInv => KeyOfClient
    BY ModelsAssumption, KeyOfAgent DEF ModelsInv, KeyOfClient, InUse
  <2>2. ModelsInv => LearntOfItsOwn
    BY DEF ModelsInv, GoodAgent, LimitsInv, LearntOfItsOwn
  <2> QED
    BY <2>1, <2>2 DEF RememberedOfItsOwn
<1> QED
  BY <1>1, ModelsInvariance, PTL

(* A model named by -m, by ollama.model or by a step, and accepted although *)
(* the servers that may have it could be asked, is installed on the server  *)
(* it is then asked of (requireInstalled, useStartupModel), whichever       *)
(* server goes or comes between two of the questions the choice asks. What  *)
(* is left is that the server that had it went, that a Hailo server came,   *)
(* and that a name without its tag is asked of the server at ollama.url.    *)
THEOREM StartsWhereInstalledHolds ==
  ASSUME "alias" \notin Happenings, "elsewhere" \notin Happenings
  PROVE  Spec => StartsWhereInstalled
<1>1. ModelsInv /\ [Next]_vars => [WhereInstalled]_vars
  BY ModelsAssumption, NextKeeps
<1> QED
  BY <1>1, ModelsInvariance, PTL DEF Spec, StartsWhereInstalled, WhereInstalled

(* Models implements ModelChoice: what is in use changes only by choosing,  *)
(* and every step gives back what was in use before it, inside one another  *)
(* and after failed switches (resolveDispatchTarget, useServiceModelAt).    *)
THEOREM ModelsImplementModelChoice ==
  ASSUME "alias" \notin Happenings
  PROVE  Spec => ImplementsModelChoice
<1>1. Init => Choice!Init
  BY ModelsAssumption, InitKeeps
<1>2. ModelsInv /\ [Next]_vars => [Choice!Next]_(Choice!vars)
  BY ModelsAssumption, NextKeeps DEF ChoiceStep
<1> QED
  BY <1>1, <1>2, ModelsInvariance, PTL DEF Spec, ImplementsModelChoice, Choice!Spec

=============================================================================
