------------------------------- MODULE Routes -------------------------------
(***************************************************************************)
(* The endpoints on other machines a prompt may be sent to: the registry   *)
(* the /route commands change, its file agents/routes.json, and the sticky *)
(* route of the session. Every change is made in memory and then the whole *)
(* registry is written; at startup the file is read.                       *)
(***************************************************************************)
EXTENDS Naturals, Sequences, FiniteSets

CONSTANTS
  RouteNames, URLs, BadURLs,  \* addresses, and those whose scheme is refused
  RouteModels,                \* models an endpoint may be registered with
  NoRoute, Unnamed,           \* no endpoint; no name or model given
  Removed,                    \* an endpoint of a kind Harvey no longer knows
  RouteFiles,                 \* files Harvey may find when it first starts
  RouteFaults                 \* of "unwritable", "full"

Endpoints == [url : URLs, model : RouteModels \cup {Unnamed}, tools : BOOLEAN]

Filed == Endpoints \cup {NoRoute, Removed}

ASSUME RoutesAssumption ==
  /\ URLs \cap BadURLs = {}
  /\ {NoRoute, Removed} \cap Endpoints = {} /\ Unnamed \notin RouteNames \cup RouteModels
  /\ RouteFiles \subseteq [text : {"good", "none", "garbled"}, enabled : BOOLEAN,
                           endpoints : [RouteNames -> Filed]]

VARIABLES
  routes,   \* RouteRegistry: endpoints by name and whether routing is on
  active,   \* ActiveRoute, the sticky route of this session, or Unnamed
  file,     \* agents/routes.json
  behind    \* the file is not what was last to be written

routing == <<routes, active, file, behind>>

Empty == [n \in RouteNames |-> NoRoute]

----------------------------------------------------------------------------
\* NewAgent: what cannot be read is nothing, and routing is off.
LoadRouteConfig(f) ==
  IF f.text # "good" THEN [enabled |-> FALSE, endpoints |-> Empty]
  ELSE [enabled   |-> f.enabled,
        endpoints |-> [n \in RouteNames |->
                         IF f.endpoints[n] = Removed THEN NoRoute ELSE f.endpoints[n]]]

RemovedRoutes(f) == IF f.text # "good" THEN {} ELSE {n \in RouteNames : f.endpoints[n] = Removed}

RoutesInit ==
  /\ file \in RouteFiles
  /\ routes = LoadRouteConfig(file)
  /\ active = Unnamed /\ behind = FALSE

RoutesStartup ==
  /\ routes' = LoadRouteConfig(file)
  /\ active' = Unnamed /\ behind' = FALSE /\ UNCHANGED file

\* Variant: what is on and off is left out when it is off.
RouteConfigEndpointsOnly(r) == [text |-> "good", enabled |-> TRUE, endpoints |-> r.endpoints]

RouteConfig(r) == [text |-> "good", enabled |-> r.enabled, endpoints |-> r.endpoints]

(* SaveRouteConfig, of the registry as it is after the command; os.WriteFile  *)
(* empties the file before it writes. ok is whether it reported success.      *)
SaveRouteConfig(ok) ==
  \/ ok /\ file' = RouteConfig(routes') /\ behind' = FALSE
  \/ ~ok /\ "unwritable" \in RouteFaults /\ UNCHANGED file /\ behind' = TRUE
  \/ ~ok /\ "full" \in RouteFaults /\ file' = [file EXCEPT !.text = "garbled"] /\ behind' = TRUE

Lookup(n) == routes.endpoints[n]
Known(n) == n \in RouteNames /\ Lookup(n) # NoRoute

----------------------------------------------------------------------------
(* The /route commands. c is the line; class is "ok" or what kind of failure *)
(* the command returns.                                                      *)

Unchanged(class, kind) == class = kind /\ UNCHANGED routing

Registers(r, class) ==
  /\ routes' = r /\ UNCHANGED active
  /\ \E ok \in BOOLEAN : SaveRouteConfig(ok) /\ class = IF ok THEN "ok" ELSE "io"

\* A name that is taken is taken over, its tools off again.
RouteAdd(c, class) ==
  IF c.url \in BadURLs THEN Unchanged(class, "usage")
  ELSE Registers([routes EXCEPT !.endpoints[c.name] =
                    [url |-> c.url, model |-> c.model, tools |-> FALSE]], class)

\* The sticky route stays when its endpoint goes.
RouteRemove(c, class) ==
  IF Known(c.name) THEN Registers([routes EXCEPT !.endpoints[c.name] = NoRoute], class)
  ELSE Unchanged(class, "negative")

RouteSet(c, class) ==
  IF Known(c.name) THEN Registers([routes EXCEPT !.endpoints[c.name].tools = c.on], class)
  ELSE Unchanged(class, "negative")

RouteOnOff(c, class) == Registers([routes EXCEPT !.enabled = c.on], class)

\* Without a name the sticky route is cleared.
RouteUse(c, class) ==
  IF c.name = Unnamed \/ Known(c.name)
  THEN class = "ok" /\ active' = c.name /\ UNCHANGED <<routes, file, behind>>
  ELSE Unchanged(class, "negative")

CmdRoute(c, class) ==
  \/ c.op = "add" /\ RouteAdd(c, class)
  \/ c.op = "rm" /\ RouteRemove(c, class)
  \/ c.op = "set" /\ RouteSet(c, class)
  \/ c.op \in {"on", "off"} /\ RouteOnOff(c, class)
  \/ c.op = "use" /\ RouteUse(c, class)

----------------------------------------------------------------------------
\* What a command reported as saved is in force again after the next start, and nothing
\* else, whatever was saved or failed to be saved before it.
RoutesReadBack == ~behind => LoadRouteConfig(file) = routes
=============================================================================
