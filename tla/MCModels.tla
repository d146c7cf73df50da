------------------------------ MODULE MCModels ------------------------------
EXTENDS Models, TLC

CONSTANTS fast, ma, mb, mc, md, uo, uh, us

MCUrlOf == [s \in Services |-> us]
MCEngineOf == [s \in Services |-> "ollama"]
MCContext(u, m) == IF u = us THEN 6 ELSE 9
MCAccepts(u) == CASE u = uo -> 5 [] u = uh -> 3 [] OTHER -> 4

Ref(service, model) == [service |-> service, model |-> model]
MCRefs == {Ref("", mb), Ref("", mc), Ref("", md), Ref("hailo", mc), Ref("pi", mc)}
MCNamed == {[word |-> fast, model |-> ma], [word |-> fast, model |-> mb],
            [word |-> fast, model |-> mc], [word |-> ma, model |-> mb]}
MCAdjusted == {Ref("", ma), Ref("hailo", mb)}

(* md is mb without its tag. *)
MCTagged == [m \in ModelNames |-> IF m = md THEN mb ELSE m]

(* ma is Ollama's, mb Hailo's; mc is on the service and in the Hailo catalog.
   Or both servers are Hailo servers, and the one at ollama.url is in use
   while the other is away. *)
MCWorlds ==
  {[kindAt |-> (uo :> "ollama") @@ (uh :> "hailo") @@ (us :> "ollama"),
    has |-> (uo :> {ma}) @@ (uh :> {mb}) @@ (us :> {mc})],
   [kindAt |-> (uo :> "hailo") @@ (uh :> "hailo") @@ (us :> "ollama"),
    has |-> (uo :> {mb}) @@ (uh :> {}) @@ (us :> {ma, mc})]}
=============================================================================
