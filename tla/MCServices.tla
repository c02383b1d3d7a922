----------------------------- MODULE MCServices ----------------------------
(* The machines the rest of the Core rests on: the catalog of models, an   *)
(* agent session, the channel's frames and its messages, a Core coming up, *)
(* a scan for plugins, the workspaces, the router.  They share nothing, so *)
(* a behaviour uses one.                                                   *)
EXTENDS Catalog, AgentSessions, Framing, Messages, MCBoot, MCDiscovery, Workspaces,
        Routing

VARIABLE machine
machineVars == <<machine, catalogVars, sessionVars, wireVars, messageVars, bootVars,
    discoveryVars, spaceVars, vars>>

MCInit ==
    /\ machine \in {"catalog", "sessions", "frames", "messages", "boot", "discovery",
                   "spaces", "routing"}
    /\ CatalogInit /\ AgentSessionsInit /\ FramingInit
    /\ IF machine = "messages" THEN MessagesInit ELSE wire = Envelope /\ meant = Malformed
    /\ IF machine = "boot" THEN TRUE ELSE environ = Plain /\ disk = <<>> /\ entry = "embedded"
    /\ BootInit /\ DiscoveryInit /\ SpacesInit /\ Init

MCNext ==
    /\ UNCHANGED machine
    /\ IF machine = "catalog" THEN CatalogStep ELSE UNCHANGED catalogVars
    /\ IF machine = "sessions" THEN AgentSessionsStep ELSE UNCHANGED sessionVars
    /\ IF machine = "frames" THEN FramingStep ELSE UNCHANGED wireVars
    /\ IF machine = "messages" THEN MessagesStep ELSE UNCHANGED messageVars
    /\ IF machine = "boot" THEN BootStep ELSE UNCHANGED bootVars
    /\ IF machine = "discovery" THEN DiscoveryStep ELSE UNCHANGED discoveryVars
    /\ IF machine = "spaces" THEN SpaceStep ELSE UNCHANGED spaceVars
    /\ IF machine = "routing" THEN Next ELSE UNCHANGED vars

MCSpec == MCInit /\ [][MCNext]_machineVars /\ Fairness

(* Bytes are bits, so that lengths beyond the limit exist. *)
MCPayloads == {<<>>, <<1>>, <<0, 1>>, <<1, 1, 0>>}
MCRegistered == <<"local", "cloud">>

(* Two models of one provider, the second the better one, one of another   *)
(* with a measured profile, and the fallback's.                            *)
MCModels == 1 .. 4
MCServedBy == <<"groq", "groq", "gemini", "ollama">>
MCAdapter == [groq |-> "openai", gemini |-> "gemini", ollama |-> "ollama"]
MCCaps == [m \in MCModels |->
    CASE m = 1 -> [DefaultSeed EXCEPT !.cost = 0]
      [] m = 2 -> [DefaultSeed EXCEPT !.reasoning = 2, !.cost = 3]
      [] m = 4 -> [DefaultSeed EXCEPT !.cost = 3]
      [] OTHER -> DefaultSeed]
MCProfile == [m \in MCModels |-> IF m = 3 THEN [quality |-> 7560, latency |-> 2] ELSE Null]

Chat == [value |-> "chat", hard |-> TRUE]
MCAsks ==
    {[mode |-> "economy", need |-> [role |-> Chat, reasoning |-> [value |-> 2, hard |-> FALSE]]],
     [mode |-> "performance", need |-> [role |-> Chat, window |-> [value |-> 2, hard |-> TRUE]]]}
MCCatalogues == {{1, 2}, {3, 4}}
=============================================================================
