------------------------------ MODULE Plugins ------------------------------
(***************************************************************************)
(* The plugin host (eklentiler): which package stands behind each plugin   *)
(* id, the state of its life, what the user granted it, and the tools it   *)
(* has in the tool runtime's registry.                                     *)
(*                                                                         *)
(* Every operation is synchronous code on the event loop, so each is one   *)
(* action.  A tool is registered under the pair of its plugin's id and its *)
(* own name: ids hold no slash (dogrulama.py), so "<id>/<tool>" names one  *)
(* pair only.                                                              *)
(***************************************************************************)
EXTENDS Naturals, Sequences, FiniteSets

CONSTANTS
    Plugins,        \* plugin ids
    Packages,       \* packages that pass validation: versions of the plugins
    ToolNames,
    PluginOf,       \* the id in a package's manifest
    Contributes,    \* the names of a package's tools, in order
    Grantable,      \* what a user may grant, members of Capabilities
    NoPackage

(* One level on each axis: none is the least privilege. *)
Capabilities ==
    [fs : {"none", "read", "write"}, net : {"none", "egress"},
     shell : {"none", "exec"}]
Nothing == [fs |-> "none", net |-> "none", shell |-> "none"]

ASSUME PluginsAssumption ==
    /\ NoPackage \notin Packages
    /\ PluginOf \in [Packages -> Plugins]
    /\ Contributes \in [Packages -> Seq(ToolNames)]
    /\ Grantable \subseteq Capabilities

VARIABLES
    entry,          \* the registered package of each id, or NoPackage
    state,          \* ABSENT, or the plugin's lifecycle state
    grants,         \* what each id is granted
    registry        \* whose tool each name runs, or NoPackage

pluginVars == <<entry, state, grants, registry>>

ToolKeys == Plugins \X ToolNames

----------------------------------------------------------------------------
(* The bridge into the tool registry.                                      *)

Key(p, i) == <<PluginOf[p], Contributes[p][i]>>
ToolsOf(p) == {Key(p, i) : i \in DOMAIN Contributes[p]}

(* Whether each of a package's names is still free in reg when its turn    *)
(* comes: a name is registered once only.                                  *)
Fits(p, reg) ==
    \A i \in DOMAIN Contributes[p] :
        /\ reg[Key(p, i)] = NoPackage
        /\ \A j \in 1 .. (i - 1) : Key(p, j) # Key(p, i)

(* Mutant: what was registered before the clash stays. *)
ActivatePartly(p, reg) ==
    [k \in ToolKeys |->
        IF /\ k \in ToolsOf(p)
           /\ Fits(p, reg) \/ k = Key(p, 1)
        THEN p ELSE reg[k]]

(* Registers tool after tool; at the first that does not fit takes back    *)
(* those before it.                                                        *)
Activate(p, reg) ==
    [k \in ToolKeys |-> IF Fits(p, reg) /\ k \in ToolsOf(p) THEN p ELSE reg[k]]
(* Withdraws the tools of a plugin that is enabled. *)
Deactivate(id) ==
    [k \in ToolKeys |->
        IF state[id] = "ENABLED" /\ k \in ToolsOf(entry[id])
        THEN NoPackage ELSE registry[k]]

----------------------------------------------------------------------------
(* The lifecycle.                                                          *)

Init ==
    /\ entry = [id \in Plugins |-> NoPackage]
    /\ state = [id \in Plugins |-> "ABSENT"]
    /\ grants = [id \in Plugins |-> Nothing]
    /\ registry = [k \in ToolKeys |-> NoPackage]

(* load_directory registers the packages it finds one by one; one whose id *)
(* is taken is reported and skipped.                                       *)
Load(p) ==
    /\ state[PluginOf[p]] = "ABSENT"
    /\ entry' = [entry EXCEPT ![PluginOf[p]] = p]
    /\ state' = [state EXCEPT ![PluginOf[p]] = "DISABLED"]
    /\ UNCHANGED <<grants, registry>>

Enable(id) ==
    /\ state[id] \in {"DISABLED", "FAILED"}
    /\ registry' = Activate(entry[id], registry)
    /\ state' = [state EXCEPT ![id] =
           IF Fits(entry[id], registry) THEN "ENABLED" ELSE "FAILED"]
    /\ UNCHANGED <<entry, grants>>

(* Mutant: only the state is set. *)
DisableInNameOnly(id) ==
    /\ state[id] = "ENABLED"
    /\ state' = [state EXCEPT ![id] = "DISABLED"]
    /\ UNCHANGED <<entry, grants, registry>>
Disable(id) ==
    /\ state[id] = "ENABLED"
    /\ registry' = Deactivate(id)
    /\ state' = [state EXCEPT ![id] = "DISABLED"]
    /\ UNCHANGED <<entry, grants>>

Unload(id) ==
    /\ state[id] # "ABSENT"
    /\ registry' = Deactivate(id)
    /\ entry' = [entry EXCEPT ![id] = NoPackage]
    /\ state' = [state EXCEPT ![id] = "ABSENT"]
    /\ UNCHANGED grants

(* Unload, if there is anything to unload, register, and enable again what *)
(* was enabled; if that fails the new package is left quarantined.         *)
Reload(p) ==
    LET id == PluginOf[p]
    IN  /\ entry' = [entry EXCEPT ![id] = p]
        /\ state' = [state EXCEPT ![id] =
               IF @ # "ENABLED" THEN "DISABLED"
               ELSE IF Fits(p, Deactivate(id)) THEN "ENABLED" ELSE "FAILED"]
        /\ registry' = IF state[id] = "ENABLED"
                       THEN Activate(p, Deactivate(id)) ELSE registry
        /\ UNCHANGED grants

Recover(id) ==
    /\ state[id] = "FAILED"
    /\ state' = [state EXCEPT ![id] = "DISABLED"]
    /\ UNCHANGED <<entry, grants, registry>>

(* The user's decision; no operation of the lifecycle takes one back. *)
Grant(id, caps) ==
    /\ grants' = [grants EXCEPT ![id] = caps]
    /\ UNCHANGED <<entry, state, registry>>
Revoke(id) ==
    /\ grants' = [grants EXCEPT ![id] = Nothing]
    /\ UNCHANGED <<entry, state, registry>>

PluginStep ==
    \/ \E p \in Packages : Load(p) \/ Reload(p)
    \/ \E id \in Plugins :
          \/ Enable(id) \/ Disable(id) \/ Unload(id) \/ Recover(id) \/ Revoke(id)
          \/ \E caps \in Grantable : Grant(id, caps)
============================================================================
