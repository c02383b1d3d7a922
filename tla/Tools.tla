------------------------------- MODULE Tools -------------------------------
(***************************************************************************)
(* The tool runtime with its plugins: Plugins and Dispatch together.  A    *)
(* tool call finds its tool in the registry the plugin host writes, and    *)
(* asks first the grant of the tool's plugin, then the session, whether it *)
(* may run it (eklentiler/izin.py, araclar/izin.py).  The plugin may be    *)
(* disabled, replaced or unloaded while a call asks or runs.               *)
(*                                                                         *)
(* A tool of the application itself is asked for no grant; it is otherwise *)
(* dispatched alike and left out.  A skill is invoked while it is enabled, *)
(* and an agent may be run at any time.                                    *)
(***************************************************************************)
EXTENDS Plugins, Skills, Dispatch

CONSTANTS
    Needs,          \* the capability of each package's tools
    Effect,         \* and their side effect
    Standing,       \* capabilities with a standing grant of the session
    Modes           \* permission modes the session may be in

NoCapability == "none"
Sensitive == {"mutate", "exec", "egress"}

ASSUME ToolsAssumption ==
    /\ Needs \in [Packages \X ToolNames ->
           {NoCapability, "fs.read", "fs.write", "shell.exec", "net.egress",
            "open.external", "secret.use", "workspace.switch"}]
    /\ Effect \in [Packages \X ToolNames -> {"none", "read"} \cup Sensitive]
    /\ Modes \subseteq {"plan", "ask", "auto"}

VARIABLES
    mode,           \* the session's permission mode
    target          \* the package and name of the tool each call resolved

vars == <<pluginVars, skillVars, callVars, mode, target>>

----------------------------------------------------------------------------
(* Permission.                                                             *)

(* What a plugin cannot declare is never covered. *)
Covers(caps, need) ==
    \/ need = "fs.read" /\ caps.fs \in {"read", "write"}
    \/ need = "fs.write" /\ caps.fs = "write"
    \/ need = "shell.exec" /\ caps.shell = "exec"
    \/ need = "net.egress" /\ caps.net = "egress"

GrantedTo(id, tool) == Needs[tool] = NoCapability \/ Covers(grants[id], Needs[tool])

(* Mutant: standing grants are looked at before the mode. *)
DecideGrantsFirst(tool) ==
    CASE Needs[tool] = NoCapability \/ Effect[tool] \notin Sensitive
            \/ Needs[tool] \in Standing -> "allow"
      [] OTHER ->
         CASE mode = "plan" -> "deny"
           [] mode = "ask" -> "prompt"
           [] mode = "auto" -> IF Effect[tool] = "egress" THEN "deny" ELSE "allow"

Decide(tool) ==
    CASE Needs[tool] = NoCapability \/ Effect[tool] \notin Sensitive -> "allow"
      [] OTHER ->
         CASE mode = "plan" -> "deny"
           [] mode # "plan" /\ Needs[tool] \in Standing -> "allow"
           [] mode = "ask" /\ Needs[tool] \notin Standing -> "prompt"
           [] mode = "auto" /\ Needs[tool] \notin Standing ->
                IF Effect[tool] = "egress" THEN "deny" ELSE "allow"

(* A gate that can ask brings back the user's answer; for the others a     *)
(* question is a denial.                                                   *)
Answers(tool) ==
    CASE Decide(tool) = "allow" -> {TRUE}
      [] Decide(tool) = "deny" -> {FALSE}
      [] Decide(tool) = "prompt" -> {TRUE, FALSE}

----------------------------------------------------------------------------
(* A tool call from resolve to the answer of the gate.                     *)

Resolves(k) == <<registry[k], k[2]>>

UnknownTool(c, k) ==
    /\ registry[k] = NoPackage
    /\ NotFound(c)
    /\ UNCHANGED target

NotGranted(c, i, k) ==
    /\ registry[k] # NoPackage
    /\ ~ GrantedTo(k[1], Resolves(k))
    /\ DeniedAtOnce(c, i)
    /\ UNCHANGED target

Asks(c, i, k) ==
    /\ registry[k] # NoPackage
    /\ GrantedTo(k[1], Resolves(k))
    /\ BeginAsking(c, i)
    /\ target' = [target EXCEPT ![c] = Resolves(k)]

CallTool(c, i, k) == UnknownTool(c, k) \/ NotGranted(c, i, k) \/ Asks(c, i, k)

(* A skill that is not registered is not found. *)
Runs(c, k) ==
    /\ k[1] = "skill" => invocable # {}
    /\ BeginRun(c, k)
    /\ UNCHANGED target
NoSkill(c) ==
    /\ invocable # Skill
    /\ NotFound(c)
    /\ UNCHANGED target

Answered(c) ==
    /\ pc[c] = "asking"
    /\ \E allow \in Answers(target[c]) : GateAnswers(c, allow)
    /\ UNCHANGED target

----------------------------------------------------------------------------
Unresolved == <<NoPackage, NoPackage>>

ToolsInit ==
    /\ Init
    /\ SkillsInit
    /\ CallInit
    /\ mode \in Modes
    /\ target = [c \in Calls |-> Unresolved]

ToolCallStep ==
    \/ \E c \in Calls, i \in Ids, k \in ToolKeys : CallTool(c, i, k)
    \/ \E c \in Calls, k \in Keys : Runs(c, k)
    \/ \E c \in Calls : NoSkill(c) \/ Answered(c)
    \/ RaceStep /\ UNCHANGED target

ToolsNext ==
    /\ \/ PluginStep /\ UNCHANGED <<skillVars, callVars, target>>
       \/ SkillStep /\ UNCHANGED <<pluginVars, callVars, target>>
       \/ ToolCallStep /\ UNCHANGED <<pluginVars, skillVars>>
    /\ UNCHANGED mode

Spec == ToolsInit /\ [][ToolsNext]_vars

----------------------------------------------------------------------------
(* Every variable keeps its type; a plugin has a package while registered. *)
TypeOK ==
    /\ entry \in [Plugins -> Packages \cup {NoPackage}]
    /\ state \in [Plugins -> {"ABSENT", "DISABLED", "ENABLED", "FAILED"}]
    /\ \A id \in Plugins :
           IF state[id] = "ABSENT" THEN entry[id] = NoPackage
           ELSE entry[id] \in Packages /\ PluginOf[entry[id]] = id
    /\ grants \in [Plugins -> Capabilities]
    /\ registry \in [ToolKeys -> Packages \cup {NoPackage}]
    /\ standing \in [Skill -> SkillStates] /\ invocable \subseteq Skill
    /\ CallTypeOK
    /\ mode \in Modes
    /\ target \in [Calls -> (Packages \X ToolNames) \cup {Unresolved}]

(* The tools that can be called are those of the enabled plugins, all of   *)
(* them, each from the package that is registered now: whatever loading,   *)
(* replacing and failing went before, nothing is half registered and       *)
(* nothing is left behind.                                                 *)
ToolsMatch ==
    \A k \in ToolKeys :
        registry[k] =
            IF state[k[1]] = "ENABLED" /\ k \in ToolsOf(entry[k[1]])
            THEN entry[k[1]] ELSE NoPackage

(* The same of skills: what can be used is what is enabled. *)
UsableIsEnabled == ToolsMatch /\ OnlyEnabled

(* A call of a plugin's tool gets as far as the session's gate only if the *)
(* plugin is enabled, the tool is from the package enabled now, and its    *)
(* grant covers the capability the tool needs.                             *)
LeastPrivilege ==
    [][\A c \in Calls :
          pc[c] # "asking" /\ pc'[c] = "asking" /\ target'[c] # Unresolved =>
              LET id == PluginOf[target'[c][1]]
              IN  /\ state[id] = "ENABLED" /\ entry[id] = target'[c][1]
                  /\ GrantedTo(id, target'[c])]_vars

(* Planning is read-only: no sensitive tool ever starts, whatever was      *)
(* granted; and egress is never started without a standing grant or the    *)
(* user asked.                                                             *)
PlanIsReadOnly ==
    \A c \in Calls :
        LET sensitive == /\ target[c] # Unresolved /\ work[c] # "none"
                         /\ Needs[target[c]] # NoCapability
                         /\ Effect[target[c]] \in Sensitive
        IN  /\ sensitive => mode # "plan"
            /\ sensitive /\ Effect[target[c]] = "egress" =>
                   mode = "ask" \/ Needs[target[c]] \in Standing
============================================================================
