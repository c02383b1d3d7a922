----------------------------- MODULE MCDispatch ----------------------------
(* Two machines over the bounded call; a behaviour uses one.  Nested: a    *)
(* client invokes a skill, which may run an agent and a tool; the agent    *)
(* may run the tool as well.  Tools: one call, beside the life of a plugin *)
(* and of a skill.  The plugin has versions: the second has a tool more    *)
(* and asks for more, the third contributes a name twice and cannot be     *)
(* enabled.                                                                *)
EXTENDS Nesting, Tools

CONSTANTS review, check, apply

MCKindOf == [c \in {review, check, apply} |->
    CASE c = review -> "skill" [] c = check -> "agent" [] OTHER -> "tool"]
MCScope == [c \in {review, check, apply, Nobody} |->
    CASE c = Nobody -> {review}
      [] c = review -> {check, apply}
      [] c = check -> {apply}
      [] OTHER -> {}]

CONSTANTS plugin, one, two, twice, read, send, write

Tool == {one, two, twice} \X {read, send}

MCPluginOf == [p \in {one, two, twice} |-> plugin]
MCContributes ==
    [p \in {one, two, twice} |->
        CASE p = one -> <<read>>
          [] p = two -> <<read, send>>
          [] p = twice -> <<send, read, send>>]
MCNeeds == [t \in Tool |->
    IF t[2] = send THEN "net.egress"
    ELSE IF t[1] = one THEN "fs.read" ELSE "fs.write"]
MCEffect == [t \in Tool |->
    IF t[2] = send THEN "egress" ELSE IF t[1] = one THEN "read" ELSE "mutate"]
MCGrantable ==
    {[Nothing EXCEPT !.fs = "read"], [Nothing EXCEPT !.fs = "write", !.net = "egress"]}
MCStanding == {"fs.write"}
MCModes == {"plan", "ask", "auto"}

VARIABLE machine
toolVars == <<pluginVars, skillVars, mode, target>>
allVars == <<machine, nestVars, toolVars>>

MCInit ==
    /\ machine \in {"nested", "tools"}
    /\ ToolsInit /\ NestedInit
    /\ machine = "nested" => mode = "plan"

(* Of a tool call, too, the code that runs is told of its cancellation.    *)
MCNext ==
    /\ UNCHANGED machine
    /\ \/ machine = "nested" /\ NestedNext /\ UNCHANGED toolVars
       \/ machine = "tools" /\ ToolsNext /\ UNCHANGED <<maker, heard>>
       \/ machine = "tools" /\ Reach(apply) /\ UNCHANGED toolVars
    /\ machine = "tools" => \A c \in Calls \ {apply} : pc'[c] = "idle"

MCSpec == MCInit /\ [][MCNext]_allVars /\ NestedFairness
============================================================================
