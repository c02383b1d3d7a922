------------------------------ MODULE MCStores -----------------------------
(* Where the Core keeps things: the journal, and the database being        *)
(* opened, with the memory, the graph and the indexes it holds.  They have *)
(* nothing in common but that the database serializes the units of the     *)
(* last four, so a behaviour uses one.                                     *)
EXTENDS MCJournal, Schema, Memory, Knowledge, Indexes

VARIABLE machine
machineVars == <<machine, vars, schemaVars, memoryVars, graphVars, indexVars>>

MCInit ==
    /\ machine \in {"journal", "schema", "memory", "graph", "indexes"}
    /\ Init /\ SchemaInit /\ MemoryInit /\ GraphInit /\ IndexesInit
    /\ machine # "journal" => fsync /\ dirEntry = "none"

MCNext ==
    /\ UNCHANGED machine
    /\ IF machine = "journal" THEN Next ELSE UNCHANGED vars
    /\ IF machine = "schema" THEN SchemaStep ELSE UNCHANGED schemaVars
    /\ IF machine = "memory" THEN MemoryStep ELSE UNCHANGED memoryVars
    /\ IF machine = "graph" THEN GraphStep ELSE UNCHANGED graphVars
    /\ IF machine = "indexes" THEN IndexesStep ELSE UNCHANGED indexVars

MCSpec == MCInit /\ [][MCNext]_machineVars /\ Fairness

(* An older build and two newer ones. *)
MCKnows == [o1 |-> 1, o2 |-> 2, o3 |-> 2]
MCSizes == <<1, 2>>

MCDrafts ==
    {[scope |-> "workspace", layer |-> "project", state |-> "active", pinned |-> FALSE,
      salience |-> n] : n \in 1 .. 2}
    \cup
    {[scope |-> "global", layer |-> "profile", state |-> "candidate", pinned |-> TRUE,
      salience |-> 1]}

MCAsked ==
    {[scope |-> "workspace", layers |-> Nothing, limit |-> 1],
     [scope |-> "workspace", layers |-> {"project"}, limit |-> 2],
     [scope |-> "global", layers |-> {"project"}, limit |-> 1]}

Calls(s, t) == [source |-> s, target |-> t, kind |-> "calls"]
MCEdges ==
    {Calls("a", "b"), Calls("b", "c"), Calls("a", "c"), Calls("c", "d"),
     [source |-> "d", target |-> "a", kind |-> "tests"]}
MCQuestions ==
    {[what |-> "path", from |-> "a", to |-> t, max |-> n] : t \in {"a", "c", "d"}, n \in 0 .. 3}
    \cup
    {[what |-> "subgraph", seeds |-> s, max |-> n, direction |-> "both", ks |-> {}] :
        s \in {{"a"}, {"a", "d"}}, n \in 0 .. 2}
    \cup
    {[what |-> "neighbors", seeds |-> {"a"}, max |-> n, direction |-> "outgoing", ks |-> ks] :
        n \in 0 .. 2, ks \in {{}, {"tests"}}}
    \cup
    {[what |-> "impact", seeds |-> {"a"}, max |-> 2, direction |-> "incoming", ks |-> {}]}
=============================================================================
