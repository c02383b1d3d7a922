----------------------------- MODULE Knowledge -----------------------------
(***************************************************************************)
(* The project graph (depo/repos/graf): nodes and typed edges that are     *)
(* inserted and never deleted, and the queries over them.  A query is      *)
(* several reads, each a unit of its own: writers run between them.        *)
(***************************************************************************)
EXTENDS Naturals, Sequences, FiniteSets

CONSTANTS
    Entities,
    Edges,          \* the edges there may be: [source, target, kind]
    EdgeKinds,
    Queries,        \* calls of path, subgraph, neighbors and impact
    Questions,           \* their arguments
    Nil

ASSUME KnowledgeAssumption ==
    /\ Edges \subseteq [source : Entities, target : Entities, kind : EdgeKinds]
    /\ \A c \in Questions :
          /\ c.what \in {"path", "subgraph", "neighbors", "impact"} /\ c.max \in Nat
          /\ c.what = "path" => c.from \in Entities /\ c.to \in Entities
          /\ c.what # "path" => c.seeds \subseteq Entities
          /\ c.what = "subgraph" => c.direction = "both" /\ c.ks = {}
    /\ Nil \notin Entities /\ Nil \notin Seq(Edges)

VARIABLES
    nodes,          \* the entities with a row
    edges,
    doing,          \* what each query is at
    search,           \* its arguments
    frontier,       \* path: the nodes of this layer yet to be read
    ahead,          \* and those of the next
    came,           \* the edge each visited node was reached by
    hops,           \* how many layers have been begun
    ids,            \* the ids it has found to be in reach
    result,         \* its answer
    first           \* the edges there were when it began

graphVars == <<nodes, edges, doing, search, frontier, ahead, came, hops, ids, result, first>>
walkVars == <<frontier, ahead, came, hops>>

Idle == [what |-> Nil]

GraphInit ==
    /\ nodes = {} /\ edges = {}
    /\ doing = [q \in Queries |-> "idle"]
    /\ search = [q \in Queries |-> Idle]
    /\ frontier = [q \in Queries |-> {}]
    /\ ahead = [q \in Queries |-> {}]
    /\ came = [q \in Queries |-> [v \in {} |-> Nil]]
    /\ hops = [q \in Queries |-> 0]
    /\ ids = [q \in Queries |-> {}]
    /\ result = [q \in Queries |-> Nil]
    /\ first = [q \in Queries |-> {}]

UpsertNode(n) ==
    /\ nodes' = nodes \cup {n}
    /\ UNCHANGED <<edges, doing, search, walkVars, ids, result, first>>

(* An edge's ends need not have rows. *)
UpsertEdge(e) ==
    /\ edges' = edges \cup {e}
    /\ UNCHANGED <<nodes, doing, search, walkVars, ids, result, first>>

Begins(q, c) ==
    /\ doing[q] = "idle"
    /\ search' = [search EXCEPT ![q] = c]
    /\ first' = [first EXCEPT ![q] = edges]

Concludes(q, answer) ==
    /\ doing' = [doing EXCEPT ![q] = "done"]
    /\ result' = [result EXCEPT ![q] = answer]

----------------------------------------------------------------------------
(* path: breadth first, one read per node.                                 *)

Layer(q, n, these) ==
    IF n > search'[q].max \/ these = {}
    THEN Concludes(q, Nil) /\ UNCHANGED <<frontier, hops>>
    ELSE /\ doing' = [doing EXCEPT ![q] = "walking"]
         /\ frontier' = [frontier EXCEPT ![q] = these]
         /\ hops' = [hops EXCEPT ![q] = n]
         /\ UNCHANGED result

Path(q, c) ==
    /\ c.what = "path"
    /\ Begins(q, c)
    /\ IF c.from = c.to THEN Concludes(q, <<>>) /\ UNCHANGED <<frontier, hops>>
       ELSE Layer(q, 1, {c.from})
    /\ came' = [came EXCEPT ![q] = [v \in {c.from} |-> Nil]]
    /\ UNCHANGED <<nodes, edges, ahead, ids>>

(* Back from the target along the edges the nodes were reached by. *)
Chain(reached, from, to) ==
    LET upto[v \in DOMAIN reached] ==
            IF v = from THEN <<>> ELSE Append(upto[reached[v].source], reached[v])
    IN  upto[to]

(* Mutant: what a read finds is read in the same layer.                    *)
ReadOutgoingDeep(q) ==
    \E v \in frontier[q] :
        LET out == {e \in edges : e.source = v}
            new == {e.target : e \in out} \ DOMAIN came[q]
            to == search[q].to
        IN  /\ doing[q] = "walking"
            /\ \E by \in [new -> out] :
                  /\ \A w \in new : by[w].target = w
                  /\ came' = [came EXCEPT ![q] =
                        [w \in DOMAIN @ \cup new |-> IF w \in new THEN by[w] ELSE @[w]]]
            /\ UNCHANGED <<search, ahead>>
            /\ IF to \in new
               THEN /\ Concludes(q, Chain(came'[q], search[q].from, to))
                    /\ UNCHANGED <<frontier, hops>>
               ELSE Layer(q, hops[q], (frontier[q] \cup new) \ {v})
            /\ UNCHANGED <<nodes, edges, ids, first>>

(* One of the layer's nodes is read; the first edge to a new node counts.  *)
(* In which order rows come is the database's.                             *)
ReadOutgoing(q) ==
    \E v \in frontier[q] :
        LET out == {e \in edges : e.source = v}
            new == {e.target : e \in out} \ DOMAIN came[q]
            to == search[q].to
        IN  /\ doing[q] = "walking"
            /\ \E by \in [new -> out] :
                  /\ \A w \in new : by[w].target = w
                  /\ came' = [came EXCEPT ![q] =
                        [w \in DOMAIN @ \cup new |-> IF w \in new THEN by[w] ELSE @[w]]]
            /\ UNCHANGED search
            /\ IF to \in new
               THEN /\ Concludes(q, Chain(came'[q], search[q].from, to))
                    /\ UNCHANGED <<frontier, ahead, hops>>
               ELSE IF frontier[q] = {v}
               THEN /\ Layer(q, hops[q] + 1, ahead[q] \cup new)
                    /\ ahead' = [ahead EXCEPT ![q] = {}]
               ELSE /\ frontier' = [frontier EXCEPT ![q] = @ \ {v}]
                    /\ ahead' = [ahead EXCEPT ![q] = @ \cup new]
                    /\ UNCHANGED <<doing, hops, result>>
            /\ UNCHANGED <<nodes, edges, ids, first>>

----------------------------------------------------------------------------
(* neighbors, impact and subgraph: the ids in reach, then their rows, then *)
(* the edges among them.                                                   *)

Across(direction, ks, level) ==
    LET some == {e \in edges : ks = Nil \/ e.kind \in ks}
    IN  (IF direction = "incoming" THEN {} ELSE {e.target : e \in {f \in some : f.source \in level}})
        \cup
        (IF direction = "outgoing" THEN {} ELSE {e.source : e \in {f \in some : f.target \in level}})

(* The recursive query's rows are pairs of an id and a depth. *)
Reach(seeds, depth, direction, ks) ==
    LET level[n \in 0 .. depth] ==
            IF n = 0 THEN seeds ELSE Across(direction, ks, level[n - 1])
    IN  UNION {level[n] : n \in 0 .. depth}

(* impact is of incoming edges, a subgraph's reach both ways; no kinds     *)
(* given, or an empty list of them, are all kinds.                         *)
Near(q, c) ==
    /\ c.what # "path"
    /\ Begins(q, c)
    /\ ids' = [ids EXCEPT ![q] =
            Reach(c.seeds, c.max, c.direction, IF c.ks = {} THEN Nil ELSE c.ks)
                \ (IF c.what = "subgraph" THEN {} ELSE c.seeds)]
    /\ doing' = [doing EXCEPT ![q] = "nodes"]
    /\ UNCHANGED <<nodes, edges, walkVars, result>>

ReadNodes(q) ==
    /\ doing[q] = "nodes"
    /\ result' = [result EXCEPT ![q] = [nodes |-> nodes \cap ids[q], edges |-> {}]]
    /\ doing' = [doing EXCEPT ![q] = IF search[q].what = "subgraph" THEN "edges" ELSE "done"]
    /\ UNCHANGED <<nodes, edges, search, walkVars, ids, first>>

ReadEdges(q) ==
    /\ doing[q] = "edges"
    /\ Concludes(q, [result[q] EXCEPT !.edges =
            {e \in edges : e.source \in ids[q] /\ e.target \in ids[q]}])
    /\ UNCHANGED <<nodes, edges, search, walkVars, ids, first>>

GraphStep ==
    \/ \E n \in Entities : UpsertNode(n)
    \/ \E e \in Edges : UpsertEdge(e)
    \/ \E q \in Queries :
          \/ ReadOutgoing(q) \/ ReadNodes(q) \/ ReadEdges(q)
          \/ \E c \in Questions : Path(q, c) \/ Near(q, c)

----------------------------------------------------------------------------
(* A walk of n edges, taken from some, from one entity to another, along   *)
(* them or either way.                                                     *)
Walk(some, eitherWay, from, to, n) ==
    \E w \in [0 .. n -> Entities] :
        /\ w[0] = from /\ w[n] = to
        /\ \A i \in 0 .. n - 1 : \E e \in some :
              \/ e.source = w[i] /\ e.target = w[i + 1]
              \/ eitherWay /\ e.target = w[i] /\ e.source = w[i + 1]

Done(q, what) == doing[q] = "done" /\ search[q].what = what

(* A path found is one of stored edges, from source to target, within the  *)
(* hops allowed, and no shorter one was there when the search began; if    *)
(* none is found there was none, whatever was inserted between the reads.  *)
PathShortest ==
    \A q \in Queries : Done(q, "path") =>
        LET c == search[q]
            p == result[q]
        IN  /\ p # Nil =>
                  /\ \A i \in DOMAIN p :
                        /\ p[i] \in edges
                        /\ p[i].source = IF i = 1 THEN c.from ELSE p[i - 1].target
                  /\ IF p = <<>> THEN c.from = c.to ELSE p[Len(p)].target = c.to
                  /\ c.from = c.to \/ Len(p) <= c.max
            /\ \A n \in 0 .. c.max :
                  Walk(first[q], FALSE, c.from, c.to, n) => p # Nil /\ Len(p) <= n

(* A subgraph read while edges are inserted hangs together: each of its    *)
(* nodes is within the hops of a seed by edges of the subgraph itself, and *)
(* none that was so near when the query began is left out.                 *)
SubgraphConnects ==
    \A q \in Queries : Done(q, "subgraph") =>
        LET c == search[q]
            NearBy(some, v) ==
                \E s \in c.seeds, n \in 0 .. c.max : Walk(some, TRUE, s, v, n)
        IN  /\ \A v \in result[q].nodes : NearBy(result[q].edges, v)
            /\ \A v \in Entities : NearBy(first[q], v) => v \in ids[q]

(* What a query of several reads answers is true of the graph, though it   *)
(* grows between them.                                                     *)
GraphAnswers == PathShortest /\ SubgraphConnects
============================================================================
