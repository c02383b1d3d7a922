--------------------------- MODULE ServicesProofs --------------------------
(***************************************************************************)
(* Proofs about machines of MCStores and MCServices, each by itself: a     *)
(* store being opened, its memory, its project graph and its indexes, the  *)
(* catalog of models, an agent session, the channel's messages and the     *)
(* frames they travel in, a Core coming up, a scan for plugins, and        *)
(* routing, for any requests, models, providers and needs.                 *)
(***************************************************************************)
EXTENDS Schema, Memory, Knowledge, Indexes, Catalog, AgentSessions, Messages, Framing,
        Routing, Boot, Discovery,
        WellFoundedInduction, FiniteSetTheorems, SequenceTheorems, TLAPS

----------------------------------------------------------------------------
(* Opening a store.                                                        *)

(* The tables are those of the migrations up to the version. *)
BuiltInv ==
    /\ version \in 0 .. Len(Sizes)
    /\ made = UNION {Tables(m) : m \in {k \in Migrations : k <= version}}

(* An opener between its reading of the version and its end: what it is to *)
(* apply is no more than the next, and less if another was faster.         *)
OpenerInv ==
    \A o \in Openers :
        /\ stage[o] \in {"between", "applying"} => next[o] \in 1 .. Knows[o] /\ next[o] <= version + 1
        /\ stage[o] = "open" => version >= Knows[o]
        /\ stage[o] = "applying" <=> writer = o

(* A draft holds tables that nobody had made. *)
DraftInv ==
    /\ writer = NoOpener => draft = {}
    /\ writer # NoOpener => draft \subseteq Tables(next[writer]) /\ draft \cap made = {}

SchemaInv == SchemaTypeOK /\ BuiltInv /\ OpenerInv /\ DraftInv

(* A migration whose tables are all new is the next one. *)
LEMMA OnlyTheNextFits ==
    ASSUME SchemaInv, NEW o \in Openers, stage[o] = "applying", draft = Tables(next[o])
    PROVE  next[o] = version + 1 /\ next[o] \in Migrations
<1>1. writer = o /\ next[o] \in 1 .. Knows[o] /\ next[o] <= version + 1
  BY DEF SchemaInv, OpenerInv
<1>2. Knows[o] \in Migrations /\ Migrations = 1 .. Len(Sizes) /\ Len(Sizes) \in Nat
  BY SchemaAssumption DEF Migrations
<1>3. next[o] \in Migrations
  BY <1>1, <1>2
<1>4. Sizes[next[o]] \in Nat \ {0}
  BY <1>3, SchemaAssumption DEF Migrations
<1>5. <<next[o], 1>> \in Tables(next[o])
  BY <1>4 DEF Tables
<1>6. <<next[o], 1>> \notin made
  BY <1>1, <1>5, SchemaAssumption DEF SchemaInv, DraftInv
<1>7. ~(next[o] <= version)
  BY <1>3, <1>5, <1>6 DEF SchemaInv, BuiltInv
<1> QED
  BY <1>1, <1>2, <1>3, <1>7 DEF SchemaInv, SchemaTypeOK

(* An empty file satisfies the invariant.                                  *)
LEMMA SchemaStarts == SchemaInit => SchemaInv
<1> SUFFICES ASSUME SchemaInit PROVE SchemaInv
  OBVIOUS
<1>1. SchemaTypeOK /\ DraftInv
  BY DEF SchemaInit, SchemaTypeOK, OpenStages, DraftInv
<1>2. {k \in Migrations : k <= version} = {} /\ Len(Sizes) \in Nat
  BY SchemaAssumption DEF SchemaInit, Migrations
<1>3. BuiltInv
  BY <1>2 DEF BuiltInv, SchemaInit
<1>4. OpenerInv
  BY SchemaAssumption DEF OpenerInv, SchemaInit
<1> QED
  BY <1>1, <1>3, <1>4 DEF SchemaInv

(* Every step of an opener keeps it; only the writer has a draft.          *)
LEMMA SchemaKept == SchemaInv /\ [SchemaStep]_schemaVars => SchemaInv'
<1> SUFFICES ASSUME SchemaInv, [SchemaStep]_schemaVars PROVE SchemaInv'
  OBVIOUS
<1> USE SchemaAssumption
<1>a. Knows \in [Openers -> Migrations] /\ Migrations = 1 .. Len(Sizes) /\ Len(Sizes) \in Nat
  BY DEF Migrations
<1> USE DEF SchemaInv, SchemaTypeOK, OpenStages, SetStage
<1>1. ASSUME NEW o \in Openers, OpenFile(o) PROVE SchemaInv'
  BY <1>1 DEF OpenFile, BuiltInv, OpenerInv, DraftInv, Tables
<1>2. ASSUME NEW o \in Openers, ReadVersion(o) PROVE SchemaInv'
  <2>0. /\ next' = [next EXCEPT ![o] = version + 1]
        /\ \/ version > Knows[o] /\ stage' = [stage EXCEPT ![o] = "refused"]
           \/ version = Knows[o] /\ stage' = [stage EXCEPT ![o] = "open"]
           \/ version < Knows[o] /\ stage' = [stage EXCEPT ![o] = "between"]
        /\ stage[o] = "opening" /\ UNCHANGED <<version, made, writer, draft>>
    <3>1. version > Knows[o] \/ version = Knows[o] \/ version < Knows[o]
      BY <1>a
    <3>2. version < Knows[o] => ~(version > Knows[o]) /\ version # Knows[o]
      BY <1>a
    <3>3. version = Knows[o] => ~(version > Knows[o])
      BY <1>a
    <3> QED
      BY <1>2, <3>1, <3>2, <3>3 DEF ReadVersion
  <2>a. SchemaTypeOK'
    <3>1. next' \in [Openers -> Nat]
      BY <2>0
    <3>2. stage' \in [Openers -> OpenStages]
      BY <2>0
    <3> QED BY <2>0, <3>1, <3>2
  <2>1. BuiltInv'
    BY <2>0 DEF BuiltInv, Tables
  <2>2. OpenerInv'
    BY <2>0, <1>a DEF OpenerInv
  <2>3. writer # o
    BY <2>0 DEF OpenerInv
  <2>4. DraftInv'
    BY <2>0, <2>3 DEF DraftInv, Tables
  <2> QED BY <2>a, <2>1, <2>2, <2>4
<1>3. ASSUME NEW o \in Openers, BeginMigration(o) PROVE SchemaInv'
  BY <1>3 DEF BeginMigration, BuiltInv, OpenerInv, DraftInv, Tables
<1>4. ASSUME NEW o \in Openers, Statement(o) PROVE SchemaInv'
  <2>0. writer = o
    BY <1>4 DEF Statement, OpenerInv
  <2> QED
    BY <1>4, <2>0 DEF Statement, BuiltInv, OpenerInv, DraftInv, Tables
<1>5. ASSUME NEW o \in Openers, CommitMigration(o) PROVE SchemaInv'
  <2>0. /\ stage[o] = "applying" /\ draft = Tables(next[o])
        /\ version' = next[o] /\ made' = made \cup draft
        /\ writer' = NoOpener /\ draft' = {}
        /\ next' = [next EXCEPT ![o] = next[o] + 1]
        /\ \/ next[o] = Knows[o] /\ stage' = [stage EXCEPT ![o] = "open"]
           \/ next[o] # Knows[o] /\ stage' = [stage EXCEPT ![o] = "between"]
    BY <1>5 DEF CommitMigration
  <2>1. next[o] = version + 1 /\ next[o] \in Migrations
    BY <2>0, OnlyTheNextFits
  <2>2. writer = o /\ next[o] \in 1 .. Knows[o]
    BY <2>0 DEF OpenerInv
  <2>3. {k \in Migrations : k <= version'} = {k \in Migrations : k <= version} \cup {next[o]}
    <3>1. version \in Nat /\ version' = version + 1
      BY <2>0, <2>1
    <3>2. \A k \in Migrations : k <= version' <=> k <= version \/ k = next[o]
      BY <3>1, <2>1, <1>a
    <3> QED BY <3>2, <2>1
  <2>4. made' = UNION {Tables(m) : m \in {k \in Migrations : k <= version'}}
    <3>1. made' = made \cup Tables(next[o])
      BY <2>0
    <3>2. made = UNION {Tables(m) : m \in {k \in Migrations : k <= version}}
      BY DEF BuiltInv
    <3> DEFINE old == {k \in Migrations : k <= version}
    <3>3. made' = UNION {Tables(m) : m \in old \cup {next[o]}}
      BY <3>1, <3>2
    <3> QED BY <2>3, <3>3
  <2>5. BuiltInv'
    BY <2>0, <2>1, <2>4, <1>a DEF BuiltInv, Tables
  <2>6. SchemaTypeOK'
    <3>1. next' \in [Openers -> Nat] /\ version' \in Nat
      BY <2>0, <2>1
    <3>2. stage' \in [Openers -> OpenStages]
      BY <2>0
    <3> QED BY <2>0, <3>1, <3>2
  <2>7. OpenerInv'
    BY <2>0, <2>1, <2>2, <1>a DEF OpenerInv
  <2>8. DraftInv'
    BY <2>0 DEF DraftInv
  <2> QED BY <2>5, <2>6, <2>7, <2>8
<1>6. ASSUME NEW o \in Openers, FailStatement(o) PROVE SchemaInv'
  <2>0. writer = o
    BY <1>6 DEF FailStatement, OpenerInv
  <2> QED
    BY <1>6, <2>0 DEF FailStatement, Rollback, BuiltInv, OpenerInv, DraftInv, Tables
<1>7. ASSUME NEW o \in Openers, FailEarly(o) PROVE SchemaInv'
  BY <1>7 DEF FailEarly, BuiltInv, OpenerInv, DraftInv, Tables
<1>8. ASSUME NEW o \in Openers, Stop(o) PROVE SchemaInv'
  <2>1. CASE writer = o
    BY <1>8, <2>1 DEF Stop, Rollback, BuiltInv, OpenerInv, DraftInv, Tables
  <2>2. CASE writer # o
    <3>1. /\ stage' = [stage EXCEPT ![o] = "closed"]
          /\ UNCHANGED <<version, made, writer, draft, next>>
      BY <1>8, <2>2 DEF Stop, SetStage
    <3>2. SchemaTypeOK' /\ BuiltInv' /\ DraftInv'
      BY <3>1 DEF BuiltInv, DraftInv, Tables
    <3>3. OpenerInv'
      BY <2>2, <3>1 DEF OpenerInv
    <3> QED BY <3>2, <3>3
  <2> QED BY <2>1, <2>2
<1>9. CASE UNCHANGED schemaVars
  BY <1>9 DEF schemaVars, BuiltInv, OpenerInv, DraftInv, Tables
<1> QED
  BY <1>1, <1>2, <1>3, <1>4, <1>5, <1>6, <1>7, <1>8, <1>9 DEF SchemaStep

(* Opening a store, by whomever, raced, failed or interrupted, leaves the  *)
(* schema whole: SchemaWhole holds for any number of openers, builds and   *)
(* migrations.                                                             *)
THEOREM SchemaAlwaysWhole == SchemaInit /\ [][SchemaStep]_schemaVars => []SchemaWhole
<1>1. SchemaInv => SchemaWhole
  BY DEF SchemaInv, BuiltInv, OpenerInv, SchemaWhole
<1> QED
  BY SchemaStarts, SchemaKept, <1>1, PTL

----------------------------------------------------------------------------
(* The memory.                                                             *)

IsItem(x) ==
    /\ DOMAIN x = {"scope", "layer", "state", "pinned", "salience"}
    /\ x.salience \in Nat

(* What was dismissed bears the tombstone; rows and what editors hold are  *)
(* items.                                                                  *)
MemoryInv ==
    /\ dismissed \subseteq forgotten
    /\ DOMAIN rows = Ids /\ \A i \in Ids : rows[i] # Nothing => IsItem(rows[i])
    /\ DOMAIN held = Editors
    /\ \A e \in Editors : held[e] # Nothing => held[e].id \in Ids /\ IsItem(held[e].item)

(* An empty memory satisfies the invariant.                                *)
LEMMA MemoryStarts == MemoryInit => MemoryInv
BY DEF MemoryInit, MemoryInv

(* Every operation on the memory keeps it.                                 *)
LEMMA MemoryKept == MemoryInv /\ [MemoryStep]_memoryVars => MemoryInv'
<1> SUFFICES ASSUME MemoryInv, [MemoryStep]_memoryVars PROVE MemoryInv'
  OBVIOUS
<1> USE DEF MemoryInv
<1>1. ASSUME NEW i \in Ids, Forget(i) PROVE MemoryInv'
  BY <1>1 DEF Forget
<1>2. ASSUME NEW i \in Ids, Purge(i) PROVE MemoryInv'
  BY <1>2 DEF Purge
<1>3. ASSUME NEW i \in Ids, NEW to \in BOOLEAN, SetPinned(i, to) PROVE MemoryInv'
  <2>1. rows' = [rows EXCEPT ![i] = [rows[i] EXCEPT !.pinned = to]] /\ IsItem(rows[i])
    BY <1>3 DEF SetPinned
  <2>2. IsItem([rows[i] EXCEPT !.pinned = to])
    BY <2>1 DEF IsItem
  <2> QED BY <1>3, <2>1, <2>2 DEF SetPinned
<1>4. ASSUME NEW i \in Ids, NEW item \in Drafts, SaveNew(i, item) PROVE MemoryInv'
  <2>1. item # Nothing => IsItem(item)
    BY MemoryAssumption DEF IsItem
  <2> QED BY <1>4, <2>1 DEF SaveNew, Put
<1>5. ASSUME NEW i \in Ids, NEW e \in Editors, Get(e, i) PROVE MemoryInv'
  BY <1>5 DEF Get
<1>6. ASSUME NEW e \in Editors, NEW state \in Edits, SaveHeld(e, state) PROVE MemoryInv'
  <2>1. IsItem([held[e].item EXCEPT !.state = state]) /\ held[e].id \in Ids
    BY <1>6 DEF SaveHeld, IsItem
  <2> QED BY <1>6, <2>1 DEF SaveHeld, Put
<1>7. ASSUME NEW a \in Asked, Recall(a) PROVE MemoryInv'
  BY <1>7 DEF Recall
<1>8. CASE UNCHANGED memoryVars
  BY <1>8 DEF memoryVars
<1> QED
  BY <1>1, <1>2, <1>3, <1>4, <1>5, <1>6, <1>7, <1>8 DEF MemoryStep

Rank(S, i) == Cardinality({j \in S : Ahead(j, i)})

(* Items in a recall stand in a total order, and an item's rank, how many  *)
(* are ahead of it, grows along it.                                        *)
LEMMA RanksFollowOrder ==
    ASSUME MemoryInv, NEW S \in SUBSET Ids, \A i \in S : rows[i] # Nothing
    PROVE  /\ IsFiniteSet(S)
           /\ \A i, j \in S : i # j => Ahead(i, j) \/ Ahead(j, i)
           /\ \A i, j \in S : Ahead(i, j) => Rank(S, i) < Rank(S, j) /\ i # j
           /\ \A i \in S : Rank(S, i) \in 0 .. Cardinality(S) - 1
<1>1. IsFiniteSet(S) /\ Cardinality(S) \in Nat
  BY MemoryAssumption, FS_Subset, FS_CardinalityType
<1>2. \A i \in S : i \in Nat /\ rows[i].salience \in Nat
  BY MemoryAssumption DEF MemoryInv, IsItem
<1>3. \A i, j \in S : i # j => Ahead(i, j) \/ Ahead(j, i)
  BY <1>2 DEF Ahead
<1>4. \A i \in S : ~Ahead(i, i)
  BY <1>2 DEF Ahead
<1>5. \A i, j, k \in S : Ahead(i, j) /\ Ahead(j, k) => Ahead(i, k)
  BY <1>2 DEF Ahead
<1> DEFINE before(i) == {j \in S : Ahead(j, i)}
<1>6. ASSUME NEW i \in S
      PROVE  IsFiniteSet(before(i)) /\ Rank(S, i) = Cardinality(before(i)) /\ Rank(S, i) \in Nat
  <2>1. before(i) \in SUBSET S
    OBVIOUS
  <2>2. IsFiniteSet(before(i))
    BY <1>1, <2>1, FS_Subset
  <2> QED BY <2>2, FS_CardinalityType DEF Rank
<1>7. ASSUME NEW i \in S, NEW j \in S, Ahead(i, j) PROVE Rank(S, i) < Rank(S, j) /\ i # j
  <2>1. before(i) \in SUBSET before(j) /\ before(i) # before(j)
    BY <1>4, <1>5, <1>7
  <2> HIDE DEF before
  <2>2. /\ Cardinality(before(i)) <= Cardinality(before(j))
        /\ Cardinality(before(j)) = Cardinality(before(i)) => before(j) = before(i)
    BY <1>6, <2>1, FS_Subset
  <2> QED BY <1>4, <1>6, <1>7, <2>1, <2>2
<1>8. ASSUME NEW i \in S PROVE Rank(S, i) \in 0 .. Cardinality(S) - 1
  <2>1. before(i) \in SUBSET (S \ {i})
    BY <1>4
  <2>2. IsFiniteSet(S \ {i}) /\ Cardinality(S \ {i}) = Cardinality(S) - 1
    BY <1>1, FS_RemoveElement
  <2> HIDE DEF before
  <2>3. Cardinality(before(i)) <= Cardinality(S \ {i})
    BY <2>1, <2>2, FS_Subset
  <2> QED BY <1>1, <1>6, <2>2, <2>3
<1> QED
  BY <1>1, <1>3, <1>7, <1>8

(* Where something is left out, as many are given as were asked for, and   *)
(* each of them is at least as salient.                                    *)
LEMMA TheFirstAreGiven ==
    ASSUME MemoryInv, NEW S \in SUBSET Ids, \A i \in S : rows[i] # Nothing, NEW n \in Nat,
           NEW j \in S, ~(Rank(S, j) < n)
    PROVE  LET given == {i \in S : Rank(S, i) < n}
           IN  /\ Cardinality(given) = n
               /\ \A i \in given : rows[j].salience <= rows[i].salience
<1> DEFINE given == {i \in S : Rank(S, i) < n}
           N == Cardinality(S)
           rank == [i \in S |-> Rank(S, i)]
           few == [i \in given |-> Rank(S, i)]
<1>1. /\ IsFiniteSet(S)
      /\ \A h, i \in S : h # i => Ahead(h, i) \/ Ahead(i, h)
      /\ \A h, i \in S : Ahead(h, i) => Rank(S, h) < Rank(S, i) /\ h # i
      /\ \A i \in S : Rank(S, i) \in 0 .. N - 1
  BY RanksFollowOrder
<1>2. N \in Nat /\ N # 0
  BY <1>1, FS_CardinalityType, FS_EmptySet
<1> HIDE DEF N
<1>3. \A i \in S : Rank(S, i) \in 0 .. N - 1 /\ Rank(S, i) \in Nat
  BY <1>1, <1>2
<1>4. \A h, i \in S : Rank(S, h) = Rank(S, i) => h = i
  BY <1>1, <1>3
<1>5. rank \in Injection(S, 0 .. N - 1)
  BY <1>3, <1>4 DEF Injection, IsInjective
<1>6. IsFiniteSet(0 .. N - 1) /\ Cardinality(0 .. N - 1) = N
  <2>1. 0 \in Int /\ N - 1 \in Int /\ ~(0 > N - 1) /\ N - 1 - 0 + 1 = N
    BY <1>2
  <2> QED BY <2>1, FS_Interval
<1>7. rank \in Surjection(S, 0 .. N - 1)
  BY <1>5, <1>6, FS_Injection DEF N
<1>8. n <= N - 1
  BY <1>2, <1>3
<1>9. \A m \in 0 .. n - 1 : \E i \in S : Rank(S, i) = m
  <2>1. \A m \in 0 .. N - 1 : \E i \in S : rank[i] = m
    BY <1>7 DEF Surjection
  <2>2. \A m \in 0 .. n - 1 : m \in 0 .. N - 1
    BY <1>2, <1>8
  <2> QED BY <2>1, <2>2
<1>10. few \in Injection(given, 0 .. n - 1)
  <2>1. \A i \in given : Rank(S, i) \in 0 .. n - 1
    BY <1>3
  <2> QED BY <1>4, <2>1 DEF Injection, IsInjective
<1>11. few \in Surjection(given, 0 .. n - 1)
  <2>1. \A m \in 0 .. n - 1 : \E i \in given : few[i] = m
    <3> SUFFICES ASSUME NEW m \in 0 .. n - 1 PROVE \E i \in given : few[i] = m
      OBVIOUS
    <3>1. PICK i \in S : Rank(S, i) = m
      BY <1>9
    <3>2. i \in given
      BY <3>1
    <3> QED BY <3>1, <3>2
  <2> QED BY <1>10, <2>1 DEF Injection, Surjection
<1>12. IsFiniteSet(0 .. n - 1) /\ Cardinality(0 .. n - 1) = n
  <2>1. 0 \in Int /\ n - 1 \in Int /\ (0 > n - 1 => n = 0) /\ n - 1 - 0 + 1 = n
    OBVIOUS
  <2> QED BY <2>1, FS_Interval
<1>13. Cardinality(given) = n
  <2> HIDE DEF few, given
  <2> QED BY <1>10, <1>11, <1>12, FS_Injection
<1>14. ASSUME NEW i \in given PROVE rows[j].salience <= rows[i].salience
  <2>1. ~Ahead(j, i) /\ i # j
    BY <1>1, <1>3
  <2>2. Ahead(i, j)
    BY <1>1, <2>1
  <2>3. rows[i].salience \in Nat /\ rows[j].salience \in Nat
    BY DEF MemoryInv, IsItem
  <2> QED BY <2>2, <2>3 DEF Ahead
<1> QED
  BY <1>13, <1>14

(* A recall gives the first of what may be shown, and all of its order.    *)
LEMMA RecallStep ==
    ASSUME MemoryInv, [MemoryStep]_memoryVars, recalled' # recalled
    PROVE  LET given == {recalled'.ids[n] : n \in DOMAIN recalled'.ids}
           IN  /\ given \cap dismissed = {}
               /\ \A i \in given : \A j \in Shown(recalled'.ask) \ given :
                     /\ rows[j].salience <= rows[i].salience
                     /\ Cardinality(given) = recalled'.ask.limit
<1>1. PICK a \in Asked : Recall(a)
  BY DEF MemoryStep, memoryVars, Forget, Purge, SetPinned, SaveNew, Put, Get, SaveHeld
<1> DEFINE S == Shown(a)
           few == {i \in S : Rank(S, i) < a.limit}
<1>2. PICK q \in [1 .. Cardinality(few) -> few] :
         /\ \A m, n \in DOMAIN q : m < n => Ahead(q[m], q[n])
         /\ recalled' = [ask |-> a, ids |-> q]
  BY <1>1 DEF Recall, Rank
<1>3. S \in SUBSET Ids /\ \A i \in S : rows[i] # Nothing /\ i \notin forgotten
  BY DEF Shown
<1> HIDE DEF S
<1>4. /\ IsFiniteSet(S)
      /\ \A i, j \in S : Ahead(i, j) => i # j
  BY <1>3, RanksFollowOrder
<1>5. IsFiniteSet(few) /\ Cardinality(few) \in Nat
  <2>1. few \in SUBSET S
    OBVIOUS
  <2> HIDE DEF few
  <2> QED BY <1>4, <2>1, FS_Subset, FS_CardinalityType
<1>6. few \subseteq S
  OBVIOUS
<1>7. {q[n] : n \in DOMAIN q} = few
  <2> HIDE DEF few
  <2> DEFINE K == 1 .. Cardinality(few)
  <2>1. IsFiniteSet(K) /\ Cardinality(K) = Cardinality(few)
    <3>1. 1 \in Int /\ Cardinality(few) \in Int
          /\ (1 > Cardinality(few) => Cardinality(few) = 0)
          /\ Cardinality(few) - 1 + 1 = Cardinality(few)
      BY <1>5
    <3> QED BY <3>1, FS_Interval
  <2>2. \A m, n \in K : q[m] = q[n] => m = n
    <3> SUFFICES ASSUME NEW m \in K, NEW n \in K, m < n PROVE q[m] # q[n]
      BY <1>5
    <3> QED BY <1>2, <1>4, <1>6
  <2>3. q \in Injection(K, few)
    BY <1>2, <2>2 DEF Injection, IsInjective
  <2> HIDE DEF K
  <2>4. q \in Surjection(K, few)
    BY <1>5, <2>1, <2>3, FS_Injection
  <2> QED BY <2>3, <2>4 DEF Injection, Surjection
<1>8. recalled'.ids = q /\ recalled'.ask = a
  BY <1>2
<1>9. few \cap dismissed = {}
  BY <1>3, <1>6 DEF MemoryInv
<1>10. ASSUME NEW i \in few, NEW j \in S \ few
       PROVE  rows[j].salience <= rows[i].salience /\ Cardinality(few) = a.limit
  BY <1>3, <1>10, TheFirstAreGiven, MemoryAssumption
<1>11. {recalled'.ids[n] : n \in DOMAIN recalled'.ids} = few
  BY <1>7, <1>8
<1>12. Shown(recalled'.ask) = S
  BY <1>8 DEF S
<1> HIDE DEF few
<1> QED
  BY <1>8, <1>9, <1>10, <1>11, <1>12

(* RecallHonest for any items, editors and questions: what was dismissed   *)
(* is not recalled, and what is left out for the limit is not more salient *)
(* than what is given.                                                     *)
THEOREM RecallAlwaysHonest == MemoryInit /\ [][MemoryStep]_memoryVars => RecallHonest
<1>1. MemoryInv /\ [MemoryStep]_memoryVars =>
        [recalled' # recalled =>
           LET given == {recalled'.ids[n] : n \in DOMAIN recalled'.ids}
           IN  /\ given \cap dismissed = {}
               /\ \A i \in given : \A j \in Shown(recalled'.ask) \ given :
                     /\ rows[j].salience <= rows[i].salience
                     /\ Cardinality(given) = recalled'.ask.limit]_memoryVars
  BY RecallStep
<1> QED
  BY MemoryStarts, MemoryKept, <1>1, PTL DEF RecallHonest

----------------------------------------------------------------------------
(* The chunk indexes.                                                      *)

(* A handle is open only on a table that is made, and every vector is of   *)
(* the table's dimension.                                                  *)
IndexInv ==
    /\ tableDim \in Dims \cup {Missing}
    /\ handleDim \in [Handles -> Dims \cup {Missing}]
    /\ vectors \in [Chunks -> Dims \cup {Missing}]
    /\ \A h \in Handles : handleDim[h] # Missing => tableDim # Missing
    /\ \A c \in Chunks : vectors[c] # Missing => vectors[c] = tableDim

(* Indexes not yet made satisfy the invariant.                             *)
LEMMA IndexesStart == IndexesInit => IndexInv
BY DEF IndexesInit, IndexInv

(* Openings, upserts and searches keep it.                                 *)
LEMMA IndexesKept == IndexInv /\ [IndexesStep]_indexVars => IndexInv'
<1> SUFFICES ASSUME IndexInv, [IndexesStep]_indexVars PROVE IndexInv'
  OBVIOUS
<1> USE IndexesAssumption DEF IndexInv
<1>1. ASSUME NEW c \in Chunks, NEW text \in SUBSET Words, UpsertWords(c, text)
      PROVE  IndexInv'
  BY <1>1 DEF UpsertWords
<1>2. ASSUME NEW text \in SUBSET Words, NEW k \in 0 .. 2, SearchWords(text, k)
      PROVE  IndexInv'
  BY <1>2 DEF SearchWords
<1>3. ASSUME NEW h \in Handles, NEW dim \in Dims, OpenVector(h, dim)
      PROVE  IndexInv'
  BY <1>3 DEF OpenVector
<1>4. ASSUME NEW h \in Handles, NEW dim \in Dims, NEW c \in Chunks, UpsertVector(h, c, dim)
      PROVE  IndexInv'
  BY <1>4 DEF UpsertVector
<1>5. ASSUME NEW h \in Handles, NEW dim \in Dims, NEW k \in 0 .. 2, SearchVectors(h, dim, k)
      PROVE  IndexInv'
  BY <1>5 DEF SearchVectors
<1>6. CASE UNCHANGED indexVars
  BY <1>6 DEF indexVars
<1> QED
  BY <1>1, <1>2, <1>3, <1>4, <1>5, <1>6 DEF IndexesStep

(* Under the invariant each step is one that StaysIndexed allows.          *)
LEMMA IndexStepIsSound ==
    ASSUME IndexInv, [IndexesStep]_indexVars
    PROVE  /\ \A c \in Chunks : vectors[c] # Missing => vectors'[c] = tableDim
           /\ \A h \in Handles, dim \in Dims, k \in 0 .. 2 :
                 SearchVectors(h, dim, k) => \A c \in found'.chunks : vectors[c] = dim
<1> USE IndexesAssumption DEF IndexInv
<1>1. ASSUME NEW c \in Chunks, vectors[c] # Missing PROVE vectors'[c] = tableDim
  <2>1. ASSUME NEW h \in Handles, NEW dim \in Dims, NEW d \in Chunks, UpsertVector(h, d, dim)
        PROVE  vectors'[c] = tableDim
    BY <1>1, <2>1 DEF UpsertVector
  <2>2. CASE UNCHANGED vectors
    BY <1>1, <2>2
  <2> QED
    BY <2>1, <2>2
    DEF IndexesStep, indexVars, UpsertWords, SearchWords, OpenVector, SearchVectors
<1>2. ASSUME NEW h \in Handles, NEW dim \in Dims, NEW k \in 0 .. 2,
             SearchVectors(h, dim, k), NEW c \in found'.chunks
      PROVE  vectors[c] = dim
  <2>1. PICK some \in Best({x \in Chunks : vectors[x] # Missing}, k) :
            found' = [dim |-> dim, chunks |-> some]
    BY <1>2 DEF SearchVectors
  <2>2. c \in Chunks /\ vectors[c] # Missing
    BY <2>1, <1>2 DEF Best
  <2> QED
    BY <2>2, <1>2 DEF SearchVectors
<1> QED
  BY <1>1, <1>2

(* StaysIndexed for any chunks, dimensions and handles: a chunk that has a *)
(* vector keeps one, and all that a search compares can be compared.       *)
THEOREM AlwaysIndexed == IndexesInit /\ [][IndexesStep]_indexVars => StaysIndexed
<1>1. IndexInv /\ [IndexesStep]_indexVars =>
        [/\ \A c \in Chunks : vectors[c] # Missing => vectors'[c] = tableDim
         /\ \A h \in Handles, dim \in Dims, k \in 0 .. 2 :
               SearchVectors(h, dim, k) => \A c \in found'.chunks : vectors[c] = dim]_indexVars
  BY IndexStepIsSound
<1> QED
  BY IndexesStart, IndexesKept, <1>1, PTL DEF StaysIndexed

----------------------------------------------------------------------------
(* The catalog of models.                                                  *)

(* What was kept was made after the refresh that fetched it had read the   *)
(* clock, and before now.                                                  *)
EntryInv ==
    \A p \in Sources : entries[p] # Unlisted =>
        /\ entries[p].at \in Nat /\ entries[p].seen \in Nat
        /\ entries[p].at <= entries[p].seen /\ entries[p].seen <= hour

(* A list on its way was made since its refresh read the clock; if none    *)
(* was stored meanwhile, it is no older than the one that is kept.         *)
RefresherInv(r) ==
    /\ began[r] <= hour
    /\ taken[r] # Unlisted =>
         /\ turn[r] # 0 /\ taken[r] \in Nat
         /\ began[r] <= taken[r] /\ taken[r] <= hour
    /\ turn[r] # 0 /\ taken[r] # Unlisted /\ ~overtaken[r] /\ entries[Registered[turn[r]]] # Unlisted
         => entries[Registered[turn[r]]].seen <= taken[r]

CatalogInv ==
    /\ CatalogTypeOK
    /\ DOMAIN entries = Sources
    /\ taken \in [Refreshers -> Nat \cup {Unlisted}]
    /\ overtaken \in [Refreshers -> BOOLEAN]
    /\ EntryInv
    /\ \A r \in Refreshers : RefresherInv(r)

(* A set of numbers that is not empty has a least element. *)
LEMMA HasLeast ==
    ASSUME NEW S \in SUBSET Nat, S # {}
    PROVE  \E j \in S : \A i \in S : j <= i
<1>1. PICK j \in S : \A i \in S : ~(<<i, j>> \in OpToRel(<, Nat))
  BY WFMin, NatLessThanWellFounded
<1>2. \A i \in S : ~(i < j)
  BY <1>1 DEF OpToRel
<1> QED
  BY <1>2

(* What going on to the next provider changes, and for whom. *)
LEMMA GoingOn ==
    ASSUME CatalogInv, NEW r \in Refreshers, NEW k \in Nat \ {0}, NEW now, NEW kept,
           GoOn(r, k, now, kept)
    PROVE  /\ turn' \in [Refreshers -> 0 .. Len(Registered)]
           /\ taken' = [taken EXCEPT ![r] = Unlisted]
           /\ overtaken' \in [Refreshers -> BOOLEAN]
           /\ \A q \in Refreshers \ {r} :
                 /\ turn'[q] = turn[q]
                 /\ overtaken'[q] <=> overtaken[q] \/ (kept # entries /\ turn[q] = turn[r])
<1> DEFINE stale == {j \in k .. Len(Registered) : IsStale(Registered[j], now, kept)}
           here == IF stale = {} THEN 0 ELSE CHOOSE j \in stale : \A i \in stale : j <= i
<1>1. Len(Registered) \in Nat
  BY CatalogAssumption
<1>2. stale \in SUBSET (1 .. Len(Registered)) /\ stale \in SUBSET Nat
  BY <1>1
<1>3. here \in 0 .. Len(Registered)
  <2>1. CASE stale = {}
    BY <1>1, <2>1
  <2>2. CASE stale # {}
    <3> HIDE DEF stale
    <3>1. \E j \in stale : \A i \in stale : j <= i
      BY <1>2, <2>2, HasLeast
    <3>2. here \in stale
      BY <2>2, <3>1
    <3> HIDE DEF here
    <3> QED BY <1>1, <1>2, <3>2
  <2> QED BY <2>1, <2>2
<1>4. turn' = [turn EXCEPT ![r] = here]
  BY DEF GoOn
<1> HIDE DEF here
<1>5. /\ turn' \in [Refreshers -> 0 .. Len(Registered)]
      /\ \A q \in Refreshers \ {r} : turn'[q] = turn[q]
  BY <1>3, <1>4 DEF CatalogInv, CatalogTypeOK
<1>6. /\ taken' = [taken EXCEPT ![r] = Unlisted]
      /\ overtaken' = [q \in Refreshers |->
                            IF q = r THEN FALSE
                            ELSE overtaken[q] \/ (kept # entries /\ turn[q] = turn[r])]
  BY DEF GoOn
<1>7. overtaken' \in [Refreshers -> BOOLEAN]
  BY <1>6 DEF CatalogInv
<1>8. ASSUME NEW q \in Refreshers \ {r}
      PROVE  overtaken'[q] <=> overtaken[q] \/ (kept # entries /\ turn[q] = turn[r])
  BY <1>6, <1>8, Zenon
<1> QED
  BY <1>5, <1>6, <1>7, <1>8

(* An empty catalog satisfies the invariant.                               *)
LEMMA CatalogStarts == CatalogInit => CatalogInv
<1> SUFFICES ASSUME CatalogInit PROVE CatalogInv
  OBVIOUS
<1>1. Len(Registered) \in Nat /\ LastHour \in Nat
  BY CatalogAssumption
<1> QED
  BY <1>1 DEF CatalogInit, CatalogInv, CatalogTypeOK, EntryInv, RefresherInv

(* One step disturbs a refresher that does not take it only by storing     *)
(* another list for the provider it waits for.                             *)
LEMMA OthersKept ==
    ASSUME CatalogInv, NEW q \in Refreshers, hour' = hour, began'[q] = began[q],
           turn'[q] = turn[q], taken'[q] = taken[q],
           overtaken[q] => overtaken'[q],
           \/ overtaken'[q]
           \/ turn[q] # 0 => entries'[Registered[turn[q]]] = entries[Registered[turn[q]]]
    PROVE  RefresherInv(q)'
BY DEF CatalogInv, RefresherInv

(* Every step of the clock and of a refresher keeps it.                    *)
LEMMA CatalogKept == CatalogInv /\ [CatalogStep]_catalogVars => CatalogInv'
<1> SUFFICES ASSUME CatalogInv, [CatalogStep]_catalogVars PROVE CatalogInv'
  OBVIOUS
<1>a. Len(Registered) \in Nat /\ DOMAIN Registered = 1 .. Len(Registered) /\ LastHour \in Nat
  BY CatalogAssumption
<1>b. /\ CatalogTypeOK /\ DOMAIN entries = Sources
      /\ taken \in [Refreshers -> Nat \cup {Unlisted}]
      /\ overtaken \in [Refreshers -> BOOLEAN]
      /\ EntryInv /\ \A r \in Refreshers : RefresherInv(r)
  BY DEF CatalogInv
<1>c. hour \in Nat /\ \A r \in Refreshers : turn[r] \in 0 .. Len(Registered) /\ began[r] \in Nat
  BY <1>a, <1>b DEF CatalogTypeOK
<1>1. CASE Tick
  <2>1. CatalogTypeOK'
    BY <1>a, <1>b, <1>1 DEF Tick, CatalogTypeOK
  <2>2. EntryInv'
    BY <1>b, <1>c, <1>1 DEF Tick, EntryInv
  <2>3. ASSUME NEW r \in Refreshers PROVE RefresherInv(r)'
    <3>1. RefresherInv(r)
      BY <1>b
    <3> QED
      BY <1>b, <1>c, <1>1, <3>1 DEF Tick, RefresherInv
  <2> QED BY <1>b, <1>1, <2>1, <2>2, <2>3 DEF Tick, CatalogInv
<1>2. ASSUME NEW r \in Refreshers, RefreshStale(r) PROVE CatalogInv'
  <2>1. /\ turn[r] = 0 /\ began' = [began EXCEPT ![r] = hour]
        /\ GoOn(r, 1, hour, entries) /\ UNCHANGED <<hour, entries>>
    BY <1>2 DEF RefreshStale
  <2>2. /\ turn' \in [Refreshers -> 0 .. Len(Registered)]
        /\ taken' = [taken EXCEPT ![r] = Unlisted]
        /\ overtaken' \in [Refreshers -> BOOLEAN]
        /\ \A q \in Refreshers \ {r} :
              /\ turn'[q] = turn[q]
              /\ overtaken'[q] <=> overtaken[q] \/ (entries # entries /\ turn[q] = turn[r])
    BY <2>1, GoingOn
  <2>3. CatalogTypeOK' /\ EntryInv'
    BY <1>b, <1>c, <2>1, <2>2 DEF CatalogTypeOK, EntryInv
  <2>4. ASSUME NEW q \in Refreshers \ {r} PROVE RefresherInv(q)'
    <3>1. began'[q] = began[q] /\ turn'[q] = turn[q] /\ taken'[q] = taken[q]
          /\ (overtaken[q] => overtaken'[q])
      BY <1>b, <2>1, <2>2 DEF CatalogTypeOK
    <3> QED BY <2>1, <3>1, OthersKept
  <2>5. RefresherInv(r)'
    BY <1>b, <1>c, <2>1, <2>2 DEF CatalogTypeOK, RefresherInv
  <2> QED BY <1>b, <2>1, <2>2, <2>3, <2>4, <2>5 DEF CatalogInv
<1>3. ASSUME NEW r \in Refreshers, Lists(r) PROVE CatalogInv'
  <2>1. /\ turn[r] # 0 /\ taken' = [taken EXCEPT ![r] = hour]
        /\ UNCHANGED <<hour, entries, turn, began, overtaken>>
    BY <1>3 DEF Lists
  <2>2. ASSUME NEW q \in Refreshers \ {r} PROVE RefresherInv(q)'
    BY <1>b, <2>1, OthersKept
  <2>3. RefresherInv(r)'
    <3>1. Registered[turn[r]] \in Sources
      BY <1>a, <1>c, <2>1 DEF Sources
    <3> QED
      BY <1>b, <1>c, <2>1, <3>1 DEF CatalogTypeOK, RefresherInv, EntryInv
  <2>4. CatalogTypeOK' /\ EntryInv'
    BY <1>b, <2>1 DEF CatalogTypeOK, EntryInv
  <2> QED BY <1>b, <1>c, <2>1, <2>2, <2>3, <2>4 DEF CatalogInv
<1>4. ASSUME NEW r \in Refreshers, Stored(r) PROVE CatalogInv'
  <2> DEFINE p == Registered[turn[r]]
  <2>1. /\ turn[r] # 0 /\ taken[r] # Unlisted
        /\ entries' = [entries EXCEPT ![p] = [seen |-> taken[r], at |-> began[r]]]
        /\ GoOn(r, turn[r] + 1, began[r], entries') /\ UNCHANGED <<hour, began>>
    BY <1>4 DEF Stored, Stamp
  <2>2. turn[r] + 1 \in Nat \ {0} /\ p \in Sources
    BY <1>a, <1>c, <2>1 DEF Sources
  <2>3. /\ turn' \in [Refreshers -> 0 .. Len(Registered)]
        /\ taken' = [taken EXCEPT ![r] = Unlisted]
        /\ overtaken' \in [Refreshers -> BOOLEAN]
        /\ \A q \in Refreshers \ {r} :
              /\ turn'[q] = turn[q]
              /\ overtaken'[q] <=> overtaken[q] \/ (entries' # entries /\ turn[q] = turn[r])
    <3>1. PICK kept : kept = entries'
      OBVIOUS
    <3>2. GoOn(r, turn[r] + 1, began[r], kept)
      BY <2>1, <3>1 DEF GoOn
    <3> QED BY <2>2, <3>1, <3>2, GoingOn
  <2>4. CatalogTypeOK'
    BY <1>b, <2>1, <2>3 DEF CatalogTypeOK
  <2>5. EntryInv'
    BY <1>b, <1>c, <2>1, <2>2 DEF EntryInv, RefresherInv
  <2>6. ASSUME NEW q \in Refreshers \ {r} PROVE RefresherInv(q)'
    <3>1. turn'[q] = turn[q] /\ taken'[q] = taken[q] /\ (overtaken[q] => overtaken'[q])
      BY <1>b, <2>3
    <3>2. \/ overtaken'[q]
          \/ turn[q] # 0 => entries'[Registered[turn[q]]] = entries[Registered[turn[q]]]
      <4>1. CASE entries' = entries
        BY <4>1
      <4>2. CASE entries' # entries /\ turn[q] = turn[r]
        BY <2>3, <4>2
      <4>3. CASE turn[q] # turn[r]
        <5>1. turn[q] # 0 => Registered[turn[q]] # p
          BY <1>a, <1>c, <2>1, <4>3, CatalogAssumption
        <5> QED BY <1>b, <2>1, <5>1
      <4> QED BY <4>1, <4>2, <4>3
    <3> QED BY <2>1, <3>1, <3>2, OthersKept
  <2>7. RefresherInv(r)'
    BY <1>b, <1>c, <2>1, <2>3 DEF RefresherInv
  <2> QED BY <1>b, <2>1, <2>3, <2>4, <2>5, <2>6, <2>7 DEF CatalogInv
<1>5. ASSUME NEW r \in Refreshers, RefreshFails(r) PROVE CatalogInv'
  <2>1. /\ turn' = [turn EXCEPT ![r] = 0] /\ taken' = [taken EXCEPT ![r] = Unlisted]
        /\ overtaken' = [overtaken EXCEPT ![r] = FALSE] /\ UNCHANGED <<hour, entries, began>>
    BY <1>5 DEF RefreshFails
  <2>2. ASSUME NEW q \in Refreshers \ {r} PROVE RefresherInv(q)'
    <3>1. turn'[q] = turn[q] /\ taken'[q] = taken[q] /\ overtaken'[q] = overtaken[q]
      BY <1>b, <2>1 DEF CatalogTypeOK
    <3> QED BY <2>1, <3>1, OthersKept
  <2>3. RefresherInv(r)'
    BY <1>b, <1>c, <2>1 DEF RefresherInv
  <2>4. CatalogTypeOK' /\ EntryInv'
    BY <1>a, <1>b, <2>1 DEF CatalogTypeOK, EntryInv
  <2> QED BY <1>b, <2>1, <2>2, <2>3, <2>4 DEF CatalogInv
<1>6. CASE UNCHANGED catalogVars
  BY <1>b, <1>6 DEF catalogVars, CatalogInv, CatalogTypeOK, EntryInv, RefresherInv
<1> QED
  BY <1>1, <1>2, <1>3, <1>4, <1>5, <1>6 DEF CatalogStep

(* Under the invariant each step is one that NewerStays allows.            *)
LEMMA NoOlderList == CatalogInv /\ CatalogStep => NewerStays
<1> SUFFICES ASSUME CatalogInv, CatalogStep, NEW p \in Sources,
                    entries[p] # Unlisted, entries'[p].seen < entries[p].seen
             PROVE  \E r \in Refreshers : turn[r] # 0 /\ Registered[turn[r]] = p /\ overtaken[r]
  BY DEF NewerStays
<1>1. entries[p].seen \in Nat
  BY DEF CatalogInv, EntryInv
<1>2. entries'[p] # entries[p]
  BY <1>1
<1>3. PICK r \in Refreshers : Stored(r)
  BY <1>2 DEF CatalogStep, Tick, RefreshStale, Lists, RefreshFails
<1>4. /\ turn[r] # 0 /\ taken[r] # Unlisted
      /\ entries' = [entries EXCEPT ![Registered[turn[r]]] = [seen |-> taken[r], at |-> began[r]]]
  BY <1>3 DEF Stored, Stamp
<1>5. Registered[turn[r]] = p
  BY <1>2, <1>4 DEF CatalogInv
<1>6. entries'[p].seen = taken[r] /\ taken[r] \in Nat
  BY <1>4, <1>5 DEF CatalogInv, RefresherInv
<1>7. overtaken[r]
  BY <1>1, <1>4, <1>5, <1>6 DEF CatalogInv, RefresherInv
<1> QED
  BY <1>4, <1>5, <1>7

(* CatalogHolds for any number of providers and refreshes: what passes for *)
(* fresh is, and only overlapping refreshes put an older list in the place *)
(* of a newer.                                                             *)
THEOREM CatalogAlwaysHolds == CatalogInit /\ [][CatalogStep]_catalogVars => CatalogHolds
<1>1. CatalogInv => CatalogFresh
  <2> SUFFICES ASSUME CatalogInv, NEW p \in Sources,
                      entries[p] # Unlisted, ~(hour - entries[p].at >= Ttl)
               PROVE  hour - entries[p].seen < Ttl
    BY DEF CatalogFresh, IsStale
  <2>1. /\ entries[p].at \in Nat /\ entries[p].seen \in Nat /\ entries[p].at <= entries[p].seen
        /\ hour \in Nat /\ Ttl \in Nat
    BY CatalogAssumption DEF CatalogInv, CatalogTypeOK, EntryInv
  <2> QED BY <2>1
<1>2. CatalogInv /\ CatalogInv' /\ [CatalogStep]_catalogVars
        => [CatalogFresh' /\ NewerStays]_catalogVars
  <2>1. CatalogInv' => CatalogFresh'
    BY <1>1, PTL
  <2> QED BY <2>1, NoOlderList
<1> QED
  BY CatalogStarts, CatalogKept, <1>2, PTL DEF CatalogHolds

----------------------------------------------------------------------------
(* An agent session.                                                       *)

(* The conversation matches the runs, and is of well-formed turns.         *)
SessionsInv == AgentSessionsTypeOK /\ TurnsMatch

(* What one more turn leaves as it was, and what it adds. *)
LEMMA OneMoreTurn ==
    ASSUME turns \in Seq({"user", "agent"} \X Runs),
           NEW who \in {"user", "agent"}, NEW r \in Runs, Says(who, r)
    PROVE  /\ turns' \in Seq({"user", "agent"} \X Runs)
           /\ \A k : k \in DOMAIN turns' <=> k \in DOMAIN turns \/ k = Len(turns) + 1
           /\ \A k \in DOMAIN turns :
                  /\ turns'[k] = turns[k] /\ turns[k][2] \in Runs
                  /\ 1 .. (k - 1) \subseteq DOMAIN turns
           /\ Len(turns) + 1 \notin DOMAIN turns
           /\ 1 .. (Len(turns) + 1 - 1) = DOMAIN turns
           /\ turns'[Len(turns) + 1] = <<who, r>>
<1>1. /\ turns' \in Seq({"user", "agent"} \X Runs) /\ Len(turns) \in Nat
      /\ DOMAIN turns = 1 .. Len(turns) /\ DOMAIN turns' = 1 .. (Len(turns) + 1)
      /\ turns'[Len(turns) + 1] = <<who, r>>
  BY DEF Says
<1>2. \A k \in DOMAIN turns : turns'[k] = turns[k] /\ turns[k][2] \in Runs
  BY DEF Says
<1> DEFINE n == Len(turns)
<1> HIDE DEF n
<1>3. n \in Nat /\ DOMAIN turns = 1 .. n /\ DOMAIN turns' = 1 .. (n + 1)
  BY <1>1 DEF n
<1>4. /\ \A k : k \in DOMAIN turns' <=> k \in DOMAIN turns \/ k = n + 1
      /\ \A k \in DOMAIN turns : 1 .. (k - 1) \subseteq DOMAIN turns
      /\ n + 1 \notin DOMAIN turns /\ 1 .. (n + 1 - 1) = DOMAIN turns
  BY <1>3
<1> QED BY <1>1, <1>2, <1>4 DEF n

(* Where no turn is taken, no run opened and none newly completed, the     *)
(* conversation still matches.                                             *)
LEMMA SameTurns ==
    ASSUME TurnsMatch, UNCHANGED turns,
           \A r \in Runs : /\ runs'[r] = "unknown" <=> runs[r] = "unknown"
                           /\ runs'[r] = "completed" => runs[r] = "completed"
    PROVE  TurnsMatch'
BY DEF TurnsMatch, Spoke, IsOpened

(* A run opened anew is asked, behind all that was said.                   *)
LEMMA TurnsOpened ==
    ASSUME SessionsInv, NEW r \in Runs, OpenRun(r)
    PROVE  SessionsInv'
<1> USE DEF SessionsInv, AgentSessionsTypeOK
<1>1. /\ runs' = [runs EXCEPT ![r] = "pending"] /\ UNCHANGED session
      /\ Says("user", r) /\ runs[r] = "unknown"
  BY DEF OpenRun, Record, IsOpened
<1> DEFINE last == Len(turns) + 1
<1>2. /\ turns' \in Seq({"user", "agent"} \X Runs)
      /\ \A k : k \in DOMAIN turns' <=> k \in DOMAIN turns \/ k = last
      /\ \A k \in DOMAIN turns :
             /\ turns'[k] = turns[k] /\ turns[k][2] \in Runs
             /\ 1 .. (k - 1) \subseteq DOMAIN turns
      /\ last \notin DOMAIN turns /\ 1 .. (last - 1) = DOMAIN turns
      /\ turns'[last] = <<"user", r>>
  BY <1>1, OneMoreTurn
<1> HIDE DEF last
<1>3. \A k \in DOMAIN turns : turns[k] # <<"user", r>>
  BY <1>1 DEF TurnsMatch, Spoke, IsOpened
<1>4. ASSUME NEW q \in Runs
      PROVE  /\ IsOpened(q)' <=> Spoke("user", q, DOMAIN turns)'
             /\ runs'[q] = "completed" => Spoke("agent", q, DOMAIN turns)'
  <2>1. CASE q = r
    BY <1>1, <1>2, <2>1 DEF IsOpened, Spoke
  <2>2. CASE q # r
    <3>1. /\ IsOpened(q) <=> Spoke("user", q, DOMAIN turns)
          /\ runs[q] = "completed" => Spoke("agent", q, DOMAIN turns)
      BY DEF TurnsMatch
    <3>2. runs'[q] = runs[q] /\ <<"user", r>> # <<"user", q>>
      BY <1>1, <2>2
    <3>3. Spoke("user", q, DOMAIN turns)' <=> Spoke("user", q, DOMAIN turns)
      BY <1>2, <3>2 DEF Spoke
    <3>4. Spoke("agent", q, DOMAIN turns) => Spoke("agent", q, DOMAIN turns)'
      BY <1>2 DEF Spoke
    <3> QED BY <3>1, <3>2, <3>3, <3>4 DEF IsOpened
  <2> QED BY <2>1, <2>2
<1>5. ASSUME NEW j \in DOMAIN turns', NEW k \in DOMAIN turns',
             turns'[j] = turns'[k], turns'[j][1] = "user"
      PROVE  j = k
  <2>1. CASE j \in DOMAIN turns /\ k \in DOMAIN turns
    BY <1>2, <1>5, <2>1 DEF TurnsMatch
  <2>2. CASE j = last \/ k = last
    BY <1>2, <1>3, <1>5, <2>2
  <2> QED BY <1>2, <2>1, <2>2
<1>6. ASSUME NEW k \in DOMAIN turns', turns'[k][1] = "agent"
      PROVE  Spoke("user", turns[k][2], 1 .. (k - 1))'
  <2>1. k \in DOMAIN turns /\ turns'[k] = turns[k]
    BY <1>2, <1>6
  <2>2. Spoke("user", turns[k][2], 1 .. (k - 1))
    BY <1>6, <2>1 DEF TurnsMatch
  <2>3. \A i \in 1 .. (k - 1) : turns'[i] = turns[i]
    BY <1>2, <2>1
  <2> QED BY <2>1, <2>2, <2>3 DEF Spoke
<1>7. TurnsMatch'
  BY <1>4, <1>5, <1>6 DEF TurnsMatch
<1>8. runs' \in [Runs -> RunStates]
  BY <1>1 DEF RunStates
<1> QED BY <1>1, <1>2, <1>7, <1>8

(* A run completed is answered, behind its question.                       *)
LEMMA TurnsCompleted ==
    ASSUME SessionsInv, NEW r \in Runs, CompleteRun(r)
    PROVE  SessionsInv'
<1> USE DEF SessionsInv, AgentSessionsTypeOK
<1>1. /\ runs' = [runs EXCEPT ![r] = "completed"] /\ UNCHANGED session
      /\ Says("agent", r) /\ runs[r] # "unknown"
  BY DEF CompleteRun, Record, IsOpened
<1> DEFINE last == Len(turns) + 1
<1>2. /\ turns' \in Seq({"user", "agent"} \X Runs)
      /\ \A k : k \in DOMAIN turns' <=> k \in DOMAIN turns \/ k = last
      /\ \A k \in DOMAIN turns :
             /\ turns'[k] = turns[k] /\ turns[k][2] \in Runs
             /\ 1 .. (k - 1) \subseteq DOMAIN turns
      /\ last \notin DOMAIN turns /\ 1 .. (last - 1) = DOMAIN turns
      /\ turns'[last] = <<"agent", r>>
  BY <1>1, OneMoreTurn
<1> HIDE DEF last
<1>3. Spoke("user", r, DOMAIN turns)
  BY <1>1 DEF TurnsMatch, IsOpened
<1>4. ASSUME NEW q \in Runs
      PROVE  /\ IsOpened(q)' <=> Spoke("user", q, DOMAIN turns)'
             /\ runs'[q] = "completed" => Spoke("agent", q, DOMAIN turns)'
  <2>1. /\ IsOpened(q) <=> Spoke("user", q, DOMAIN turns)
        /\ runs[q] = "completed" => Spoke("agent", q, DOMAIN turns)
    BY DEF TurnsMatch
  <2>2. IsOpened(q)' <=> IsOpened(q)
    BY <1>1 DEF IsOpened
  <2>3. Spoke("user", q, DOMAIN turns)' <=> Spoke("user", q, DOMAIN turns)
    BY <1>2 DEF Spoke
  <2>4. Spoke("agent", q, DOMAIN turns) => Spoke("agent", q, DOMAIN turns)'
    BY <1>2 DEF Spoke
  <2>5. q = r => Spoke("agent", q, DOMAIN turns)'
    BY <1>2 DEF Spoke
  <2>6. q # r => runs'[q] = runs[q]
    BY <1>1
  <2> QED BY <2>1, <2>2, <2>3, <2>4, <2>5, <2>6
<1>5. ASSUME NEW j \in DOMAIN turns', NEW k \in DOMAIN turns',
             turns'[j] = turns'[k], turns'[j][1] = "user"
      PROVE  j = k
  <2>1. j \in DOMAIN turns /\ k \in DOMAIN turns
    BY <1>2, <1>5
  <2> QED BY <1>2, <1>5, <2>1 DEF TurnsMatch
<1>6. ASSUME NEW k \in DOMAIN turns', turns'[k][1] = "agent"
      PROVE  Spoke("user", turns[k][2], 1 .. (k - 1))'
  <2>1. CASE k \in DOMAIN turns
    <3>1. turns'[k] = turns[k] /\ Spoke("user", turns[k][2], 1 .. (k - 1))
      BY <1>2, <1>6, <2>1 DEF TurnsMatch
    <3>2. \A i \in 1 .. (k - 1) : turns'[i] = turns[i]
      BY <1>2, <2>1
    <3> QED BY <3>1, <3>2 DEF Spoke
  <2>2. CASE k = last
    <3>1. turns'[k][2] = r /\ 1 .. (k - 1) = DOMAIN turns
      BY <1>2, <2>2
    <3> QED BY <1>2, <1>3, <3>1 DEF Spoke
  <2> QED BY <1>2, <2>1, <2>2
<1>7. TurnsMatch'
  BY <1>4, <1>5, <1>6 DEF TurnsMatch
<1>8. runs' \in [Runs -> RunStates]
  BY <1>1 DEF RunStates
<1> QED BY <1>1, <1>2, <1>7, <1>8

(* Every operation on the session and its runs keeps it.                   *)
LEMMA SessionsKept == SessionsInv /\ [AgentSessionsStep]_sessionVars => SessionsInv'
<1> SUFFICES ASSUME SessionsInv, [AgentSessionsStep]_sessionVars PROVE SessionsInv'
  OBVIOUS
<1> USE DEF SessionsInv, AgentSessionsTypeOK, SessionStates, RunStates
<1>1. ASSUME NEW r \in Runs, OpenRun(r) PROVE SessionsInv'
  BY <1>1, TurnsOpened
<1>2. ASSUME NEW r \in Runs, CompleteRun(r) PROVE SessionsInv'
  BY <1>2, TurnsCompleted
<1>3. ASSUME NEW r \in Runs, StartRun(r) \/ FailRun(r) PROVE SessionsInv'
  <2>1. /\ UNCHANGED <<session, turns>> /\ runs[r] # "unknown"
        /\ \E to \in {"running", "failed"} : runs' = [runs EXCEPT ![r] = to]
    BY <1>3 DEF StartRun, FailRun, Record, IsOpened
  <2>2. TurnsMatch'
    BY <2>1, SameTurns
  <2> QED BY <2>1, <2>2
<1>4. ASSUME NEW r \in Runs, CancelRun(r) PROVE SessionsInv'
  <2>1. /\ UNCHANGED <<session, turns>> /\ runs' = [runs EXCEPT ![r] = Cancelled(r)]
        /\ \/ Cancelled(r) = "cancelled" /\ runs[r] \in {"pending", "running"}
           \/ Cancelled(r) = runs[r]
    BY <1>4 DEF CancelRun, Record, Cancelled, IsActive
  <2>2. TurnsMatch'
    BY <2>1, SameTurns
  <2> QED BY <2>1, <2>2
<1>5. CASE StopSession \/ Shutdown
  <2>1. /\ session' \in SessionStates /\ UNCHANGED turns
        /\ runs' = [r \in Runs |-> IF runs[r] \in {"pending", "running"} THEN "cancelled" ELSE runs[r]]
    BY <1>5 DEF StopSession, Shutdown, Enter, CancelActiveRuns, Cancelled, IsActive
  <2>2. TurnsMatch'
    BY <2>1, SameTurns
  <2> QED BY <2>1, <2>2
<1>6. CASE StartSession \/ Suspend \/ Resume \/ UNCHANGED sessionVars
  <2>1. session' \in SessionStates /\ UNCHANGED <<runs, turns>>
    BY <1>6 DEF StartSession, Suspend, Resume, Enter, sessionVars
  <2>2. TurnsMatch'
    BY <2>1, SameTurns
  <2> QED BY <2>1, <2>2
<1> QED BY <1>1, <1>2, <1>3, <1>4, <1>5, <1>6 DEF AgentSessionsStep

(* What OutcomeStands says of a step beside the conversation.              *)
Stands(r) ==
    IsTerminal(r) /\ runs'[r] # runs[r] => runs'[r] # "cancelled" /\ session' = session
LeavesNone ==
    session' # session /\ session' \in {"stopped", "shutdown"}
        => \A r \in Runs : ~ IsActive(r)'
StaysDown == session = "shutdown" => session' = "shutdown"

(* Each operation does as OutcomeStands says.                              *)
LEMMA OutcomeStep ==
    ASSUME SessionsInv, [AgentSessionsStep]_sessionVars
    PROVE  (\A r \in Runs : Stands(r)) /\ LeavesNone /\ StaysDown
<1> USE DEF SessionsInv, AgentSessionsTypeOK, RunStates
<1>1. ASSUME NEW q \in Runs, OpenRun(q) \/ StartRun(q) \/ CompleteRun(q) \/ FailRun(q)
      PROVE  (\A r \in Runs : Stands(r)) /\ LeavesNone /\ StaysDown
  <2>1. /\ UNCHANGED session
        /\ \E to \in {"pending", "running", "completed", "failed"} :
              runs' = [runs EXCEPT ![q] = to]
    BY <1>1 DEF OpenRun, StartRun, CompleteRun, FailRun, Record
  <2> QED BY <2>1 DEF Stands, LeavesNone, StaysDown, IsTerminal
<1>2. ASSUME NEW q \in Runs, CancelRun(q)
      PROVE  (\A r \in Runs : Stands(r)) /\ LeavesNone /\ StaysDown
  <2>1. UNCHANGED session /\ runs' = [runs EXCEPT ![q] = Cancelled(q)]
    BY <1>2 DEF CancelRun, Record
  <2>2. IsTerminal(q) => Cancelled(q) = runs[q]
    BY DEF IsTerminal, Cancelled, IsActive
  <2> QED BY <2>1, <2>2 DEF Stands, LeavesNone, StaysDown, IsTerminal
<1>3. CASE StopSession \/ Shutdown
  <2>1. /\ session # "shutdown"
        /\ runs' = [r \in Runs |-> IF runs[r] \in {"pending", "running"} THEN "cancelled" ELSE runs[r]]
    BY <1>3 DEF StopSession, Shutdown, CancelActiveRuns, Cancelled, IsActive
  <2> QED BY <2>1 DEF Stands, LeavesNone, StaysDown, IsTerminal, IsActive
<1>4. CASE StartSession \/ Suspend \/ Resume \/ UNCHANGED sessionVars
  <2>1. UNCHANGED runs /\ (session' = session \/ session' \in {"running", "suspended"})
    BY <1>4 DEF StartSession, Suspend, Resume, Enter, sessionVars
  <2>2. StaysDown
    BY <1>4 DEF StartSession, Suspend, Resume, sessionVars, StaysDown
  <2> QED BY <2>1, <2>2 DEF Stands, LeavesNone
<1> QED BY <1>1, <1>2, <1>3, <1>4 DEF AgentSessionsStep

(* OutcomeStands for any number of runs and turns, whoever calls what when *)
(* of the session: the conversation is the runs' own, no cancellation      *)
(* takes an outcome away, and a session that stops leaves no run active.   *)
THEOREM OutcomesStand == AgentSessionsInit /\ [][AgentSessionsStep]_sessionVars => OutcomeStands
<1>1. AgentSessionsInit => SessionsInv
  BY DEF AgentSessionsInit, SessionsInv, AgentSessionsTypeOK, SessionStates, RunStates,
     TurnsMatch, Spoke, IsOpened
<1>2. SessionsInv /\ SessionsInv' /\ [AgentSessionsStep]_sessionVars =>
        [/\ TurnsMatch'
         /\ \A r \in Runs :
               IsTerminal(r) /\ runs'[r] # runs[r]
               => runs'[r] # "cancelled" /\ session' = session
         /\ session' # session /\ session' \in {"stopped", "shutdown"}
               => \A r \in Runs : ~ IsActive(r)'
         /\ session = "shutdown" => session' = "shutdown"]_sessionVars
  BY OutcomeStep DEF SessionsInv, Stands, LeavesNone, StaysDown
<1> QED
  BY <1>1, <1>2, SessionsKept, PTL DEF OutcomeStands

----------------------------------------------------------------------------
(* The channel's messages.                                                 *)

(* An error neither end has an odd word about. *)
LEMMA AnyObject == ASSUME wire \in Objects PROVE
    \/ CoreReads(wire) = ShellReads(wire)
    \/ /\ ShellReads(wire) = Malformed
       /\ CoreReads(wire).kind = "error"
       /\ wire.error.code = "other" \/ wire.error.message = "other"
<1> DEFINE e == wire.error
<1>1. /\ wire.jsonrpc \in {"2.0", "other"} /\ wire.method \in {Left, "text", "other"}
      /\ e \in Errors
  BY DEF Objects
<1>2. CASE wire.jsonrpc # "2.0" \/ wire.method # Left
  <2>1. CASE wire.jsonrpc # "2.0"
    BY <2>1 DEF CoreReads, ShellReads
  <2>2. CASE wire.jsonrpc = "2.0" /\ wire.method = "other"
    BY <2>2 DEF CoreReads, ShellReads, Left
  <2>3. CASE wire.jsonrpc = "2.0" /\ wire.method = "text"
    BY <2>3 DEF CoreReads, ShellReads, Left
  <2> QED BY <1>1, <1>2, <2>1, <2>2, <2>3
<1>3. CASE wire.jsonrpc = "2.0" /\ wire.method = Left /\ wire.id # Left /\ wire.result # Left
  BY <1>3 DEF CoreReads, ShellReads, Left
<1>4. CASE /\ wire.jsonrpc = "2.0" /\ wire.method = Left
           /\ wire.id = Left \/ wire.result = Left
  <2>1. /\ CoreReads(wire) = IF CoreAccepts(e) THEN Failure(OrNull(wire.id), OrNull(e.data))
                             ELSE Malformed
        /\ ShellReads(wire) = IF ShellAccepts(e) THEN Failure(OrNull(wire.id), OrNull(e.data))
                              ELSE Malformed
    BY <1>4 DEF CoreReads, ShellReads, Left
  <2>2. /\ ShellAccepts(e) => CoreAccepts(e)
        /\ CoreAccepts(e) /\ ~ ShellAccepts(e) => e.code = "other" \/ e.message = "other"
    BY <1>1 DEF Errors, ShellAccepts, CoreAccepts, Left
  <2>3. Failure(OrNull(wire.id), OrNull(e.data)).kind = "error"
    BY DEF Failure
  <2> QED BY <2>1, <2>2, <2>3
<1> QED BY <1>1, <1>2, <1>3, <1>4

(* What either end writes is an object, which both read as it was meant. *)
LEMMA AnyMessage == ASSUME MessagesStep
    PROVE  wire' \in Objects /\ CoreReads(wire)' = meant' /\ ShellReads(wire)' = meant'
<1> USE DEF Write, Left, Maybe
<1>1. ASSUME NEW p \in Maybe, NEW m \in Maybe,
             Write(RequestWire("text", p, m), Request("text", p, m))
      PROVE  wire' \in Objects /\ CoreReads(wire)' = meant' /\ ShellReads(wire)' = meant'
  <2>1. wire' \in Objects
    BY <1>1 DEF RequestWire, Envelope, NoError, Objects, Errors, IdTypes, Given
  <2>2. CoreReads(wire)' = meant'
    BY <1>1 DEF RequestWire, Envelope, Given, CoreReads, OrNull, Request
  <2>3. ShellReads(wire)' = meant'
    BY <1>1 DEF RequestWire, Envelope, Given, ShellReads, OrNull, Request
  <2> QED BY <2>1, <2>2, <2>3
<1>2. ASSUME NEW p \in Maybe, Write(NotificationWire(p), Notification(p))
      PROVE  wire' \in Objects /\ CoreReads(wire)' = meant' /\ ShellReads(wire)' = meant'
  <2>1. wire' \in Objects
    BY <1>2 DEF NotificationWire, Envelope, NoError, Objects, Errors, IdTypes, Given
  <2>2. CoreReads(wire)' = meant'
    BY <1>2 DEF NotificationWire, Envelope, Given, CoreReads, OrNull, Notification
  <2>3. ShellReads(wire)' = meant'
    BY <1>2 DEF NotificationWire, Envelope, Given, ShellReads, OrNull, Notification
  <2> QED BY <2>1, <2>2, <2>3
<1>3. ASSUME NEW i \in IdTypes, NEW v \in Maybe, Write(SuccessWire(i, v), Success(i, v))
      PROVE  wire' \in Objects /\ CoreReads(wire)' = meant' /\ ShellReads(wire)' = meant'
  <2>1. wire' \in Objects
    BY <1>3 DEF SuccessWire, Envelope, NoError, Objects, Errors, IdTypes
  <2>2. CoreReads(wire)' = meant'
    BY <1>3 DEF SuccessWire, Envelope, CoreReads, IdTypes
  <2>3. ShellReads(wire)' = meant'
    BY <1>3 DEF SuccessWire, Envelope, ShellReads, IdTypes
  <2> QED BY <2>1, <2>2, <2>3
<1>4. ASSUME NEW i \in IdTypes, NEW d \in Maybe, Write(ErrorWire(i, d), Failure(i, d))
      PROVE  wire' \in Objects /\ CoreReads(wire)' = meant' /\ ShellReads(wire)' = meant'
  <2>1. wire' \in Objects
    BY <1>4 DEF ErrorWire, Envelope, Objects, Errors, IdTypes, Given
  <2>2. CoreReads(wire)' = meant'
    BY <1>4 DEF ErrorWire, Envelope, CoreReads, CoreAccepts, IdTypes, Given, OrNull, Failure
  <2>3. ShellReads(wire)' = meant'
    BY <1>4 DEF ErrorWire, Envelope, ShellReads, ShellAccepts, IdTypes, Given, OrNull, Failure
  <2> QED BY <2>1, <2>2, <2>3
<1>5. CASE CoreWrites
  BY <1>1, <1>2, <1>3, <1>4, <1>5 DEF CoreWrites
<1>6. CASE ShellWrites
  <2>1. "null" \in Maybe
    OBVIOUS
  <2> QED BY <1>1, <1>2, <1>3, <1>4, <1>6, <2>1
        DEF ShellWrites, ShellAsks, ShellAnswers
<1> QED BY <1>5, <1>6 DEF MessagesStep

(* Both ends understand what either writes as it was meant, and take any   *)
(* object at all alike, but for an error of odd types.                     *)
THEOREM AlwaysReadAlike == MessagesInit /\ [][MessagesStep]_messageVars => []ReadAlike
<1> DEFINE I == wire \in Objects /\ ReadAlike
<1>1. MessagesInit => I
  BY AnyObject DEF MessagesInit, ReadAlike
<1>2. ASSUME I, [MessagesStep]_messageVars PROVE I'
  <2>1. CASE MessagesStep
    BY <2>1, AnyMessage DEF ReadAlike
  <2>2. CASE UNCHANGED messageVars
    BY <1>2, <2>2 DEF messageVars, ReadAlike
  <2> QED BY <1>2, <2>1, <2>2
<1>3. I => ReadAlike
  OBVIOUS
<1> QED BY <1>1, <1>2, <1>3, PTL

----------------------------------------------------------------------------
(* The router.                                                             *)

(* A limited provider is within its cooldown for as long as that lasts. *)
QuotaInv == \A p \in Backends : limited[p] # Null => cooldown[p] = limited[p] + Cooldown

(* What is to be scored, and was, is no fallback and nobody cooling down;  *)
(* a model is scored once, from what it declares.                          *)
Score(m, a) == ModelScore(Factors(Caps[m], a.need), a.mode)
IsJudged(c, a) ==
    /\ c.gate \in 0 .. 2
    /\ Profile[c.model] = Null => c.score = c.gate * Score(c.model, a)
Eligible(m, shun) == m \in Models /\ ~ Offline(m) /\ ServedBy[m] \notin shun
SelectOK(r) ==
    /\ \A m \in unscored[r] : Eligible(m, shunned[r])
    /\ IsFiniteSet(scored[r])
    /\ \A c \in scored[r] :
          /\ Eligible(c.model, shunned[r]) /\ c.model \notin unscored[r]
          /\ ask[r] \in Asks /\ IsJudged(c, ask[r])
    /\ \A c, d \in scored[r] : c.model = d.model => c = d
    /\ fallback[r] # Null => Offline(fallback[r])

(* A request that is being selected for has no ranking and no calls; one   *)
(* that calls is at a place of its ranking that follows its last call.     *)
Now(r) == [place |-> place[r], attempt |-> attempt[r]]
Latest(r) == tried[r][Len(tried[r])]
StageOK(r) ==
    /\ at[r] \in {"idle", "scoring", "falling_back"} => ranked[r] = <<>>
    /\ at[r] \in {"idle", "scoring", "falling_back", "decided"} => tried[r] = <<>>
    /\ at[r] = "scoring" => unscored[r] # {} /\ ask[r] \in Asks
    /\ at[r] \in Asking =>
          /\ place[r] \in 1 .. Len(ranked[r])
          /\ IF tried[r] = <<>> THEN place[r] = 1 /\ attempt[r] = 0
             ELSE Follows(Latest(r), Now(r))

RequestInv == TypeOK /\ QuotaInv /\ \A r \in Requests : SelectOK(r) /\ StageOK(r)

(* Division rounds down, and keeps the order. *)
LEMMA DivIs ==
    ASSUME NEW a \in Nat, NEW n \in Nat \ {0}
    PROVE  /\ a \div n \in Nat /\ n * (a \div n) <= a /\ a < n * (a \div n) + n
OBVIOUS

(* Division by the same number keeps the order.                            *)
LEMMA DivMonotone ==
    ASSUME NEW a \in Nat, NEW b \in Nat, NEW n \in Nat \ {0}, a <= b
    PROVE  a \div n <= b \div n
<1> DEFINE x == a \div n
           y == b \div n
<1>1. x \in Nat /\ y \in Nat /\ n * x <= a /\ b < n * y + n
  BY DivIs
<1> HIDE DEF x, y
<1>2. n * x < n * (y + 1)
  BY <1>1
<1>3. x < y + 1
  <2>1. ASSUME x >= y + 1 PROVE FALSE
    <3>1. PICK z \in Nat : x = y + 1 + z
      BY <1>1, <2>1
    <3>2. n * x = n * (y + 1) + n * z /\ n * z >= 0
      BY <1>1, <3>1
    <3> QED BY <1>1, <1>2, <3>2
  <2> QED BY <1>1, <2>1
<1>4. x <= y
  BY <1>1, <1>3
<1> QED BY <1>4 DEF x, y

(* The greater of two numbers is the less and something.                   *)
LEMMA Exceeds ==
    ASSUME NEW x \in Nat, NEW y \in Nat, x <= y
    PROVE  \E z \in Nat : y = x + z
OBVIOUS

(* A product does not shrink with its factor, and grows with it. *)
LEMMA TimesKeeps ==
    ASSUME NEW w \in Nat, NEW x \in Nat, NEW y \in Nat, x <= y
    PROVE  w * x \in Nat /\ w * y \in Nat /\ w * x <= w * y
           /\ (w # 0 /\ x < y => w * x < w * y)
<1>1. PICK z \in Nat : y = x + z
  OBVIOUS
<1>2. w * y = w * x + w * z /\ w * z \in Nat /\ w * x \in Nat
  BY <1>1
<1>3. w # 0 /\ z # 0 => w * z > 0
  BY <1>1
<1> QED BY <1>1, <1>2, <1>3

(* What a better capability is at least as good in, it gets no less for. *)
NoWorse(b, a) ==
    /\ IsCapability(a) /\ IsCapability(b)
    /\ \A d \in ExactDims : b[d] = a[d]
    /\ \A d \in OrdinalDims \cup SizeDims \cup {"cost"} : b[d] >= a[d]

(* Capping keeps the order.                                                *)
LEMMA CappedKeeps ==
    ASSUME NEW x \in Nat, NEW y \in Nat, x <= y
    PROVE  Capped(x) \in Nat /\ Capped(y) \in Nat /\ Capped(x) <= Capped(y)
BY UnitAssumption DEF Capped

(* In no dimension does the better of two capabilities fit less.           *)
LEMMA FitKeeps ==
    ASSUME NEW a, NEW b, NoWorse(b, a), NEW d \in NeedDims, NEW v,
           d \notin ExactDims => v \in Nat
    PROVE  /\ Fit(d, v, a[d]) \in Nat /\ Fit(d, v, b[d]) \in Nat
           /\ Fit(d, v, a[d]) <= Fit(d, v, b[d])
<1>1. CASE d \in ExactDims
  <2>1. \A x : Fit(d, v, x) = IF x = v THEN Unit ELSE 0
    BY <1>1, Zenon DEF Fit
  <2>2. b[d] = a[d]
    BY <1>1 DEF NoWorse
  <2> QED BY <2>1, <2>2, UnitAssumption
<1>2. CASE d \notin ExactDims /\ v > 0
  <2>1. v \in Nat \ {0} /\ a[d] \in Nat /\ b[d] \in Nat /\ a[d] <= b[d]
    BY <1>2 DEF NoWorse, IsCapability, NeedDims
  <2>2. \A x : Fit(d, v, x) = Capped((Unit * x) \div v)
    BY <1>2, Zenon DEF Fit
  <2>3. Unit * a[d] \in Nat /\ Unit * b[d] \in Nat /\ Unit * a[d] <= Unit * b[d]
    BY <2>1, UnitAssumption, TimesKeeps
  <2>4. /\ (Unit * a[d]) \div v \in Nat /\ (Unit * b[d]) \div v \in Nat
        /\ (Unit * a[d]) \div v <= (Unit * b[d]) \div v
    BY <2>1, <2>3, DivIs, DivMonotone
  <2> QED BY <2>2, <2>4, CappedKeeps
<1>3. CASE d \notin ExactDims /\ ~ (v > 0)
  <2>1. \A x : Fit(d, v, x) = Unit
    BY <1>3, Zenon DEF Fit
  <2> QED BY <2>1, UnitAssumption
<1> QED BY <1>1, <1>2, <1>3

(* Nor does it fit a need less.                                            *)
LEMMA SoftFitKeeps ==
    ASSUME NEW a, NEW b, NoWorse(b, a), NEW need, IsNeed(need)
    PROVE  /\ SoftFit(a, need) \in Nat /\ SoftFit(b, need) \in Nat
           /\ SoftFit(a, need) <= SoftFit(b, need)
<1>1. \A d \in NeedDims :
         /\ SoftPart(d, a, need) \in Nat /\ SoftPart(d, b, need) \in Nat
         /\ SoftPart(d, a, need) <= SoftPart(d, b, need)
  <2> TAKE d \in NeedDims
  <2>1. CASE d \in SoftDims(need)
    <3>1. d \notin ExactDims => need[d].value \in Nat
      BY <2>1 DEF SoftDims, IsNeed
    <3> QED BY <2>1, <3>1, FitKeeps DEF SoftPart
  <2>2. CASE d \notin SoftDims(need)
    BY <2>2 DEF SoftPart
  <2> QED BY <2>1, <2>2
<1>2. /\ SoftSum(a, need) \in Nat /\ SoftSum(b, need) \in Nat
      /\ SoftSum(a, need) <= SoftSum(b, need)
  <2>1. {"role", "reasoning", "code", "window", "tools", "vision", "turkish", "latency",
         "output", "streaming"} \subseteq NeedDims
    BY DEF NeedDims, ExactDims, OrdinalDims, SizeDims
  <2> QED BY <1>1, <2>1 DEF SoftSum
<1>3. CASE SoftDims(need) = {}
  BY <1>3, UnitAssumption DEF SoftFit
<1>4. CASE SoftDims(need) # {}
  <2>1. IsFiniteSet(NeedDims)
    <3>1. /\ IsFiniteSet(ExactDims) /\ IsFiniteSet(OrdinalDims) /\ IsFiniteSet(SizeDims)
      <4>1. /\ ExactDims = ({"role"} \cup {"vision"}) \cup {"streaming"}
            /\ OrdinalDims = ({"reasoning"} \cup {"code"} \cup {"tools"})
                               \cup ({"turkish"} \cup {"latency"})
            /\ SizeDims = {"window"} \cup {"output"}
        BY DEF ExactDims, OrdinalDims, SizeDims
      <4> QED BY <4>1, FS_Singleton, FS_Union
    <3> QED BY <3>1, FS_Union DEF NeedDims
  <2>2. IsFiniteSet(SoftDims(need))
    BY <2>1, FS_Subset DEF SoftDims, IsNeed
  <2>3. Cardinality(SoftDims(need)) \in Nat \ {0}
    BY <1>4, <2>2, FS_CardinalityType, FS_EmptySet
  <2> QED BY <1>2, <1>4, <2>3, DivIs, DivMonotone DEF SoftFit
<1> QED BY <1>3, <1>4

(* What counts in a dimension of levels is no less for the better one.     *)
LEMMA FractionKeeps ==
    ASSUME NEW a, NEW b, NoWorse(b, a), NEW d \in DOMAIN Levels
    PROVE  /\ Fraction(a, d) \in Nat /\ Fraction(b, d) \in Nat
           /\ Fraction(a, d) <= Fraction(b, d)
<1>1. a[d] \in Nat /\ b[d] \in Nat /\ a[d] <= b[d] /\ Levels[d] \in Nat \ {0}
  BY DEF NoWorse, IsCapability, Levels, OrdinalDims
<1>2. Unit * a[d] \in Nat /\ Unit * b[d] \in Nat /\ Unit * a[d] <= Unit * b[d]
  BY <1>1, UnitAssumption, TimesKeeps
<1> QED BY <1>1, <1>2, DivIs, DivMonotone DEF Fraction

(* The context of the better one fits a need no less.                      *)
LEMMA ContextFitKeeps ==
    ASSUME NEW a, NEW b, NoWorse(b, a), NEW need, IsNeed(need)
    PROVE  /\ ContextFit(a, need) \in Nat /\ ContextFit(b, need) \in Nat
           /\ ContextFit(a, need) <= ContextFit(b, need)
<1>1. CASE "window" \in DOMAIN need /\ need["window"].value > 0
  <2>1. /\ need["window"].value \in Nat \ {0}
        /\ a.window \in Nat /\ b.window \in Nat /\ a.window <= b.window
    BY <1>1 DEF NoWorse, IsCapability, IsNeed, SizeDims, ExactDims
  <2>2. Unit * a.window \in Nat /\ Unit * b.window \in Nat
        /\ Unit * a.window <= Unit * b.window
    BY <2>1, UnitAssumption, TimesKeeps
  <2> QED BY <1>1, <2>1, <2>2, DivIs, DivMonotone, CappedKeeps DEF ContextFit
<1>2. CASE ~ ("window" \in DOMAIN need /\ need["window"].value > 0)
  BY <1>2, UnitAssumption DEF ContextFit
<1> QED BY <1>1, <1>2

(* Deeper reasoning is worth more quality: a level is a third of Unit. *)
LEMMA QualityGrows ==
    ASSUME NEW a, NEW b, NoWorse(b, a), b.reasoning > a.reasoning
    PROVE  SeedQuality(a) \in Nat /\ SeedQuality(b) \in Nat /\ SeedQuality(a) < SeedQuality(b)
<1> DEFINE fa == Fraction(a, "reasoning")
           fb == Fraction(b, "reasoning")
           ra == Fraction(a, "code") + Fraction(a, "turkish")
           rb == Fraction(b, "code") + Fraction(b, "turkish")
<1>1. ra \in Nat /\ rb \in Nat /\ ra <= rb
  <2>1. "code" \in DOMAIN Levels /\ "turkish" \in DOMAIN Levels
    BY DEF Levels
  <2> QED BY <2>1, FractionKeeps
<1>2. PICK u \in Nat : Unit = 3 * u /\ u >= 3
  <2>1. PICK u \in Nat : Unit = 18 * u
    BY UnitAssumption
  <2>2. 6 * u \in Nat /\ Unit = 3 * (6 * u) /\ 6 * u >= 3
    BY <2>1, UnitAssumption
  <2> QED BY <2>2
<1>3. a.reasoning \in Nat /\ b.reasoning \in Nat
  BY DEF NoWorse, IsCapability, OrdinalDims
<1>4. \A x \in Nat : (Unit * x) \div 3 = u * x /\ u * x \in Nat
  <2> TAKE x \in Nat
  <2> DEFINE y == u * x
  <2>1. y \in Nat /\ Unit * x = 3 * y
    BY <1>2
  <2> HIDE DEF y
  <2>2. (3 * y) \div 3 = y
    BY <2>1
  <2> QED BY <2>1, <2>2 DEF y
<1>5. fa = u * a.reasoning /\ fb = u * b.reasoning
  BY <1>3, <1>4 DEF Fraction, Levels
<1>6. fa \in Nat /\ fb \in Nat /\ fb >= fa + 3
  <2>1. PICK z \in Nat : b.reasoning = a.reasoning + 1 + z
    <3>1. a.reasoning + 1 \in Nat /\ a.reasoning + 1 <= b.reasoning
      BY <1>3
    <3> QED BY <1>3, <3>1, Exceeds
  <2>2. u * b.reasoning = u * a.reasoning + u + u * z /\ u * z \in Nat
    BY <1>2, <1>3, <2>1
  <2> QED BY <1>2, <1>3, <1>4, <1>5, <2>2
<1>7. /\ SeedQuality(a) = (fa + ra) \div 3 /\ SeedQuality(b) = (fb + rb) \div 3
  <2>1. "code" \in DOMAIN Levels /\ "turkish" \in DOMAIN Levels
    BY DEF Levels
  <2>2. /\ Fraction(a, "code") \in Nat /\ Fraction(a, "turkish") \in Nat
        /\ Fraction(b, "code") \in Nat /\ Fraction(b, "turkish") \in Nat
    BY <2>1, FractionKeeps
  <2> QED BY <1>6, <2>2 DEF SeedQuality
<1> HIDE DEF fa, fb, ra, rb
<1>8. fa + ra \in Nat /\ fb + rb \in Nat /\ fb + rb >= fa + ra + 3
  BY <1>1, <1>6
<1>9. \A x, y \in Nat : y >= x + 3 => x \div 3 \in Nat /\ y \div 3 \in Nat /\ x \div 3 < y \div 3
  OBVIOUS
<1> QED BY <1>7, <1>8, <1>9

(* The weights of every mode are numbers, and quality always counts.       *)
LEMMA WeightsAre ==
    ASSUME NEW mode \in CostModes
    PROVE  LET w == Weights(mode) IN
           /\ w.fit \in Nat /\ w.quality \in Nat \ {0} /\ w.turkish \in Nat
           /\ w.latency \in Nat /\ w.cost \in Nat /\ w.context \in Nat
<1>1. CASE mode = "performance"
  <2>1. Weights(mode) = [fit |-> 10, quality |-> 10, turkish |-> 10, latency |-> 10,
                         cost |-> 1, context |-> 5]
    BY <1>1, Zenon DEF Weights
  <2> QED BY <2>1
<1>2. CASE mode = "balanced"
  <2>1. Weights(mode) = [fit |-> 10, quality |-> 10, turkish |-> 10, latency |-> 10,
                         cost |-> 10, context |-> 10]
    BY <1>2 DEF Weights
  <2> QED BY <2>1
<1>3. CASE mode = "economy"
  <2>1. Weights(mode) = [fit |-> 10, quality |-> 5, turkish |-> 5, latency |-> 5,
                         cost |-> 10, context |-> 5]
    BY <1>3 DEF Weights
  <2> QED BY <2>1
<1> QED BY <1>1, <1>2, <1>3 DEF CostModes

(* The better of two models has the higher score, under any need and mode. *)
LEMMA BetterScores ==
    ASSUME NEW a, NEW b, NoWorse(b, a), b.reasoning > a.reasoning,
           NEW need, IsNeed(need), NEW mode \in CostModes
    PROVE  LET low == ModelScore(Factors(a, need), mode)
               high == ModelScore(Factors(b, need), mode)
           IN  low \in Nat /\ high \in Nat /\ low < high
<1> DEFINE f == Factors(a, need)
           g == Factors(b, need)
           w == Weights(mode)
<1>1. /\ f.fit \in Nat /\ g.fit \in Nat /\ f.fit <= g.fit
      /\ f.context \in Nat /\ g.context \in Nat /\ f.context <= g.context
  BY SoftFitKeeps, ContextFitKeeps DEF Factors
<1>2. f.quality \in Nat /\ g.quality \in Nat /\ f.quality < g.quality
  BY QualityGrows DEF Factors
<1>3. /\ f.turkish \in Nat /\ g.turkish \in Nat /\ f.turkish <= g.turkish
      /\ f.latency \in Nat /\ g.latency \in Nat /\ f.latency <= g.latency
      /\ f.cost \in Nat /\ g.cost \in Nat /\ f.cost <= g.cost
  <2>1. {"turkish", "latency", "cost"} \subseteq DOMAIN Levels
    BY DEF Levels
  <2> QED BY <2>1, FractionKeeps DEF Factors
<1>4. /\ w.fit \in Nat /\ w.quality \in Nat /\ w.quality # 0 /\ w.turkish \in Nat
      /\ w.latency \in Nat /\ w.cost \in Nat /\ w.context \in Nat
  BY WeightsAre
<1>5. /\ ModelScore(f, mode) = w.fit * f.fit + w.quality * f.quality
            + w.turkish * f.turkish + w.latency * f.latency + w.cost * f.cost
            + w.context * f.context
      /\ ModelScore(g, mode) = w.fit * g.fit + w.quality * g.quality
            + w.turkish * g.turkish + w.latency * g.latency + w.cost * g.cost
            + w.context * g.context
  BY Zenon DEF ModelScore
<1> HIDE DEF f, g, w
<1>6. w.fit * f.fit \in Nat /\ w.fit * g.fit \in Nat /\ w.fit * f.fit <= w.fit * g.fit
  BY <1>1, <1>4, TimesKeeps
<1>7. /\ w.context * f.context \in Nat /\ w.context * g.context \in Nat
      /\ w.context * f.context <= w.context * g.context
  BY <1>1, <1>4, TimesKeeps
<1>8. /\ w.quality * f.quality \in Nat /\ w.quality * g.quality \in Nat
      /\ w.quality * f.quality < w.quality * g.quality
  BY <1>2, <1>4, TimesKeeps
<1>9. /\ w.turkish * f.turkish \in Nat /\ w.turkish * g.turkish \in Nat
      /\ w.turkish * f.turkish <= w.turkish * g.turkish
  BY <1>3, <1>4, TimesKeeps
<1>10. /\ w.latency * f.latency \in Nat /\ w.latency * g.latency \in Nat
       /\ w.latency * f.latency <= w.latency * g.latency
  BY <1>3, <1>4, TimesKeeps
<1>11. w.cost * f.cost \in Nat /\ w.cost * g.cost \in Nat /\ w.cost * f.cost <= w.cost * g.cost
  BY <1>3, <1>4, TimesKeeps
<1>12. /\ ModelScore(f, mode) \in Nat /\ ModelScore(g, mode) \in Nat
       /\ ModelScore(f, mode) < ModelScore(g, mode)
  BY <1>5, <1>6, <1>7, <1>8, <1>9, <1>10, <1>11
<1> QED BY <1>12 DEF f, g

(* The facts about the constants that the steps need. *)
LEMMA RouteConstants ==
    /\ Null \notin Models /\ Null \notin Nat
    /\ MaxTime \in Nat /\ MaxRetries \in Nat /\ Cooldown \in Nat
    /\ \A m \in Models : ServedBy[m] \in Backends /\ IsCapability(Caps[m])
    /\ \A catalogue \in Catalogues : catalogue \subseteq Models
    /\ \A a \in Asks : IsNeed(a.need) /\ a.mode \in CostModes
BY RoutingAssumption

(* The gate is closed, half open or open. *)
LEMMA GateIs ==
    ASSUME NEW health, NEW cooling
    PROVE  Gate(health, cooling) \in 0 .. 2
<1>1. HealthFactor(health) \in 0 .. 2
  <2>1. CASE health = "up"
    BY <2>1 DEF HealthFactor
  <2>2. CASE health = "degraded"
    BY <2>2 DEF HealthFactor
  <2>3. CASE health # "up" /\ health # "degraded"
    BY <2>3 DEF HealthFactor
  <2> QED BY <2>1, <2>2, <2>3
<1> QED BY <1>1 DEF Gate

(* A ranking lists the candidates, the better before the worse. *)
LEMMA RankingIs ==
    ASSUME NEW S, IsFiniteSet(S), \A c \in S : c.model \in Models, NEW q \in Ranking(S)
    PROVE  /\ DOMAIN q = 1 .. Cardinality(S) /\ Cardinality(S) \in Nat
           /\ \A i \in DOMAIN q : q[i] \in S
           /\ \A i, j \in DOMAIN q : i < j => Before(q[i], q[j])
           /\ [i \in DOMAIN q |-> q[i].model] \in Seq(Models)
           /\ Len([i \in DOMAIN q |-> q[i].model]) = Cardinality(S)
<1>1. Cardinality(S) \in Nat
  BY FS_CardinalityType
<1>2. /\ q \in [1 .. Cardinality(S) -> S]
      /\ \A i, j \in DOMAIN q : i < j => Before(q[i], q[j])
  BY Zenon DEF Ranking
<1>3. DOMAIN q = 1 .. Cardinality(S) /\ \A i \in DOMAIN q : q[i] \in S
  BY <1>2
<1> DEFINE m == [i \in DOMAIN q |-> q[i].model]
<1>4. m \in [1 .. Cardinality(S) -> Models]
  BY <1>3
<1>5. m \in Seq(Models) /\ Len(m) = Cardinality(S)
  <2> HIDE DEF m
  <2> QED BY <1>1, <1>4
<1> QED BY <1>1, <1>2, <1>3, <1>5

(* A list of models in the order their healthy candidates are ranked. *)
InOrder(list, candidates) ==
    \E q \in Ranking(Healthy(candidates)) : list = [i \in DOMAIN q |-> q[i].model]

(* What a decision is: the healthy candidates in their order, or else the  *)
(* fallback, if there is one.                                              *)
LEMMA DecisionIs ==
    ASSUME TypeOK, NEW r \in Requests, NEW candidates, NEW offline,
           IsFiniteSet(candidates), \A c \in candidates : c.model \in Models,
           offline \in Models \cup {Null}, Decide(r, candidates, offline)
    PROVE  /\ at' = [at EXCEPT ![r] = "decided"]
           /\ ranked' \in [Requests -> Seq(Models)]
           /\ \A s \in Requests : s # r => ranked'[s] = ranked[s]
           /\ \/ InOrder(ranked'[r], candidates)
              \/ ranked'[r] = <<>>
              \/ offline # Null /\ ranked'[r] = <<offline>>
<1>1. at' = [at EXCEPT ![r] = "decided"]
  BY DEF Decide
<1>2. IsFiniteSet(Healthy(candidates)) /\ \A c \in Healthy(candidates) : c.model \in Models
  BY FS_Subset DEF Healthy
<1>3. CASE Healthy(candidates) # {}
  <2>1. PICK q \in Ranking(Healthy(candidates)) :
           ranked' = [ranked EXCEPT ![r] = [i \in DOMAIN q |-> q[i].model]]
    BY <1>3 DEF Decide
  <2>2. [i \in DOMAIN q |-> q[i].model] \in Seq(Models)
    BY <1>2, <2>1, RankingIs
  <2>3. InOrder(ranked'[r], candidates)
    BY <2>1 DEF InOrder, TypeOK
  <2> QED BY <1>1, <2>1, <2>2, <2>3 DEF TypeOK
<1>4. CASE Healthy(candidates) = {}
  <2>1. ranked' = [ranked EXCEPT ![r] = IF offline = Null THEN <<>> ELSE <<offline>>]
    BY <1>4 DEF Decide
  <2>2. <<>> \in Seq(Models) /\ (offline # Null => <<offline>> \in Seq(Models))
    OBVIOUS
  <2> QED BY <1>1, <2>1, <2>2 DEF TypeOK
<1> QED BY <1>3, <1>4

(* Deciding and going on with the scoring are of one request. *)
LEMMA DecideSame ==
    ASSUME TypeOK, NEW r \in Requests, NEW candidates, NEW offline,
           Decide(r, candidates, offline), NEW s \in Requests, s # r
    PROVE  at'[s] = at[s] /\ ranked'[s] = ranked[s]
<1>1. CASE Healthy(candidates) # {}
  <2>1. PICK q : ranked' = [ranked EXCEPT ![r] = [i \in DOMAIN q |-> q[i].model]]
    BY <1>1 DEF Decide
  <2> QED BY <2>1 DEF Decide, TypeOK
<1>2. CASE Healthy(candidates) = {}
  BY <1>2 DEF Decide, TypeOK
<1> QED BY <1>1, <1>2

(* Scoring one more model changes what one request has scored.             *)
LEMMA GoOnSame ==
    ASSUME TypeOK, NEW r \in Requests, NEW left, NEW candidates, NEW offline,
           GoOnScoring(r, left, candidates, offline)
    PROVE  /\ unscored' = [unscored EXCEPT ![r] = left]
           /\ scored' = [scored EXCEPT ![r] = candidates]
           /\ \A s \in Requests : s # r => at'[s] = at[s] /\ ranked'[s] = ranked[s]
<1>1. /\ unscored' = [unscored EXCEPT ![r] = left]
      /\ scored' = [scored EXCEPT ![r] = candidates]
  BY DEF GoOnScoring
<1>2. CASE left # {}
  <2>1. at' = [at EXCEPT ![r] = "scoring"] /\ UNCHANGED ranked
    BY <1>2, Zenon DEF GoOnScoring
  <2> QED BY <1>1, <2>1 DEF TypeOK
<1>3. CASE left = {} /\ offline # Null
  <2>1. at' = [at EXCEPT ![r] = "falling_back"] /\ UNCHANGED ranked
    BY <1>3, Zenon DEF GoOnScoring
  <2> QED BY <1>1, <2>1 DEF TypeOK
<1>4. CASE left = {} /\ offline = Null
  <2>1. Decide(r, candidates, offline)
    BY <1>4, Zenon DEF GoOnScoring
  <2> QED BY <1>1, <2>1, DecideSame
<1> QED BY <1>2, <1>3, <1>4

(* Going on with the scoring, likewise. *)
LEMMA ScoringIs ==
    ASSUME TypeOK, NEW r \in Requests, NEW left \in SUBSET Models, NEW candidates, NEW offline,
           IsFiniteSet(candidates), \A c \in candidates : c.model \in Models,
           offline \in Models \cup {Null}, GoOnScoring(r, left, candidates, offline)
    PROVE  /\ unscored' = [unscored EXCEPT ![r] = left]
           /\ scored' = [scored EXCEPT ![r] = candidates] /\ DOMAIN scored' = Requests
           /\ ranked' \in [Requests -> Seq(Models)]
           /\ \A s \in Requests : s # r => ranked'[s] = ranked[s]
           /\ at' \in [Requests -> Stages]
           /\ \A s \in Requests : s # r => at'[s] = at[s]
           /\ \/ at'[r] = "scoring" /\ left # {} /\ ranked'[r] = ranked[r]
              \/ at'[r] = "falling_back" /\ ranked'[r] = ranked[r]
              \/ /\ at'[r] = "decided"
                 /\ \/ InOrder(ranked'[r], candidates)
                    \/ ranked'[r] = <<>>
                    \/ offline # Null /\ ranked'[r] = <<offline>>
<1>1. /\ unscored' = [unscored EXCEPT ![r] = left]
      /\ scored' = [scored EXCEPT ![r] = candidates] /\ DOMAIN scored' = Requests
  BY DEF GoOnScoring, TypeOK
<1>2. {"scoring", "falling_back", "decided"} \subseteq Stages
  BY DEF Stages
<1>3. CASE left # {}
  <2>1. at' = [at EXCEPT ![r] = "scoring"] /\ UNCHANGED ranked
    BY <1>3, Zenon DEF GoOnScoring
  <2> QED BY <1>1, <1>2, <1>3, <2>1 DEF TypeOK
<1>4. CASE left = {} /\ offline # Null
  <2>1. at' = [at EXCEPT ![r] = "falling_back"] /\ UNCHANGED ranked
    BY <1>4, Zenon DEF GoOnScoring
  <2> QED BY <1>1, <1>2, <2>1 DEF TypeOK
<1>5. CASE left = {} /\ offline = Null
  <2>1. Decide(r, candidates, offline)
    BY <1>5, Zenon DEF GoOnScoring
  <2>2. /\ at' = [at EXCEPT ![r] = "decided"]
        /\ ranked' \in [Requests -> Seq(Models)]
        /\ \A s \in Requests : s # r => ranked'[s] = ranked[s]
        /\ \/ InOrder(ranked'[r], candidates)
           \/ ranked'[r] = <<>>
           \/ offline # Null /\ ranked'[r] = <<offline>>
    BY <2>1, DecisionIs
  <2>3. /\ at' \in [Requests -> Stages] /\ at'[r] = "decided"
        /\ \A s \in Requests : s # r => at'[s] = at[s]
    BY <1>2, <2>2 DEF TypeOK
  <2> QED BY <1>1, <2>2, <2>3
<1> QED BY <1>3, <1>4, <1>5

(* A call that begins is at its place, or the list is at its end. *)
LEMMA StartCallIs ==
    ASSUME TypeOK, NEW r \in Requests, NEW i \in Nat, NEW n \in 0 .. MaxRetries,
           StartCall(r, i, n)
    PROVE  /\ at' \in [Requests -> Stages] /\ place' \in [Requests -> Nat]
           /\ attempt' \in [Requests -> 0 .. MaxRetries]
           /\ spoken' \in [Requests -> BOOLEAN]
           /\ \A s \in Requests : s # r => /\ at'[s] = at[s] /\ place'[s] = place[s]
                                           /\ attempt'[s] = attempt[s]
           /\ \/ at'[r] = "unroutable" /\ i > Len(ranked[r])
              \/ /\ at'[r] = "opening" /\ i <= Len(ranked[r])
                 /\ place'[r] = i /\ attempt'[r] = n
<1>1. Len(ranked[r]) \in Nat
  BY LenProperties DEF TypeOK
<1>2. CASE i > Len(ranked[r])
  <2>1. at' = [at EXCEPT ![r] = "unroutable"] /\ UNCHANGED <<place, attempt, spoken>>
    BY <1>2 DEF StartCall
  <2> QED BY <1>2, <2>1 DEF TypeOK, Stages, Over
<1>3. CASE i <= Len(ranked[r])
  <2>1. /\ at' = [at EXCEPT ![r] = "opening"] /\ place' = [place EXCEPT ![r] = i]
        /\ attempt' = [attempt EXCEPT ![r] = n] /\ spoken' = [spoken EXCEPT ![r] = FALSE]
    BY <1>1, <1>3 DEF StartCall
  <2>2. spoken' \in [Requests -> BOOLEAN]
    BY <2>1 DEF TypeOK
  <2> QED BY <1>3, <2>1, <2>2 DEF TypeOK, Stages
<1> QED BY <1>1, <1>2, <1>3

(* A call that has ended is noted with its place and how it ended. *)
LEMMA NoteIs ==
    ASSUME TypeOK, NEW r \in Requests, NEW how \in Hows, Note(r, how)
    PROVE  /\ tried' \in [Requests -> Seq([place : Nat, attempt : 0 .. MaxRetries, how : Hows])]
           /\ \A s \in Requests : s # r => tried'[s] = tried[s]
           /\ tried'[r] = Append(tried[r],
                             [place |-> place[r], attempt |-> attempt[r], how |-> how])
<1> DEFINE T == [place : Nat, attempt : 0 .. MaxRetries, how : Hows]
           t == [place |-> place[r], attempt |-> attempt[r], how |-> how]
<1>1. t \in T /\ tried[r] \in Seq(T)
  BY DEF TypeOK
<1>2. tried' = [tried EXCEPT ![r] = Append(@, t)] /\ tried \in [Requests -> Seq(T)]
  BY DEF Note, TypeOK
<1> HIDE DEF t, T
<1>3. Append(tried[r], t) \in Seq(T)
  BY <1>1, AppendProperties
<1>4. tried' \in [Requests -> Seq(T)] /\ tried'[r] = Append(tried[r], t)
      /\ \A s \in Requests : s # r => tried'[s] = tried[s]
  BY <1>2, <1>3
<1> QED BY <1>4 DEF t, T

(* Failing over is retrying the candidate or going on to the next one. *)
LEMMA FailsOverIs ==
    ASSUME TypeOK, NEW r \in Requests, NEW how \in Hows, FailsOver(r, how)
    PROVE  /\ at' \in [Requests -> Stages] /\ place' \in [Requests -> Nat]
           /\ attempt' \in [Requests -> 0 .. MaxRetries]
           /\ spoken' \in [Requests -> BOOLEAN]
           /\ \A s \in Requests : s # r => /\ at'[s] = at[s] /\ place'[s] = place[s]
                                           /\ attempt'[s] = attempt[s]
           /\ Note(r, how) /\ UNCHANGED <<choice, ranked>>
           /\ \/ /\ at'[r] = "unroutable" /\ place[r] + 1 > Len(ranked[r])
                 /\ ~ Retriable(r, how)
              \/ /\ at'[r] = "unroutable" /\ place[r] > Len(ranked[r])
              \/ /\ at'[r] = "opening" /\ place'[r] <= Len(ranked[r])
                 /\ \/ /\ Retriable(r, how)
                       /\ place'[r] = place[r] /\ attempt'[r] = attempt[r] + 1
                    \/ /\ ~ Retriable(r, how)
                       /\ place'[r] = place[r] + 1 /\ attempt'[r] = 0
<1>1. Note(r, how) /\ UNCHANGED <<choice, ranked>>
  BY DEF FailsOver
<1>2. place[r] \in Nat /\ attempt[r] \in 0 .. MaxRetries /\ MaxRetries \in Nat
  BY RouteConstants DEF TypeOK
<1>3. CASE Retriable(r, how)
  <2>1. StartCall(r, place[r], attempt[r] + 1)
    BY <1>3 DEF FailsOver
  <2>2. attempt[r] + 1 \in 0 .. MaxRetries
    BY <1>2, <1>3 DEF Retriable
  <2> QED BY <1>1, <1>2, <1>3, <2>1, <2>2, StartCallIs
<1>4. CASE ~ Retriable(r, how)
  <2>1. StartCall(r, place[r] + 1, 0)
    BY <1>4 DEF FailsOver
  <2>2. place[r] + 1 \in Nat /\ 0 \in 0 .. MaxRetries
    BY <1>2
  <2> QED BY <1>1, <1>4, <2>1, <2>2, StartCallIs
<1> QED BY <1>3, <1>4

(* How a call may be refused, or run out of time. *)
LEMMA RefusalIs ==
    ASSUME NEW r \in Requests, Refuses(r)
    PROVE  /\ at[r] = "opening"
           /\ \/ FailsOver(r, "limited") /\ EnterCooldown(Backend(r))
              \/ FailsOver(r, "failed") /\ UNCHANGED quota
              \/ Ends(r, "foreign", "broken")
BY Zenon DEF Refuses

(* What a deadline does to a request: it fails over, or ends cut off once  *)
(* a chunk was taken.                                                      *)
LEMMA DeadlineIs ==
    ASSUME NEW r \in Requests, Deadline(r)
    PROVE  \/ /\ at[r] \in {"opening", "reading"} /\ UNCHANGED quota
              /\ FailsOver(r, "spoke") \/ FailsOver(r, "failed")
           \/ at[r] = "taking" /\ Ends(r, "spoke", "cut_off")
BY DEF Deadline

(* Selection's types are kept. *)
LEMMA SelectTypes ==
    ASSUME RequestInv, NEW r \in Requests,
           \/ \E a \in Asks, catalogue \in Catalogues : Select(r, a, catalogue)
           \/ HealthAnswers(r) \/ FallbackAnswers(r)
    PROVE  TypeOK'
<1> USE DEF RequestInv
<1>1. ASSUME NEW a \in Asks, NEW catalogue \in Catalogues, Select(r, a, catalogue)
      PROVE  TypeOK'
  <2> DEFINE capable == Capable(catalogue, a.need)
             offline == IF FirstOffline(capable) = {} THEN Null
                        ELSE CHOOSE m \in FirstOffline(capable) : TRUE
             shun == {p \in Backends : limited[p] # Null /\ clock < limited[p] + Cooldown}
  <2>1. /\ ask' = [ask EXCEPT ![r] = a] /\ fallback' = [fallback EXCEPT ![r] = offline]
        /\ GoOnScoring(r, Primaries(capable), {}, offline)
        /\ shunned' = [shunned EXCEPT ![r] = shun] /\ UNCHANGED <<quota, call>>
    BY <1>1 DEF Select
  <2>2. capable \subseteq Models /\ FirstOffline(capable) \subseteq capable
    BY RouteConstants DEF Capable, FirstOffline
  <2>3. offline \in Models \cup {Null} /\ Primaries(capable) \in SUBSET Models
    BY <2>2 DEF Primaries
  <2> HIDE DEF capable, offline
  <2>4. /\ unscored' = [unscored EXCEPT ![r] = Primaries(capable)]
        /\ scored' = [scored EXCEPT ![r] = {}]
        /\ ranked' \in [Requests -> Seq(Models)] /\ at' \in [Requests -> Stages]
    BY <2>1, <2>3, ScoringIs, FS_EmptySet
  <2>5. \A s \in Requests : \A c \in scored'[s] : c.model \in Models
    <3>1. \A s \in Requests : scored'[s] \subseteq scored[s] \/ scored'[s] = {}
      BY <2>4 DEF TypeOK
    <3> QED BY <3>1 DEF TypeOK
  <2> QED BY <2>1, <2>3, <2>4, <2>5 DEF TypeOK, quota, call
<1>2. CASE HealthAnswers(r)
  <2>1. PICK m \in unscored[r], reply \in Replies :
           GoOnScoring(r, unscored[r] \ {m},
               scored[r] \cup {Scored(r, m, Health(Adapter[ServedBy[m]], reply))},
               fallback[r])
    BY <1>2 DEF HealthAnswers
  <2> DEFINE c == Scored(r, m, Health(Adapter[ServedBy[m]], reply))
  <2>2. /\ c.model = m /\ m \in Models
        /\ GoOnScoring(r, unscored[r] \ {m}, scored[r] \cup {c}, fallback[r])
    BY <2>1 DEF Scored, TypeOK
  <2> HIDE DEF c
  <2>3. /\ unscored[r] \ {m} \in SUBSET Models /\ fallback[r] \in Models \cup {Null}
        /\ \A d \in scored[r] \cup {c} : d.model \in Models
    BY <2>2 DEF TypeOK
  <2>4. IsFiniteSet(scored[r] \cup {c})
    BY FS_AddElement DEF SelectOK
  <2>5. /\ unscored' = [unscored EXCEPT ![r] = unscored[r] \ {m}]
        /\ scored' = [scored EXCEPT ![r] = scored[r] \cup {c}]
        /\ ranked' \in [Requests -> Seq(Models)] /\ at' \in [Requests -> Stages]
    BY <2>2, <2>3, <2>4, ScoringIs
  <2>6. \A s \in Requests : \A d \in scored'[s] : d.model \in Models
    <3>1. \A s \in Requests : scored'[s] = scored[s] \/ scored'[s] = scored[r] \cup {c}
      BY <2>5 DEF TypeOK
    <3> QED BY <2>3, <3>1 DEF TypeOK
  <2>7. UNCHANGED <<quota, ask, fallback, shunned, call>>
    BY <1>2 DEF HealthAnswers
  <2> QED BY <2>3, <2>5, <2>6, <2>7 DEF TypeOK, quota, call
<1>3. CASE FallbackAnswers(r)
  <2>1. Decide(r, scored[r], fallback[r]) /\ UNCHANGED <<quota, choice, call>>
    BY <1>3 DEF FallbackAnswers
  <2>2. at' = [at EXCEPT ![r] = "decided"] /\ ranked' \in [Requests -> Seq(Models)]
    BY <2>1, DecisionIs DEF TypeOK, SelectOK
  <2> QED BY <2>1, <2>2 DEF TypeOK, quota, choice, call, Stages
<1> QED BY <1>1, <1>2, <1>3

(* So are those of the calls. *)
LEMMA CallTypes ==
    ASSUME RequestInv, NEW r \in Requests,
           \/ Execute(r) \/ Opens(r) \/ Refuses(r) \/ Reads(r) \/ Finishes(r) \/ Takes(r)
           \/ Deadline(r) \/ Leaves(r)
    PROVE  TypeOK'
<1> USE DEF RequestInv
<1> Hows = {"failed", "limited", "spoke", "foreign", "whole"}
  BY DEF Hows
<1>1. CASE Execute(r)
  <2>1. /\ StartCall(r, 1, 0) /\ ask' = [ask EXCEPT ![r] = Null]
        /\ scored' = [scored EXCEPT ![r] = {}] /\ fallback' = [fallback EXCEPT ![r] = Null]
        /\ UNCHANGED <<quota, unscored, shunned, ranked, tried>>
    BY <1>1 DEF Execute
  <2>2. /\ at' \in [Requests -> Stages] /\ place' \in [Requests -> Nat]
        /\ attempt' \in [Requests -> 0 .. MaxRetries] /\ spoken' \in [Requests -> BOOLEAN]
    <3>1. TypeOK /\ 1 \in Nat /\ 0 \in 0 .. MaxRetries
      BY RouteConstants
    <3> QED BY <2>1, <3>1, StartCallIs
  <2>3. DOMAIN scored' = Requests /\ \A s \in Requests : \A c \in scored'[s] : c.model \in Models
    <3>1. \A s \in Requests : scored'[s] = scored[s] \/ scored'[s] = {}
      BY <2>1 DEF TypeOK
    <3> QED BY <2>1, <3>1 DEF TypeOK
  <2> QED BY <2>1, <2>2, <2>3 DEF TypeOK, quota
<1>2. CASE Opens(r) \/ Takes(r) \/ Leaves(r)
  <2>1. UNCHANGED <<quota, choice, ranked, call>>
    BY <1>2 DEF Opens, Takes, Leaves
  <2>2. at' \in [Requests -> Stages]
    BY <1>2 DEF Opens, Takes, Leaves, TypeOK, Stages, Over
  <2> QED BY <2>1, <2>2 DEF TypeOK, quota, choice, call
<1>3. ASSUME NEW how \in Hows, FailsOver(r, how), UNCHANGED quota \/ EnterCooldown(Backend(r))
      PROVE  TypeOK'
  <2>1. /\ at' \in [Requests -> Stages] /\ place' \in [Requests -> Nat]
        /\ attempt' \in [Requests -> 0 .. MaxRetries] /\ spoken' \in [Requests -> BOOLEAN]
        /\ Note(r, how) /\ UNCHANGED <<choice, ranked>>
    BY <1>3, FailsOverIs
  <2>2. tried' \in [Requests -> Seq([place : Nat, attempt : 0 .. MaxRetries, how : Hows])]
    BY <2>1, NoteIs
  <2>3. /\ clock' \in 0 .. MaxTime /\ cooldown' \in [Backends -> Nat]
        /\ limited' \in [Backends -> 0 .. MaxTime \cup {Null}]
    <3>1. CASE UNCHANGED quota
      BY <3>1 DEF quota, TypeOK
    <3>2. CASE EnterCooldown(Backend(r))
      <4>1. /\ cooldown' = [cooldown EXCEPT ![Backend(r)] = clock + Cooldown]
            /\ limited' = [limited EXCEPT ![Backend(r)] = clock] /\ UNCHANGED clock
        BY <3>2 DEF EnterCooldown
      <4>2. clock + Cooldown \in Nat /\ clock \in 0 .. MaxTime
        BY RouteConstants DEF TypeOK
      <4> QED BY <4>1, <4>2 DEF TypeOK
    <3> QED BY <1>3, <3>1, <3>2
  <2> QED BY <2>1, <2>2, <2>3 DEF TypeOK, choice
<1>4. ASSUME NEW how \in Hows, NEW end \in Stages, Ends(r, how, end) PROVE TypeOK'
  <2>1. /\ Note(r, how) /\ at' = [at EXCEPT ![r] = end]
        /\ UNCHANGED <<quota, choice, ranked, place, attempt, spoken>>
    BY <1>4 DEF Ends
  <2>2. tried' \in [Requests -> Seq([place : Nat, attempt : 0 .. MaxRetries, how : Hows])]
    BY <2>1, NoteIs
  <2> QED BY <2>1, <2>2 DEF TypeOK, quota, choice
<1>5. {"broken", "cut_off", "answered"} \subseteq Stages
  BY DEF Stages, Over
<1>6. CASE Refuses(r)
  BY <1>3, <1>4, <1>5, <1>6, RefusalIs
<1>7. CASE Deadline(r)
  BY <1>3, <1>4, <1>5, <1>7, DeadlineIs
<1>8. CASE Finishes(r)
  BY <1>4, <1>5, <1>8 DEF Finishes
<1>9. CASE Reads(r)
  <2>1. \/ /\ at' = [at EXCEPT ![r] = "taking"] /\ spoken' = [spoken EXCEPT ![r] = TRUE]
           /\ UNCHANGED <<quota, choice, ranked, place, attempt, tried>>
        \/ UNCHANGED vars
        \/ Ends(r, "foreign", "broken")
    BY <1>9, Zenon DEF Reads
  <2>2. ASSUME at' = [at EXCEPT ![r] = "taking"], spoken' = [spoken EXCEPT ![r] = TRUE],
               UNCHANGED <<quota, choice, ranked, place, attempt, tried>>
        PROVE  TypeOK'
    <3>1. at' \in [Requests -> Stages] /\ spoken' \in [Requests -> BOOLEAN]
      BY <2>2 DEF TypeOK, Stages
    <3> QED BY <2>2, <3>1 DEF TypeOK, quota, choice
  <2>3. CASE UNCHANGED vars
    BY <2>3 DEF TypeOK, vars, quota, choice, call
  <2> QED BY <1>4, <1>5, <2>1, <2>2, <2>3
<1> QED BY <1>1, <1>2, <1>6, <1>7, <1>8, <1>9

(* A request's step leaves the others' state alone. *)
Same(r) ==
    /\ at'[r] = at[r] /\ ask'[r] = ask[r] /\ unscored'[r] = unscored[r]
    /\ scored'[r] = scored[r] /\ fallback'[r] = fallback[r] /\ shunned'[r] = shunned[r]
    /\ ranked'[r] = ranked[r] /\ place'[r] = place[r] /\ attempt'[r] = attempt[r]
    /\ tried'[r] = tried[r]

(* A step of one request leaves every other request as it was.             *)
LEMMA OthersSame ==
    ASSUME RequestInv, NEW r \in Requests, Step(r), NEW s \in Requests, s # r
    PROVE  Same(s)
<1> USE DEF RequestInv
<1>1. ASSUME NEW a \in Asks, NEW catalogue \in Catalogues, Select(r, a, catalogue)
      PROVE  Same(s)
  <2> DEFINE capable == Capable(catalogue, a.need)
             offline == IF FirstOffline(capable) = {} THEN Null
                        ELSE CHOOSE m \in FirstOffline(capable) : TRUE
             shun == {p \in Backends : limited[p] # Null /\ clock < limited[p] + Cooldown}
  <2>1. /\ ask' = [ask EXCEPT ![r] = a] /\ fallback' = [fallback EXCEPT ![r] = offline]
        /\ GoOnScoring(r, Primaries(capable), {}, offline)
        /\ shunned' = [shunned EXCEPT ![r] = shun] /\ UNCHANGED <<quota, call>>
    BY <1>1 DEF Select
  <2> HIDE DEF offline, shun, capable
  <2>2. /\ unscored' = [unscored EXCEPT ![r] = Primaries(capable)]
        /\ scored' = [scored EXCEPT ![r] = {}]
        /\ at'[s] = at[s] /\ ranked'[s] = ranked[s]
    BY <2>1, GoOnSame
  <2> QED BY <2>1, <2>2 DEF TypeOK, Same, call
<1>2. CASE HealthAnswers(r)
  <2>1. PICK left, candidates : GoOnScoring(r, left, candidates, fallback[r])
    BY <1>2 DEF HealthAnswers
  <2>2. /\ unscored' = [unscored EXCEPT ![r] = left]
        /\ scored' = [scored EXCEPT ![r] = candidates]
        /\ at'[s] = at[s] /\ ranked'[s] = ranked[s]
    BY <2>1, GoOnSame
  <2>3. UNCHANGED <<quota, ask, fallback, shunned, call>>
    BY <1>2 DEF HealthAnswers
  <2> QED BY <2>2, <2>3 DEF TypeOK, Same, call
<1>3. CASE FallbackAnswers(r)
  <2>1. Decide(r, scored[r], fallback[r]) /\ UNCHANGED <<quota, choice, call>>
    BY <1>3 DEF FallbackAnswers
  <2>2. at'[s] = at[s] /\ ranked'[s] = ranked[s]
    BY <2>1, DecideSame
  <2> QED BY <2>1, <2>2 DEF Same, choice, call
<1>4. CASE Execute(r)
  <2>1. /\ StartCall(r, 1, 0) /\ ask' = [ask EXCEPT ![r] = Null]
        /\ scored' = [scored EXCEPT ![r] = {}] /\ fallback' = [fallback EXCEPT ![r] = Null]
        /\ UNCHANGED <<quota, unscored, shunned, ranked, tried>>
    BY <1>4 DEF Execute
  <2>2. at'[s] = at[s] /\ place'[s] = place[s] /\ attempt'[s] = attempt[s]
    BY <2>1, StartCallIs, RouteConstants
  <2> QED BY <2>1, <2>2 DEF TypeOK, Same
<1>5. CASE Opens(r) \/ Takes(r) \/ Leaves(r)
  <2>1. UNCHANGED <<quota, choice, ranked, call>> /\ at'[s] = at[s]
    BY <1>5 DEF Opens, Takes, Leaves, TypeOK
  <2> QED BY <2>1 DEF Same, choice, call
<1>6. ASSUME NEW how \in Hows, FailsOver(r, how) PROVE Same(s)
  <2>1. /\ at'[s] = at[s] /\ place'[s] = place[s] /\ attempt'[s] = attempt[s]
        /\ Note(r, how) /\ UNCHANGED <<choice, ranked>>
    BY <1>6, FailsOverIs
  <2>2. tried'[s] = tried[s]
    BY <2>1, NoteIs
  <2> QED BY <2>1, <2>2 DEF Same, choice
<1>7. ASSUME NEW how \in Hows, NEW end, Ends(r, how, end) PROVE Same(s)
  <2>1. /\ Note(r, how) /\ at' = [at EXCEPT ![r] = end]
        /\ UNCHANGED <<choice, ranked, place, attempt>>
    BY <1>7 DEF Ends
  <2>2. tried'[s] = tried[s] /\ at'[s] = at[s]
    BY <2>1, NoteIs DEF TypeOK
  <2> QED BY <2>1, <2>2 DEF Same, choice
<1>8. CASE Refuses(r)
  BY <1>6, <1>7, <1>8, RefusalIs DEF Hows
<1>9. CASE Deadline(r)
  BY <1>6, <1>7, <1>9, DeadlineIs DEF Hows
<1>10. CASE Finishes(r)
  BY <1>7, <1>10 DEF Finishes, Hows
<1>11. CASE Reads(r)
  <2>1. \/ /\ at' = [at EXCEPT ![r] = "taking"]
           /\ UNCHANGED <<quota, choice, ranked, place, attempt, tried>>
        \/ UNCHANGED vars
        \/ Ends(r, "foreign", "broken")
    BY <1>11, Zenon DEF Reads
  <2>2. CASE UNCHANGED vars
    BY <2>2 DEF vars, choice, call, Same
  <2>3. ASSUME at' = [at EXCEPT ![r] = "taking"],
               UNCHANGED <<quota, choice, ranked, place, attempt, tried>>
        PROVE  Same(s)
    BY <2>3 DEF TypeOK, choice, Same
  <2> QED BY <1>7, <2>1, <2>2, <2>3 DEF Hows
<1> QED BY <1>1, <1>2, <1>3, <1>4, <1>5, <1>8, <1>9, <1>10, <1>11 DEF Step

(* Where a request stands when it goes on with the scoring. *)
LEMMA StageAfter ==
    ASSUME TypeOK, NEW r \in Requests, NEW left, NEW candidates, NEW offline,
           GoOnScoring(r, left, candidates, offline), ranked[r] = <<>>
    PROVE  /\ at'[r] \in {"scoring", "falling_back", "decided"}
           /\ at'[r] \in {"scoring", "falling_back"} => ranked'[r] = <<>>
           /\ at'[r] = "scoring" => unscored'[r] # {}
<1>1. unscored' = [unscored EXCEPT ![r] = left]
  BY DEF GoOnScoring
<1>2. CASE left # {}
  <2>1. at' = [at EXCEPT ![r] = "scoring"] /\ UNCHANGED ranked
    BY <1>2, Zenon DEF GoOnScoring
  <2> QED BY <1>1, <1>2, <2>1 DEF TypeOK
<1>3. CASE left = {} /\ offline # Null
  <2>1. at' = [at EXCEPT ![r] = "falling_back"] /\ UNCHANGED ranked
    BY <1>3, Zenon DEF GoOnScoring
  <2> QED BY <2>1 DEF TypeOK
<1>4. CASE left = {} /\ offline = Null
  <2>1. Decide(r, candidates, offline)
    BY <1>4, Zenon DEF GoOnScoring
  <2> QED BY <2>1 DEF Decide, TypeOK
<1> QED BY <1>2, <1>3, <1>4

(* Selection keeps to those who are neither fallback nor cooling down. *)
LEMMA SelectKept ==
    ASSUME RequestInv, NEW r \in Requests, Step(r), TypeOK'
    PROVE  SelectOK(r)'
<1> USE DEF RequestInv
<1>1. ASSUME NEW a \in Asks, NEW catalogue \in Catalogues, Select(r, a, catalogue)
      PROVE  SelectOK(r)'
  <2> DEFINE capable == Capable(catalogue, a.need)
             offline == IF FirstOffline(capable) = {} THEN Null
                        ELSE CHOOSE m \in FirstOffline(capable) : TRUE
             shun == {p \in Backends : limited[p] # Null /\ clock < limited[p] + Cooldown}
  <2>1. /\ ask' = [ask EXCEPT ![r] = a] /\ fallback' = [fallback EXCEPT ![r] = offline]
        /\ GoOnScoring(r, Primaries(capable), {}, offline)
        /\ shunned' = [shunned EXCEPT ![r] = shun]
    BY <1>1 DEF Select
  <2>2. unscored'[r] = Primaries(capable) /\ scored'[r] = {}
    <3> HIDE DEF capable, offline
    <3>1. /\ unscored' = [unscored EXCEPT ![r] = Primaries(capable)]
          /\ scored' = [scored EXCEPT ![r] = {}]
      BY <2>1, GoOnSame
    <3> QED BY <3>1 DEF TypeOK
  <2>3. \A m \in Primaries(capable) : Eligible(m, shun)
    <3> TAKE m \in Primaries(capable)
    <3>1. m \in Models /\ ~ Offline(m) /\ ~ IsCoolingDown(ServedBy[m])
      BY RouteConstants DEF Primaries, Capable
    <3>2. ServedBy[m] \notin shun
      BY <3>1 DEF QuotaInv, IsCoolingDown
    <3> QED BY <3>1, <3>2 DEF Eligible
  <2>4. offline # Null => Offline(offline)
    BY DEF FirstOffline
  <2> HIDE DEF offline, shun, capable
  <2>5. shunned'[r] = shun /\ fallback'[r] = offline
    BY <2>1 DEF TypeOK
  <2> QED BY <2>2, <2>3, <2>4, <2>5, FS_EmptySet DEF SelectOK
<1>2. CASE HealthAnswers(r)
  <2>1. PICK m \in unscored[r], reply \in Replies :
           GoOnScoring(r, unscored[r] \ {m},
               scored[r] \cup {Scored(r, m, Health(Adapter[ServedBy[m]], reply))},
               fallback[r])
    BY <1>2 DEF HealthAnswers
  <2> DEFINE c == Scored(r, m, Health(Adapter[ServedBy[m]], reply))
  <2>2. c.model = m /\ c.gate \in 0 .. 2
    BY GateIs DEF Scored
  <2>3. Profile[m] = Null => c.score = c.gate * Score(m, ask[r])
    <3> SUFFICES ASSUME Profile[m] = Null PROVE c.score = c.gate * Score(m, ask[r])
      OBVIOUS
    <3> DEFINE f == Factors(Caps[m], ask[r].need)
    <3>1. [f EXCEPT !.quality = f.quality] = f
      BY DEF Factors
    <3>2. Judged(m) = Caps[m]
      BY DEF Judged
    <3> QED BY <3>1, <3>2, Zenon DEF Scored, Score
  <2>4. /\ GoOnScoring(r, unscored[r] \ {m}, scored[r] \cup {c}, fallback[r])
        /\ UNCHANGED <<ask, fallback, shunned>>
    BY <1>2, <2>1 DEF HealthAnswers
  <2> HIDE DEF c
  <2>5. unscored'[r] = unscored[r] \ {m} /\ scored'[r] = scored[r] \cup {c}
    <3>1. /\ unscored' = [unscored EXCEPT ![r] = unscored[r] \ {m}]
          /\ scored' = [scored EXCEPT ![r] = scored[r] \cup {c}]
      BY <2>4, GoOnSame
    <3> QED BY <3>1 DEF TypeOK
  <2>6. ask[r] \in Asks /\ Eligible(m, shunned[r]) /\ m \in Models
    BY <1>2 DEF HealthAnswers, StageOK, SelectOK, Eligible
  <2>7. IsJudged(c, ask[r])
    BY <2>2, <2>3 DEF IsJudged
  <2>8. \A d \in scored[r] : d.model # c.model
    BY <2>2 DEF SelectOK
  <2>9. IsFiniteSet(scored'[r])
    <3>1. IsFiniteSet(scored[r])
      BY DEF SelectOK
    <3> QED BY <2>5, <3>1, FS_AddElement
  <2>10. \A d \in scored'[r] : /\ Eligible(d.model, shunned[r]) /\ d.model \notin unscored'[r]
                               /\ ask[r] \in Asks /\ IsJudged(d, ask[r])
    BY <2>2, <2>5, <2>6, <2>7 DEF SelectOK
  <2>11. \A d, e \in scored'[r] : d.model = e.model => d = e
    BY <2>5, <2>8 DEF SelectOK
  <2> QED BY <2>4, <2>5, <2>9, <2>10, <2>11 DEF SelectOK
<1>3. ASSUME UNCHANGED choice PROVE SelectOK(r)'
  BY <1>3 DEF choice, SelectOK
<1>4. CASE Execute(r)
  <2>1. scored'[r] = {} /\ fallback'[r] = Null /\ UNCHANGED <<unscored, shunned>>
    BY <1>4 DEF Execute, TypeOK
  <2> QED BY <2>1, FS_EmptySet DEF SelectOK
<1>5. CASE FallbackAnswers(r) \/ Opens(r) \/ Takes(r) \/ Leaves(r) \/ Finishes(r)
  BY <1>3, <1>5 DEF FallbackAnswers, Opens, Takes, Leaves, Finishes, Ends
<1>6. CASE Refuses(r)
  BY <1>3, <1>6, RefusalIs DEF FailsOver, Ends
<1>7. CASE Deadline(r)
  BY <1>3, <1>7, DeadlineIs DEF FailsOver, Ends
<1>8. CASE Reads(r)
  <2>1. UNCHANGED choice
    BY <1>8, Zenon DEF Reads, Ends, vars
  <2> QED BY <1>3, <2>1
<1> QED BY <1>1, <1>2, <1>4, <1>5, <1>6, <1>7, <1>8 DEF Step

(* A list that has grown by one. *)
LEMMA OneMore ==
    ASSUME NEW T, NEW q \in Seq(T), NEW t \in T, NEW u, u = Append(q, t)
    PROVE  /\ u # <<>> /\ Len(u) = Len(q) + 1 /\ u[Len(u)] = t
           /\ DOMAIN q = 1 .. Len(q) /\ DOMAIN u = 1 .. Len(q) + 1 /\ Len(q) \in Nat
           /\ \A i \in 1 .. Len(q) : u[i] = q[i]
<1>1. /\ u \in Seq(T) /\ u # <<>> /\ Len(u) = Len(q) + 1 /\ u[Len(q) + 1] = t
      /\ \A i \in 1 .. Len(q) : u[i] = q[i]
  BY AppendProperties
<1> QED BY <1>1, LenProperties

(* A request works through its ranking. *)
Works(r) ==
    LET q == tried[r]
    IN  /\ q # <<>> => q[1].place = 1 /\ q[1].attempt = 0
        /\ \A i \in DOMAIN q : i > 1 => Follows(q[i - 1], q[i])
        /\ at[r] = "unroutable" =>
              IF q = <<>> THEN ranked[r] = <<>>
              ELSE Lost(q[Len(q)]) /\ q[Len(q)].place = Len(ranked[r])
        /\ at[r] = "answered" => q # <<>> /\ q[Len(q)].how = "whole"

(* A call that has ended follows the one before it. *)
LEMMA CallNoted ==
    ASSUME RequestInv, NEW r \in Requests, at[r] \in Asking, Works(r),
           NEW how \in Hows, Note(r, how), ranked'[r] = ranked[r],
           \/ at'[r] \in Over \ {"unroutable", "answered"} \/ at'[r] = "opening"
           \/ at'[r] = "answered" /\ how = "whole"
           \/ at'[r] = "unroutable" /\ Lost(Latest(r)') /\ Latest(r)'.place = Len(ranked[r])
    PROVE  /\ Works(r)'
           /\ tried'[r] # <<>>
           /\ Latest(r)' = [place |-> place[r], attempt |-> attempt[r], how |-> how]
<1> DEFINE T == [place : Nat, attempt : 0 .. MaxRetries, how : Hows]
           t == [place |-> place[r], attempt |-> attempt[r], how |-> how]
           q == tried[r]
           u == tried'[r]
<1>1. t \in T /\ q \in Seq(T)
  BY DEF RequestInv, TypeOK
<1>2. u = Append(q, t)
  BY NoteIs DEF RequestInv
<1>3. /\ u # <<>> /\ Len(u) = Len(q) + 1 /\ u[Len(u)] = t
      /\ DOMAIN q = 1 .. Len(q) /\ DOMAIN u = 1 .. Len(q) + 1 /\ Len(q) \in Nat
      /\ \A i \in 1 .. Len(q) : u[i] = q[i]
  <2> HIDE DEF T, t, q, u
  <2> QED BY <1>1, <1>2, OneMore
<1>4. IF q = <<>> THEN place[r] = 1 /\ attempt[r] = 0 ELSE Follows(q[Len(q)], t)
  BY DEF RequestInv, StageOK, Latest, Now, Follows
<1>5. q = <<>> <=> Len(q) = 0
  <2> HIDE DEF T, q
  <2> QED BY <1>1, EmptySeq
<1>6. u[1].place = 1 /\ u[1].attempt = 0
  <2>1. CASE q = <<>>
    BY <1>3, <1>4, <1>5, <2>1
  <2>2. CASE q # <<>>
    <3>1. u[1] = q[1]
      BY <1>3, <1>5, <2>2
    <3> QED BY <2>2, <3>1 DEF Works
  <2> QED BY <2>1, <2>2
<1>7. ASSUME NEW i \in DOMAIN u, i > 1 PROVE Follows(u[i - 1], u[i])
  <2>1. CASE i \in 1 .. Len(q)
    <3>1. u[i] = q[i] /\ u[i - 1] = q[i - 1] /\ i \in DOMAIN q
      <4>1. i - 1 \in 1 .. Len(q)
        BY <1>3, <1>7, <2>1
      <4> HIDE DEF u, q
      <4> QED BY <1>3, <2>1, <4>1
    <3> HIDE DEF u
    <3> QED BY <1>7, <3>1 DEF Works
  <2>2. CASE i = Len(q) + 1
    <3>1. u[i] = t /\ u[i - 1] = q[Len(q)] /\ q # <<>>
      BY <1>3, <1>5, <1>7, <2>2
    <3> HIDE DEF u, t
    <3> QED BY <1>4, <3>1
  <2> QED BY <1>3, <2>1, <2>2
<1>8. at'[r] = "answered" => u[Len(u)].how = "whole"
  BY <1>3 DEF Over
<1>9. at'[r] = "unroutable" => Lost(u[Len(u)]) /\ u[Len(u)].place = Len(ranked[r])
  BY DEF Over, Latest, Lost
<1>10. Works(r)'
  <2> HIDE DEF u
  <2>1. /\ u # <<>> => u[1].place = 1 /\ u[1].attempt = 0
        /\ \A i \in DOMAIN u : i > 1 => Follows(u[i - 1], u[i])
        /\ at'[r] = "unroutable" => Lost(u[Len(u)]) /\ u[Len(u)].place = Len(ranked'[r])
        /\ at'[r] = "answered" => u[Len(u)].how = "whole"
    BY <1>6, <1>7, <1>8, <1>9
  <2> QED BY <1>3, <2>1 DEF Works, Follows, Lost, u
<1> QED BY <1>3, <1>10 DEF Latest

(* Until its first call a request has noted none; after, each call follows.*)
LEMMA WorkKept ==
    ASSUME RequestInv, NEW r \in Requests, Works(r), Step(r), TypeOK'
    PROVE  StageOK(r)' /\ Works(r)'
<1> USE DEF RequestInv
<1>1. CASE \/ \E a \in Asks, catalogue \in Catalogues : Select(r, a, catalogue)
           \/ HealthAnswers(r) \/ FallbackAnswers(r)
  <2>1. tried[r] = <<>> /\ tried'[r] = tried[r]
    BY <1>1 DEF Select, HealthAnswers, FallbackAnswers, call, StageOK
  <2>2. /\ at'[r] \in {"scoring", "falling_back", "decided"}
        /\ at'[r] \in {"scoring", "falling_back"} => ranked'[r] = <<>>
        /\ at'[r] = "scoring" => unscored'[r] # {} /\ ask'[r] \in Asks
    <3>1. ASSUME NEW a \in Asks, NEW catalogue \in Catalogues, Select(r, a, catalogue)
          PROVE  /\ at'[r] \in {"scoring", "falling_back", "decided"}
                 /\ at'[r] \in {"scoring", "falling_back"} => ranked'[r] = <<>>
                 /\ at'[r] = "scoring" => unscored'[r] # {} /\ ask'[r] \in Asks
      <4>1. PICK left, offline : GoOnScoring(r, left, {}, offline)
        BY <3>1 DEF Select
      <4>2. ranked[r] = <<>> /\ ask'[r] = a
        BY <3>1 DEF Select, StageOK, TypeOK
      <4> QED BY <4>1, <4>2, StageAfter
    <3>2. CASE HealthAnswers(r)
      <4>1. PICK left, candidates : GoOnScoring(r, left, candidates, fallback[r])
        BY <3>2 DEF HealthAnswers
      <4>2. ranked[r] = <<>> /\ ask'[r] \in Asks
        BY <3>2 DEF HealthAnswers, StageOK
      <4> QED BY <4>1, <4>2, StageAfter
    <3>3. CASE FallbackAnswers(r)
      BY <3>3 DEF FallbackAnswers, Decide, TypeOK
    <3> QED BY <1>1, <3>1, <3>2, <3>3
  <2> QED BY <2>1, <2>2 DEF StageOK, Works, Asking
<1>2. CASE Execute(r)
  <2>1. tried[r] = <<>> /\ tried'[r] = tried[r] /\ ranked'[r] = ranked[r]
        /\ StartCall(r, 1, 0) /\ Len(ranked[r]) \in Nat
    BY <1>2, LenProperties DEF Execute, StageOK, TypeOK
  <2>2. \/ at'[r] = "unroutable" /\ 1 > Len(ranked[r])
        \/ /\ at'[r] = "opening" /\ 1 <= Len(ranked[r]) /\ place'[r] = 1 /\ attempt'[r] = 0
    BY <2>1, StartCallIs, RouteConstants
  <2>3. 1 > Len(ranked[r]) => ranked[r] = <<>>
    BY <2>1, EmptySeq DEF TypeOK
  <2> QED BY <2>1, <2>2, <2>3 DEF StageOK, Works, Asking
<1>3. CASE Opens(r) \/ Takes(r) \/ Leaves(r)
  <2>1. UNCHANGED <<choice, ranked, call>>
    BY <1>3 DEF Opens, Takes, Leaves
  <2>2. at'[r] = "left" \/ (at[r] \in Asking /\ at'[r] = "reading")
    BY <1>3 DEF Opens, Takes, Leaves, Asking, TypeOK
  <2> QED BY <2>1, <2>2 DEF StageOK, Works, choice, call, Asking, Now, Latest
<1>4. ASSUME NEW how \in {"failed", "limited", "spoke"}, at[r] \in Asking, FailsOver(r, how)
      PROVE  StageOK(r)' /\ Works(r)'
  <2> DEFINE t == [place |-> place[r], attempt |-> attempt[r], how |-> how]
  <2>1. /\ Note(r, how) /\ ranked'[r] = ranked[r] /\ how \in Hows
        /\ \/ /\ at'[r] = "unroutable" /\ place[r] + 1 > Len(ranked[r])
              /\ ~ Retriable(r, how)
           \/ /\ at'[r] = "unroutable" /\ place[r] > Len(ranked[r])
           \/ /\ at'[r] = "opening" /\ place'[r] <= Len(ranked[r])
              /\ \/ /\ Retriable(r, how)
                    /\ place'[r] = place[r] /\ attempt'[r] = attempt[r] + 1
                 \/ /\ ~ Retriable(r, how)
                    /\ place'[r] = place[r] + 1 /\ attempt'[r] = 0
    BY <1>4, FailsOverIs DEF Hows
  <2>2. /\ place[r] \in 1 .. Len(ranked[r]) /\ Len(ranked[r]) \in Nat
        /\ attempt[r] \in 0 .. MaxRetries /\ MaxRetries \in Nat
    BY <1>4, RouteConstants, LenProperties DEF StageOK, TypeOK
  <2>3. ~ Retriable(r, how) => Lost(t)
    BY <1>4, <2>2 DEF Retriable, Lost
  <2>4. Retriable(r, how) => t.how = "failed"
    BY DEF Retriable
  <2>5. Latest(r)' = t /\ tried'[r] # <<>>
    <3>1. tried'[r] = Append(tried[r], t)
      BY <2>1, NoteIs
    <3>2. /\ t \in [place : Nat, attempt : 0 .. MaxRetries, how : Hows]
          /\ tried[r] \in Seq([place : Nat, attempt : 0 .. MaxRetries, how : Hows])
      BY <2>1 DEF TypeOK
    <3> DEFINE q == tried[r]
               u == tried'[r]
               T == [place : Nat, attempt : 0 .. MaxRetries, how : Hows]
    <3> HIDE DEF t, q, u
    <3>3. u = Append(q, t)
      BY <3>1 DEF q, u
    <3>4. t \in T /\ q \in Seq(T)
      BY <3>2 DEF q
    <3> HIDE DEF T
    <3>5. u # <<>> /\ u[Len(u)] = t
      BY <3>3, <3>4, OneMore
    <3> QED BY <3>5 DEF Latest, u
  <2>6. at'[r] = "unroutable" => Lost(t) /\ place[r] = Len(ranked[r])
    BY <2>1, <2>2, <2>3
  <2>7. Works(r)'
    <3>1. at'[r] \in {"unroutable", "opening"}
      BY <2>1
    <3>2. at'[r] = "unroutable" => Lost(Latest(r)') /\ Latest(r)'.place = Len(ranked[r])
      BY <2>5, <2>6
    <3> QED BY <1>4, <2>1, <3>1, <3>2, CallNoted
  <2>8. at'[r] = "opening" =>
           /\ place'[r] \in 1 .. Len(ranked[r])
           /\ \/ place'[r] = place[r] /\ attempt'[r] = attempt[r] + 1 /\ t.how = "failed"
              \/ place'[r] = place[r] + 1 /\ attempt'[r] = 0 /\ Lost(t)
    BY <2>1, <2>2, <2>3, <2>4
  <2>9. at'[r] = "opening" => Follows(t, Now(r)')
    BY <2>8 DEF Follows, Now
  <2> HIDE DEF t
  <2>10. StageOK(r)'
    <3>1. at'[r] \in {"unroutable", "opening"}
      BY <2>1
    <3>2. at'[r] = "opening" => Follows(Latest(r)', Now(r)')
      BY <2>5, <2>9
    <3> QED BY <2>1, <2>5, <2>8, <3>1, <3>2 DEF StageOK, Asking, Follows, Lost
  <2> QED BY <2>7, <2>10
<1>5. ASSUME NEW how \in Hows, at[r] \in Asking, NEW end \in Over \ {"unroutable"},
             end = "answered" => how = "whole", Ends(r, how, end)
      PROVE  StageOK(r)' /\ Works(r)'
  <2>1. Note(r, how) /\ at'[r] = end /\ UNCHANGED <<choice, ranked>>
    BY <1>5 DEF Ends, TypeOK
  <2>2. Works(r)'
    BY <1>5, <2>1, CallNoted
  <2>3. StageOK(r)'
    BY <1>5, <2>1 DEF StageOK, Over, Asking
  <2> QED BY <2>2, <2>3
<1>6. CASE Refuses(r)
  <2>1. "broken" \in Over \ {"unroutable"} /\ "foreign" \in Hows /\ "opening" \in Asking
    BY DEF Over, Hows, Asking
  <2> QED BY <1>4, <1>5, <1>6, <2>1, RefusalIs
<1>7. CASE Deadline(r)
  <2>1. /\ "cut_off" \in Over \ {"unroutable"} /\ "spoke" \in Hows
        /\ {"opening", "reading", "taking"} \subseteq Asking
    BY DEF Over, Hows, Asking
  <2> QED BY <1>4, <1>5, <1>7, <2>1, DeadlineIs
<1>8. CASE Finishes(r)
  <2>1. "answered" \in Over \ {"unroutable"} /\ "whole" \in Hows /\ "reading" \in Asking
    BY DEF Over, Hows, Asking
  <2> QED BY <1>5, <1>8, <2>1 DEF Finishes
<1>9. CASE Reads(r)
  <2>1. \/ /\ at' = [at EXCEPT ![r] = "taking"]
           /\ UNCHANGED <<quota, choice, ranked, place, attempt, tried>>
        \/ UNCHANGED vars
        \/ Ends(r, "foreign", "broken")
    BY <1>9, Zenon DEF Reads
  <2>2. "broken" \in Over \ {"unroutable"} /\ "foreign" \in Hows /\ at[r] \in Asking
    BY <1>9 DEF Over, Hows, Asking, Reads
  <2>3. CASE UNCHANGED vars
    BY <2>3 DEF vars, choice, call, StageOK, Works, Now, Latest
  <2>4. ASSUME at' = [at EXCEPT ![r] = "taking"],
               UNCHANGED <<quota, choice, ranked, place, attempt, tried>>
        PROVE  StageOK(r)' /\ Works(r)'
    <3>1. at'[r] = "taking"
      BY <2>4 DEF TypeOK
    <3> QED BY <2>2, <2>4, <3>1 DEF choice, StageOK, Works, Now, Latest, Asking
  <2> QED BY <1>5, <2>1, <2>2, <2>3, <2>4
<1> QED BY <1>1, <1>2, <1>3, <1>6, <1>7, <1>8, <1>9 DEF Step

(* Where a ranking comes from. *)
LEMMA RankedFrom ==
    ASSUME RequestInv, NEW r \in Requests, Step(r), TypeOK', SelectOK(r)'
    PROVE  \/ /\ ranked'[r] = ranked[r] /\ shunned'[r] = shunned[r]
              /\ scored'[r] = scored[r] \/ scored'[r] = {}
           \/ ranked'[r] = <<>>
           \/ InOrder(ranked'[r], scored'[r])
           \/ \E m \in Models : Offline(m) /\ ranked'[r] = <<m>>
<1> USE DEF RequestInv
<1>1. ASSUME NEW left \in SUBSET Models, NEW candidates, NEW offline,
             offline \in Models \cup {Null}, offline # Null => Offline(offline),
             IsFiniteSet(candidates), \A c \in candidates : c.model \in Models,
             GoOnScoring(r, left, candidates, offline), ranked[r] = <<>>
      PROVE  \/ ranked'[r] = <<>>
             \/ InOrder(ranked'[r], scored'[r])
             \/ \E m \in Models : Offline(m) /\ ranked'[r] = <<m>>
  <2>1. scored'[r] = candidates
    <3>1. scored' = [scored EXCEPT ![r] = candidates]
      BY <1>1 DEF GoOnScoring
    <3> QED BY <3>1 DEF TypeOK
  <2>2. \/ ranked'[r] = ranked[r]
        \/ InOrder(ranked'[r], candidates)
        \/ ranked'[r] = <<>>
        \/ offline # Null /\ ranked'[r] = <<offline>>
    <3>1. TypeOK /\ GoOnScoring(r, left, candidates, offline)
      BY <1>1
    <3>2. IsFiniteSet(candidates) /\ \A c \in candidates : c.model \in Models
      BY <1>1
    <3>3. /\ left # {} => UNCHANGED ranked
          /\ left = {} /\ offline # Null => UNCHANGED ranked
          /\ left = {} /\ offline = Null => Decide(r, candidates, offline)
      BY <3>1, Zenon DEF GoOnScoring
    <3>4. CASE Decide(r, candidates, offline)
      BY <1>1, <3>1, <3>2, <3>4, DecisionIs
    <3>5. CASE UNCHANGED ranked
      BY <3>5
    <3> QED BY <3>3, <3>4, <3>5
  <2>3. CASE ranked'[r] = ranked[r]
    BY <1>1, <2>3
  <2>4. CASE InOrder(ranked'[r], candidates)
    BY <2>1, <2>4
  <2>5. CASE offline # Null /\ ranked'[r] = <<offline>>
    BY <1>1, <2>5
  <2> QED BY <2>2, <2>3, <2>4, <2>5
<1>2. ASSUME NEW a \in Asks, NEW catalogue \in Catalogues, Select(r, a, catalogue)
      PROVE  \/ ranked'[r] = <<>>
             \/ InOrder(ranked'[r], scored'[r])
             \/ \E m \in Models : Offline(m) /\ ranked'[r] = <<m>>
  <2> DEFINE capable == Capable(catalogue, a.need)
             offline == IF FirstOffline(capable) = {} THEN Null
                        ELSE CHOOSE m \in FirstOffline(capable) : TRUE
  <2>1. GoOnScoring(r, Primaries(capable), {}, offline) /\ ranked[r] = <<>>
    BY <1>2 DEF Select, StageOK
  <2>2. /\ offline \in Models \cup {Null}
        /\ offline # Null => Offline(offline)
        /\ Primaries(capable) \in SUBSET Models
    BY RouteConstants DEF Capable, FirstOffline, Primaries
  <2>3. IsFiniteSet({}) /\ \A c \in {} : c.model \in Models
    BY FS_EmptySet
  <2> HIDE DEF capable, offline
  <2> QED BY <1>1, <2>1, <2>2, <2>3
<1>3. CASE HealthAnswers(r)
  <2>1. PICK m \in unscored[r], reply \in Replies :
           GoOnScoring(r, unscored[r] \ {m},
               scored[r] \cup {Scored(r, m, Health(Adapter[ServedBy[m]], reply))},
               fallback[r])
    BY <1>3 DEF HealthAnswers
  <2> DEFINE c == Scored(r, m, Health(Adapter[ServedBy[m]], reply))
  <2>2. /\ c.model = m /\ m \in Models
        /\ GoOnScoring(r, unscored[r] \ {m}, scored[r] \cup {c}, fallback[r])
    BY <2>1 DEF Scored, TypeOK
  <2> HIDE DEF c
  <2>3. /\ unscored[r] \ {m} \in SUBSET Models /\ fallback[r] \in Models \cup {Null}
        /\ \A d \in scored[r] \cup {c} : d.model \in Models
    BY <2>2 DEF TypeOK
  <2>4. IsFiniteSet(scored[r] \cup {c}) /\ fallback[r] # Null => Offline(fallback[r])
    BY FS_AddElement DEF SelectOK
  <2>5. ranked[r] = <<>> /\ IsFiniteSet(scored[r] \cup {c})
    <3>1. IsFiniteSet(scored[r]) /\ ranked[r] = <<>>
      BY <1>3 DEF HealthAnswers, StageOK, SelectOK
    <3> QED BY <3>1, FS_AddElement
  <2> QED BY <1>1, <2>2, <2>3, <2>4, <2>5
<1>4. CASE FallbackAnswers(r)
  <2>1. /\ Decide(r, scored[r], fallback[r]) /\ scored'[r] = scored[r]
        /\ fallback[r] \in Models \cup {Null}
        /\ fallback[r] # Null => Offline(fallback[r])
        /\ IsFiniteSet(scored[r]) /\ \A c \in scored[r] : c.model \in Models
    BY <1>4 DEF FallbackAnswers, choice, TypeOK, SelectOK
  <2>2. \/ InOrder(ranked'[r], scored[r])
        \/ ranked'[r] = <<>>
        \/ fallback[r] # Null /\ ranked'[r] = <<fallback[r]>>
    <3>1. TypeOK
      OBVIOUS
    <3> QED BY <2>1, <3>1, DecisionIs
  <2>3. CASE InOrder(ranked'[r], scored[r])
    BY <2>1, <2>3
  <2>4. CASE fallback[r] # Null /\ ranked'[r] = <<fallback[r]>>
    BY <2>1, <2>4
  <2> QED BY <2>2, <2>3, <2>4
<1>5. CASE Execute(r)
  BY <1>5 DEF Execute, TypeOK
<1>6. CASE Opens(r) \/ Takes(r) \/ Leaves(r) \/ Finishes(r)
  BY <1>6 DEF Opens, Takes, Leaves, Finishes, Ends, choice
<1>7. CASE Refuses(r)
  BY <1>7, RefusalIs DEF FailsOver, Ends, choice
<1>8. CASE Deadline(r)
  BY <1>8, DeadlineIs DEF FailsOver, Ends, choice
<1>9. CASE Reads(r)
  <2>1. UNCHANGED choice /\ UNCHANGED ranked
    BY <1>9, Zenon DEF Reads, Ends, vars
  <2> QED BY <2>1 DEF choice
<1> QED BY <1>2, <1>3, <1>4, <1>5, <1>6, <1>7, <1>8, <1>9 DEF Step

Honours(r) ==
    \A i \in DOMAIN ranked[r] :
        ServedBy[ranked[r][i]] \in shunned[r] => Offline(ranked[r][i])

InMerit(r) ==
    \A i, j \in DOMAIN ranked[r] :
        i < j /\ Better(ranked[r][j], ranked[r][i]) =>
            \A a, b \in scored[r] :
                a.model = ranked[r][i] /\ b.model = ranked[r][j] /\ a.gate > 0 =>
                    b.gate < a.gate

(* A better model's candidate comes before a worse one's unless its gate   *)
(* is the narrower.                                                        *)
LEMMA BetterBefore ==
    ASSUME NEW c, NEW d, NEW a \in Asks, c.model \in Models, d.model \in Models,
           IsJudged(c, a), IsJudged(d, a), Better(d.model, c.model), Before(c, d),
           c.gate > 0
    PROVE  d.gate < c.gate
<1> DEFINE low == Score(c.model, a)
           high == Score(d.model, a)
<1>1. /\ NoWorse(Caps[d.model], Caps[c.model])
      /\ Caps[d.model].reasoning > Caps[c.model].reasoning
  BY RouteConstants DEF Better, NoWorse
<1>2. IsNeed(a.need) /\ a.mode \in CostModes
  BY RouteConstants
<1>3. low \in Nat /\ high \in Nat /\ low < high
  BY <1>1, <1>2, BetterScores DEF Score
<1>4. /\ c.gate \in 0 .. 2 /\ d.gate \in 0 .. 2
      /\ c.score = c.gate * low /\ d.score = d.gate * high
  BY DEF IsJudged, Better
<1> HIDE DEF low, high
<1>5. ASSUME d.gate >= c.gate PROVE FALSE
  <2>1. c.gate \in {1, 2} /\ d.gate \in {1, 2} /\ (c.gate = 2 => d.gate = 2)
    BY <1>4, <1>5
  <2>2. c.score \in Nat /\ d.score \in Nat /\ c.score < d.score
    <3>1. CASE c.gate = 1 /\ d.gate = 1
      BY <1>3, <1>4, <3>1
    <3>2. CASE c.gate = 1 /\ d.gate = 2
      BY <1>3, <1>4, <3>2
    <3>3. CASE c.gate = 2 /\ d.gate = 2
      BY <1>3, <1>4, <3>3
    <3> QED BY <2>1, <3>1, <3>2, <3>3
  <2> QED BY <2>2 DEF Before
<1> QED BY <1>4, <1>5

(* A step of a request keeps its own ranking in order and honours the      *)
(* cooldowns.                                                              *)
LEMMA OrderKept ==
    ASSUME RequestInv, NEW r \in Requests, Step(r), TypeOK', SelectOK(r)',
           Honours(r), InMerit(r)
    PROVE  Honours(r)' /\ InMerit(r)'
<1>1. ASSUME ranked'[r] = ranked[r], shunned'[r] = shunned[r],
             scored'[r] = scored[r] \/ scored'[r] = {}
      PROVE  Honours(r)' /\ InMerit(r)'
  BY <1>1 DEF Honours, InMerit, Offline, Better
<1>2. ASSUME ranked'[r] = <<>> PROVE Honours(r)' /\ InMerit(r)'
  BY <1>2 DEF Honours, InMerit
<1>3. ASSUME NEW m \in Models, Offline(m), ranked'[r] = <<m>>
      PROVE  Honours(r)' /\ InMerit(r)'
  <2>1. DOMAIN ranked'[r] = {1} /\ ranked'[r][1] = m
    BY <1>3
  <2> QED BY <1>3, <2>1 DEF Honours, InMerit, Offline
<1>4. ASSUME NEW q \in Ranking(Healthy(scored'[r])),
             ranked'[r] = [i \in DOMAIN q |-> q[i].model]
      PROVE  Honours(r)' /\ InMerit(r)'
  <2>1. /\ IsFiniteSet(scored'[r])
        /\ \A c \in scored'[r] : /\ c.model \in Models /\ ServedBy[c.model] \notin shunned'[r]
                                 /\ ask'[r] \in Asks /\ IsJudged(c, ask'[r])
        /\ \A c, d \in scored'[r] : c.model = d.model => c = d
    BY DEF SelectOK, Eligible, IsJudged, Score
  <2>2. IsFiniteSet(Healthy(scored'[r])) /\ Healthy(scored'[r]) \subseteq scored'[r]
    BY <2>1, FS_Subset DEF Healthy
  <2>3. /\ \A i \in DOMAIN q : q[i] \in scored'[r]
        /\ \A i, j \in DOMAIN q : i < j => Before(q[i], q[j])
    BY <2>1, <2>2, RankingIs
  <2>4. Honours(r)'
    BY <1>4, <2>1, <2>3 DEF Honours
  <2>5. ASSUME NEW i \in DOMAIN q, NEW j \in DOMAIN q, i < j,
               Better(q[j].model, q[i].model), q[i].gate > 0
        PROVE  q[j].gate < q[i].gate
    <3>1. q[i] \in scored'[r] /\ q[j] \in scored'[r] /\ Before(q[i], q[j])
      BY <2>3, <2>5
    <3> QED BY <2>1, <2>5, <3>1, BetterBefore
  <2>6. InMerit(r)'
    <3>1. SUFFICES ASSUME NEW i \in DOMAIN q, NEW j \in DOMAIN q, i < j,
                          Better(q[j].model, q[i].model),
                          NEW a \in scored'[r], NEW b \in scored'[r],
                          a.model = q[i].model, b.model = q[j].model, a.gate > 0
                   PROVE  b.gate < a.gate
      BY <1>4 DEF InMerit, Better
    <3>2. a = q[i] /\ b = q[j]
      BY <2>1, <2>3, <3>1
    <3> QED BY <2>5, <3>1, <3>2
  <2> QED BY <2>4, <2>6
<1> QED BY <1>1, <1>2, <1>3, <1>4, RankedFrom DEF InOrder

----------------------------------------------------------------------------
RouteKept ==
    RequestInv /\ \A r \in Requests : Works(r) /\ Honours(r) /\ InMerit(r)

(* The invariant of routing holds before any request.                      *)
LEMMA RouteInit == Init => RouteKept
<1> SUFFICES ASSUME Init PROVE RouteKept
  OBVIOUS
<1> USE DEF Init
<1>1. TypeOK
  <2>1. /\ clock \in 0 .. MaxTime /\ attempt \in [Requests -> 0 .. MaxRetries]
        /\ place \in [Requests -> Nat] /\ cooldown \in [Backends -> Nat]
    BY RouteConstants
  <2>2. /\ ranked \in [Requests -> Seq(Models)]
        /\ tried \in [Requests -> Seq([place : Nat, attempt : 0 .. MaxRetries, how : Hows])]
    OBVIOUS
  <2> QED BY <2>1, <2>2 DEF TypeOK, Stages
<1>2. QuotaInv
  BY DEF QuotaInv
<1>3. ASSUME NEW r \in Requests
      PROVE  SelectOK(r) /\ StageOK(r) /\ Works(r) /\ Honours(r) /\ InMerit(r)
  BY FS_EmptySet DEF SelectOK, StageOK, Works, Honours, InMerit, Asking
<1> QED BY <1>1, <1>2, <1>3 DEF RouteKept, RequestInv

(* Same state, same facts. *)
LEMMA SameKept ==
    ASSUME NEW r \in Requests, Same(r), SelectOK(r), StageOK(r), Works(r), Honours(r), InMerit(r)
    PROVE  /\ SelectOK(r)' /\ StageOK(r)' /\ Works(r)' /\ Honours(r)' /\ InMerit(r)'
<1>1. SelectOK(r)'
  BY DEF Same, SelectOK, Eligible, IsJudged, Score, Offline
<1>2. StageOK(r)'
  BY DEF Same, StageOK, Follows, Lost, Latest, Now
<1>3. Works(r)'
  BY DEF Same, Works, Follows, Lost
<1>4. Honours(r)' /\ InMerit(r)'
  BY DEF Same, Honours, InMerit, Offline, Better
<1> QED BY <1>1, <1>2, <1>3, <1>4

(* A cooldown is entered with the limit that is the reason for it. *)
LEMMA QuotaKept ==
    ASSUME RequestInv, NEW r \in Requests, Step(r)
    PROVE  QuotaInv'
<1> USE DEF RequestInv
<1>1. ASSUME UNCHANGED quota PROVE QuotaInv'
  BY <1>1 DEF quota, QuotaInv
<1>2. ASSUME NEW p, EnterCooldown(p) PROVE QuotaInv'
  BY <1>2 DEF EnterCooldown, QuotaInv, TypeOK
<1>3. CASE Refuses(r)
  BY <1>1, <1>2, <1>3, RefusalIs DEF Ends
<1>4. CASE Deadline(r)
  BY <1>1, <1>4, DeadlineIs DEF Ends
<1>5. CASE Reads(r)
  <2>1. UNCHANGED quota
    BY <1>5, Zenon DEF Reads, Ends, vars
  <2> QED BY <1>1, <2>1
<1>6. CASE \/ \E a \in Asks, catalogue \in Catalogues : Select(r, a, catalogue)
           \/ HealthAnswers(r) \/ FallbackAnswers(r) \/ Execute(r) \/ Opens(r) \/ Takes(r)
           \/ Leaves(r) \/ Finishes(r)
  BY <1>1, <1>6 DEF Select, HealthAnswers, FallbackAnswers, Execute, Opens, Takes, Leaves,
     Finishes, Ends
<1> QED BY <1>3, <1>4, <1>5, <1>6 DEF Step

(* Every step of routing keeps its invariant.                              *)
LEMMA RouteStep ==
    ASSUME RouteKept, [Next]_vars
    PROVE  RouteKept'
<1> USE DEF RouteKept
<1>1. ASSUME NEW r \in Requests, Step(r) PROVE RouteKept'
  <2>1. TypeOK'
    <3>1. CASE \/ \E a \in Asks, catalogue \in Catalogues : Select(r, a, catalogue)
               \/ HealthAnswers(r) \/ FallbackAnswers(r)
      BY <3>1, SelectTypes
    <3>2. CASE \/ Execute(r) \/ Opens(r) \/ Refuses(r) \/ Reads(r) \/ Finishes(r)
               \/ Takes(r) \/ Deadline(r) \/ Leaves(r)
      BY <3>2, CallTypes
    <3> QED BY <1>1, <3>1, <3>2 DEF Step
  <2>2. QuotaInv'
    BY <1>1, QuotaKept
  <2>3. SelectOK(r)' /\ StageOK(r)' /\ Works(r)'
    BY <1>1, <2>1, SelectKept, WorkKept
  <2>4. Honours(r)' /\ InMerit(r)'
    BY <1>1, <2>1, <2>3, OrderKept
  <2>5. ASSUME NEW s \in Requests, s # r
        PROVE  SelectOK(s)' /\ StageOK(s)' /\ Works(s)' /\ Honours(s)' /\ InMerit(s)'
    <3>1. Same(s)
      BY <1>1, <2>5, OthersSame
    <3> QED BY <3>1, SameKept DEF RequestInv
  <2> QED BY <2>1, <2>2, <2>3, <2>4, <2>5 DEF RequestInv
<1>2. CASE TimePasses \/ UNCHANGED vars
  <2>1. /\ UNCHANGED <<cooldown, limited, at, choice, ranked, call>>
        /\ (clock' = clock + 1 /\ clock < MaxTime) \/ UNCHANGED clock
    BY <1>2 DEF TimePasses, vars, quota
  <2>2. clock' \in 0 .. MaxTime
    BY <2>1, RouteConstants DEF RequestInv, TypeOK
  <2>3. TypeOK' /\ QuotaInv'
    BY <2>1, <2>2 DEF RequestInv, TypeOK, QuotaInv, choice, call
  <2>4. ASSUME NEW s \in Requests
        PROVE  SelectOK(s)' /\ StageOK(s)' /\ Works(s)' /\ Honours(s)' /\ InMerit(s)'
    <3>1. Same(s)
      BY <2>1 DEF Same, choice, call
    <3> QED BY <3>1, SameKept DEF RequestInv
  <2> QED BY <2>3, <2>4 DEF RequestInv
<1> QED BY <1>1, <1>2 DEF Next

(* The inductive invariant of the requests. *)
THEOREM RequestsKept == Spec => []RouteKept
BY RouteInit, RouteStep, PTL DEF Spec

(* Each request works through its ranking: candidate after candidate, each *)
(* again only after a failure that gave nothing, until one answers or the  *)
(* last has had its attempts.                                              *)
THEOREM RequestsWorkThrough == Spec => []WorksThrough
<1>1. RouteKept => WorksThrough
  BY DEF RouteKept, Works, WorksThrough
<1> QED BY <1>1, RequestsKept, PTL

(* Nobody who limited a call is ranked by a request that begins within the *)
(* cooldown, and of two models the better is ranked first, for any         *)
(* catalogue, capabilities, needs and mode.                                *)
THEOREM RankingsInOrder == Spec => []OrderHeld
<1>1. RouteKept => OrderHeld
  BY DEF RouteKept, RequestInv, Honours, InMerit, OrderHeld, HonoursCooldown, BestFirst
<1> QED BY <1>1, RequestsKept, PTL

----------------------------------------------------------------------------
(* A Core coming up.                                                       *)

(* A list of some ids, each once. *)
NoneTwice(q) == \A j, k \in DOMAIN q : q[j] = q[k] => j = k
Holding(q, named) ==
    /\ q \in Seq(Clouds \cup {"ollama"})
    /\ NoneTwice(q)
    /\ {q[k] : k \in DOMAIN q} = named

(* One more id at the end of a list that has not got it. *)
LEMMA OneIdMore ==
    ASSUME NEW q, NEW named, Holding(q, named), NEW id \in Clouds \cup {"ollama"}, id \notin named
    PROVE  Holding(q \o <<id>>, named \cup {id})
<1> DEFINE r == Append(q, id)
<1>1. q \o <<id>> = r
  BY DEF Holding
<1>2. /\ Len(q) \in Nat /\ DOMAIN q = 1 .. Len(q)
      /\ r \in Seq(Clouds \cup {"ollama"}) /\ DOMAIN r = 1 .. (Len(q) + 1)
      /\ \A k \in 1 .. Len(q) : r[k] = q[k]
      /\ r[Len(q) + 1] = id
  BY DEF Holding
<1> HIDE DEF r
<1>3. \A k \in DOMAIN q : q[k] \in named
  BY DEF Holding
<1>4. NoneTwice(r)
  BY <1>2, <1>3 DEF Holding, NoneTwice
<1>5. {r[k] : k \in DOMAIN r} = named \cup {id}
  <2>1. ASSUME NEW k \in DOMAIN r PROVE r[k] \in named \cup {id}
    <3>1. k \in DOMAIN q \/ k = Len(q) + 1
      BY <1>2
    <3> QED BY <1>2, <1>3, <3>1
  <2>2. ASSUME NEW x \in named PROVE \E k \in DOMAIN r : r[k] = x
    <3>1. PICK k \in DOMAIN q : q[k] = x
      BY DEF Holding
    <3>2. k \in DOMAIN r /\ r[k] = x
      BY <1>2, <3>1
    <3> QED BY <3>2
  <2>3. \E k \in DOMAIN r : r[k] = id
    <3>1. Len(q) + 1 \in DOMAIN r
      BY <1>2
    <3> QED BY <1>2, <3>1
  <2> QED BY <2>1, <2>2, <2>3
<1> QED BY <1>1, <1>2, <1>4, <1>5 DEF Holding

(* A provider is added to the list if it is configured. *)
LEMMA PerhapsOneMore ==
    ASSUME NEW q, NEW named, Holding(q, named), NEW s, NEW id \in Clouds, id \notin named
    PROVE  Holding(q \o Adapted(s, id), named \cup (s.clouds \cap {id}))
<1>1. CASE id \in s.clouds
  BY <1>1, OneIdMore DEF Adapted
<1>2. CASE id \notin s.clouds
  <2>1. q \o <<>> = q
    BY DEF Holding
  <2> QED BY <1>2, <2>1 DEF Adapted
<1> QED BY <1>1, <1>2

(* The providers built are those configured, and Ollama, each once. *)
LEMMA BuiltOnce ==
    ASSUME NEW s, s.clouds \subseteq Clouds
    PROVE  Holding(BuildProviders(s), s.clouds \cup {"ollama"})
<1> DEFINE a == <<>> \o Adapted(s, "gemini")
           b == a \o Adapted(s, "groq")
           c == b \o Adapted(s, "openrouter")
           d == c \o Adapted(s, "nvidia_nim")
           e == d \o <<"ollama">>
           A == {} \cup (s.clouds \cap {"gemini"})
           B == A \cup (s.clouds \cap {"groq"})
           C == B \cup (s.clouds \cap {"openrouter"})
           D == C \cup (s.clouds \cap {"nvidia_nim"})
<1>1. BuildProviders(s) = e
  BY DEF BuildProviders, Adapted
<1>2. D = s.clouds /\ D \subseteq Clouds
  BY DEF Clouds
<1>3. /\ "gemini" \notin {} /\ "groq" \notin A /\ "openrouter" \notin B
      /\ "nvidia_nim" \notin C /\ "ollama" \notin D
  BY <1>2 DEF Clouds
<1>4. {"gemini", "groq", "openrouter", "nvidia_nim"} = Clouds
  BY DEF Clouds
<1>5. Holding(<<>>, {})
  BY DEF Holding, NoneTwice
<1>6. Holding(a, A)
  BY <1>3, <1>4, <1>5, PerhapsOneMore
<1> HIDE DEF a, A
<1>7. Holding(b, B)
  BY <1>3, <1>4, <1>6, PerhapsOneMore
<1> HIDE DEF b, B
<1>8. Holding(c, C)
  BY <1>3, <1>4, <1>7, PerhapsOneMore
<1> HIDE DEF c, C
<1>9. Holding(d, D)
  BY <1>3, <1>4, <1>8, PerhapsOneMore
<1> HIDE DEF d, D
<1> QED BY <1>1, <1>2, <1>3, <1>9, OneIdMore

(* What is loaded is what the layers decide, key by key. *)
LEMMA LoadedByLayers ==
    ASSUME environ \in Environs, disk \in Disks,
           settings = Load(environ, disk), warned = Warnings(environ, disk)
    PROVE  ByLayers
<1> DEFINE kept == FileIn(disk, Dir(environ, "config"))
           f == InForce
<1>1. IsEnviron(environ) /\ IsDisk(disk) /\ Texts \cap {"unset", "blank", "number"} = {}
      /\ DOMAIN LevelNamed \subseteq Texts /\ DOMAIN ModeNamed \subseteq Texts
  BY BootAssumption
<1>2. f.locale \in FileWords /\ f.log_level \in FileWords
  BY <1>1 DEF InForce, ReadSettingsFile, FileIn, NoFile, IsDisk, IsFile, FileWords, EnvWords, Silent
<1>3. /\ environ.locale \in EnvWords /\ environ.log_level \in EnvWords
      /\ environ.cost_mode \in EnvWords
  BY <1>1 DEF IsEnviron
<1>4. /\ settings.locale = ResolveLocale(environ, f)
      /\ settings.log_level = ResolveLogLevel(environ, f)
      /\ settings.cost_mode = ResolveCostMode(environ)
  BY DEF Load, InForce
<1>5. /\ "file" \in warned <=> FileWarns(kept)
      /\ "locale" \in warned <=> LocaleWarns(environ, f)
      /\ "log_level" \in warned <=> LevelWarns(environ, f)
      /\ "cost_mode" \in warned <=> CostModeWarns(environ)
  BY DEF Warnings, InForce
<1> HIDE DEF f, kept
<1>6. /\ ResolveLocale(environ, f) = Layered(Decides(environ.locale, f.locale), AsTheySay, "tr")
      /\ LocaleWarns(environ, f) <=> Complains(Decides(environ.locale, f.locale), AsTheySay)
  BY <1>1, <1>2, <1>3 DEF ResolveLocale, LocaleWarns, Layered, Decides, Complains, AsTheySay,
     IsSaid, Silent, EnvWords, FileWords
<1>7. /\ ResolveLogLevel(environ, f) =
            Layered(Decides(environ.log_level, f.log_level), LevelNamed, "INFO")
      /\ LevelWarns(environ, f) <=> Complains(Decides(environ.log_level, f.log_level), LevelNamed)
  BY <1>1, <1>2, <1>3 DEF ResolveLogLevel, LevelWarns, ParseLevel, Layered, Decides, Complains,
     IsSaid, Silent, EnvWords, FileWords
<1>8. /\ ResolveCostMode(environ) = Layered(Decides(environ.cost_mode, "unset"), ModeNamed, "balanced")
      /\ CostModeWarns(environ) <=> Complains(Decides(environ.cost_mode, "unset"), ModeNamed)
  BY <1>1, <1>3 DEF ResolveCostMode, CostModeWarns, Layered, Decides, Complains, IsSaid, Silent,
     EnvWords
<1> QED BY <1>4, <1>5, <1>6, <1>7, <1>8 DEF ByLayers, FileWarns, f, kept

(* No environment leads to a mode that is none. *)
LEMMA ModeIsOne == \A e, d : Load(e, d).cost_mode \in Modes
BY BootAssumption DEF Load, ResolveCostMode, Modes

(* The inductive invariant: what is set is what was loaded, what is        *)
(* registered is what was configured, and health has asked no more.        *)
BootInv ==
    /\ environ \in Environs /\ disk \in Disks
    /\ entry \in {"process", "embedded"} /\ stdout \in {"pipe", "guard"}
    /\ phase \in {"off", "settled", "built", "opened", "serving", "closed", "died"}
    /\ phase # "off" => settings = Load(environ, disk) /\ warned = Warnings(environ, disk)
    /\ phase \in {"off", "settled"} => answer = Absent
    /\ phase \notin {"off", "settled"} => providers = BuildProviders(settings)
    /\ asked = Absent \/ asked \in Seq({"up", "degraded", "cooling_down", "down"})
    /\ answer # Absent /\ answer.to = "health" => Len(answer.is) = Len(providers)
    /\ answer # Absent /\ answer.to = "handshake" /\ answer.ok => answer.is = providers

(* A health is one of four. *)
LEMMA HealthIs ==
    ASSUME NEW id, NEW reply \in Replies
    PROVE  Health(AdapterOf(id), reply) \in {"up", "degraded", "cooling_down", "down"}
BY DEF AdapterOf, Health, OpenAIHealth, GeminiHealth, OllamaHealth, Replies

(* Every step of a boot keeps its invariant.                               *)
LEMMA BootKept == ASSUME BootInv, [BootStep]_bootVars PROVE BootInv'
<1> USE DEF BootInv
<1>1. CASE GuardStdout
  BY <1>1 DEF GuardStdout
<1>2. CASE LoadSettings
  BY <1>2 DEF LoadSettings
<1>3. CASE BuildContainer
  <2>1. settings = Load(environ, disk) /\ settings.clouds \subseteq Clouds /\ settings.cost_mode \in Modes
    BY <1>3, ModeIsOne DEF BuildContainer, Load
  <2>2. NoneTwice(BuildProviders(settings))
    BY <2>1, BuiltOnce DEF Holding
  <2>3. providers' = BuildProviders(settings) /\ phase' = "built"
    BY <1>3, <2>1, <2>2 DEF BuildContainer, NoneTwice
  <2> QED BY <1>3, <2>3 DEF BuildContainer
<1>4. CASE OpenStdioStreams
  BY <1>4 DEF OpenStdioStreams
<1>5. CASE TakeStreams \/ BuildChannel
  BY <1>5 DEF TakeStreams, BuildChannel
<1>6. ASSUME NEW v \in Versions, Handshake(v) PROVE BootInv'
  BY <1>6 DEF Handshake
<1>7. CASE AskHealth
  BY <1>7 DEF AskHealth
<1>8. ASSUME NEW reply \in Replies, HealthComes(reply) PROVE BootInv'
  <2>1. asked' \in Seq({"up", "degraded", "cooling_down", "down"})
    BY <1>8, HealthIs, AppendProperties DEF HealthComes
  <2> QED BY <1>8, <2>1 DEF HealthComes
<1>9. CASE AnswerHealth
  BY <1>9 DEF AnswerHealth
<1>10. CASE ServeReturns
  BY <1>10 DEF ServeReturns
<1>11. CASE UNCHANGED bootVars
  BY <1>11 DEF bootVars
<1> QED BY <1>1, <1>2, <1>3, <1>4, <1>5, <1>6, <1>7, <1>8, <1>9, <1>10, <1>11 DEF BootStep

(* For any environment and any file: the settings are those of the layers, *)
(* what is configured is what is registered, and what health and handshake *)
(* answer for.                                                             *)
THEOREM BootAlwaysSound == BootInit /\ [][BootStep]_bootVars => []BootSound
<1>1. BootInit => BootInv
  BY DEF BootInit, BootInv
<1>2. BootInv => BootSound
  <2> SUFFICES ASSUME BootInv PROVE BootSound
    OBVIOUS
  <2> USE DEF BootInv
  <2>1. phase # "off" => ByLayers
    BY LoadedByLayers
  <2>2. ASSUME phase \notin {"off", "settled"}
        PROVE  /\ {providers[k] : k \in DOMAIN providers} =
                    {cloud \in Clouds : IsSaid(environ.key[cloud]) /\ IsSaid(environ.url[cloud])}
                    \cup {"ollama"}
               /\ \A j, k \in DOMAIN providers : providers[j] = providers[k] => j = k
    <3>1. /\ providers = BuildProviders(settings)
          /\ settings.clouds =
                {cloud \in Clouds : IsSaid(environ.key[cloud]) /\ IsSaid(environ.url[cloud])}
      BY <2>2 DEF Load, IsConfigured
    <3>2. settings.clouds \subseteq Clouds
      BY <3>1
    <3> QED BY <3>1, <3>2, BuiltOnce DEF Holding, NoneTwice
  <2> QED BY <2>1, <2>2 DEF BootSound
<1> QED BY <1>1, <1>2, BootKept, PTL

----------------------------------------------------------------------------
(* A scan for plugins.                                                     *)

(* Comparing lexicographically is comparing major, minor and patch. *)
LEMMA OlderIsNotSupporting ==
    ASSUME NEW v \in Semvers, NEW w \in Semvers
    PROVE  Supports(v, w) <=> ~ Older(v, w)
<1>1. /\ v[1] \in Nat /\ v[2] \in Nat /\ v[3] \in Nat
      /\ w[1] \in Nat /\ w[2] \in Nat /\ w[3] \in Nat
  BY DEF Semvers
<1>2. Older(v, w) <=> \/ v[1] < w[1]
                      \/ v[1] = w[1] /\ v[2] < w[2]
                      \/ v[1] = w[1] /\ v[2] = w[2] /\ v[3] < w[3]
  <2>1. ASSUME NEW i \in 1 .. 3, v[i] < w[i], \A j \in 1 .. (i - 1) : v[j] = w[j]
        PROVE  \/ v[1] < w[1]
               \/ v[1] = w[1] /\ v[2] < w[2]
               \/ v[1] = w[1] /\ v[2] = w[2] /\ v[3] < w[3]
    <3>1. i = 1 \/ i = 2 \/ i = 3
      OBVIOUS
    <3> QED BY <2>1, <3>1
  <2>2. ASSUME v[1] < w[1] PROVE Older(v, w)
    <3>1. 1 \in 1 .. 3 /\ \A j \in 1 .. (1 - 1) : v[j] = w[j]
      OBVIOUS
    <3> QED BY <2>2, <3>1 DEF Older
  <2>3. ASSUME v[1] = w[1], v[2] < w[2] PROVE Older(v, w)
    <3>1. 2 \in 1 .. 3 /\ \A j \in 1 .. (2 - 1) : v[j] = w[j]
      BY <2>3
    <3> QED BY <2>3, <3>1 DEF Older
  <2>4. ASSUME v[1] = w[1], v[2] = w[2], v[3] < w[3] PROVE Older(v, w)
    <3>1. 3 \in 1 .. 3 /\ \A j \in 1 .. (3 - 1) : v[j] = w[j]
      BY <2>4
    <3> QED BY <2>4, <3>1 DEF Older
  <2> QED BY <2>1, <2>2, <2>3, <2>4 DEF Older
<1> QED BY <1>1, <1>2 DEF Supports

(* What loads is what can be trusted. *)
LEMMA LoadsTheTrusted == \A m \in Manifests : LoadOne(m) = "loads" <=> Trusted(m)
<1> TAKE m \in Manifests
<1>1. IsManifest(m) /\ AppVersion \in Semvers \cup {NoVersion} /\ NoVersion \notin Semvers
  BY DiscoveryAssumption
<1>2. ASSUME m.needs \in Semvers, AppVersion \in Semvers
      PROVE  Supports(AppVersion, m.needs) <=> ~ Older(AppVersion, m.needs)
  BY <1>2, OlderIsNotSupporting
<1>3. Validates(m) <=> /\ m.id \in WellFormed /\ {m.version, m.needs, AppVersion} \subseteq Semvers
                       /\ Supports(AppVersion, m.needs) /\ ContributesWell(m)
  BY <1>1, <1>2 DEF Validates, IsCompatible, IsManifest
<1>4. LoadOne(m) = "loads" <=> /\ m.text = "toml" /\ m.form = "whole" /\ Validates(m)
                               /\ m.provider = "tools"
  BY <1>1 DEF LoadOne, IsManifest
<1> QED BY <1>3, <1>4 DEF Trusted

(* One more place, behind all the others. *)
LEMMA InTurnAppend ==
    ASSUME NEW s \in Seq(Nat), NEW among, InTurn(s, among), NEW n \in Nat, \A k \in among : k < n
    PROVE  InTurn(Append(s, n), among \cup {n})
<1> DEFINE r == Append(s, n)
<1>1. /\ Len(s) \in Nat /\ DOMAIN s = 1 .. Len(s) /\ DOMAIN r = 1 .. (Len(s) + 1)
      /\ \A i \in 1 .. Len(s) : r[i] = s[i] /\ s[i] \in Nat
      /\ r[Len(s) + 1] = n
  OBVIOUS
<1> HIDE DEF r
<1>2. \A i \in DOMAIN s : s[i] \in among
  BY DEF InTurn
<1>3. ASSUME NEW i \in DOMAIN r, NEW j \in DOMAIN r, i < j PROVE r[i] < r[j]
  <2>1. i \in DOMAIN s /\ r[i] = s[i]
    BY <1>1, <1>3
  <2>2. CASE j = Len(s) + 1
    BY <1>1, <1>2, <2>1, <2>2
  <2>3. CASE j # Len(s) + 1
    <3>1. j \in DOMAIN s /\ r[j] = s[j]
      BY <1>1, <2>3
    <3> QED BY <1>3, <2>1, <3>1 DEF InTurn
  <2> QED BY <2>2, <2>3
<1>4. {r[i] : i \in DOMAIN r} = among \cup {n}
  <2>1. ASSUME NEW i \in DOMAIN r PROVE r[i] \in among \cup {n}
    <3>1. i \in DOMAIN s \/ i = Len(s) + 1
      BY <1>1
    <3> QED BY <1>1, <1>2, <3>1
  <2>2. ASSUME NEW k \in among PROVE \E i \in DOMAIN r : r[i] = k
    <3>1. PICK i \in DOMAIN s : s[i] = k
      BY DEF InTurn
    <3>2. i \in DOMAIN r /\ r[i] = k
      BY <1>1, <3>1
    <3> QED BY <3>2
  <2>3. \E i \in DOMAIN r : r[i] = n
    <3>1. Len(s) + 1 \in DOMAIN r
      BY <1>1
    <3> QED BY <1>1, <3>1
  <2> QED BY <2>1, <2>2, <2>3
<1> QED BY <1>3, <1>4 DEF InTurn, r

(* The inductive invariant: beside what the scan promises, that no id of a *)
(* trusted manifest that was read is still free.                           *)
DiscoveryInv ==
    /\ scan \in {"idle", "reading", "reported", "raised"}
    /\ root \in Seq(Manifests) /\ pos \in 1 .. (Len(root) + 1)
    /\ loaded \in Seq(Nat) /\ failures \in Seq(Nat)
    /\ \A j \in 1 .. (pos - 1) : Trusted(root[j]) => root[j].id \in DOMAIN plugins
    /\ ScanSound

Got == {k \in 1 .. (pos - 1) : Gets(k)}

(* The place being read gets its id exactly if it loads and the id is      *)
(* free.                                                                   *)
LEMMA GetsIfFree ==
    ASSUME DiscoveryInv, pos <= Len(root)
    PROVE  /\ root[pos] \in Manifests
           /\ Gets(pos) <=> /\ LoadOne(root[pos]) = "loads"
                              /\ root[pos].id \notin DOMAIN plugins
<1> DEFINE m == root[pos]
<1>1. m \in Manifests /\ pos \in Nat
  <2>1. pos \in 1 .. Len(root)
    BY DEF DiscoveryInv
  <2> QED BY <2>1 DEF DiscoveryInv
<1>2. LoadOne(m) = "loads" <=> Trusted(m)
  BY <1>1, LoadsTheTrusted
<1>3. DOMAIN plugins = DOMAIN earlier \cup {root[k].id : k \in Got}
  BY DEF DiscoveryInv, ScanSound, Got
<1>4. ASSUME Trusted(m), m.id \notin DOMAIN plugins PROVE Gets(pos)
  BY <1>3, <1>4 DEF Gets, DiscoveryInv
<1>5. ASSUME Gets(pos) PROVE m.id \notin DOMAIN plugins
  <2>1. m.id \notin DOMAIN earlier /\ \A j \in 1 .. (pos - 1) : Trusted(root[j]) => root[j].id # m.id
    BY <1>5 DEF Gets
  <2>2. \A k \in Got : Trusted(root[k]) /\ k \in 1 .. (pos - 1)
    BY DEF Got, Gets
  <2> QED BY <1>3, <2>1, <2>2
<1>6. Gets(pos) => Trusted(m)
  BY DEF Gets
<1> QED BY <1>1, <1>2, <1>4, <1>5, <1>6

(* The place read is the only one more. *)
LEMMA OneMoreRead ==
    ASSUME DiscoveryInv, pos <= Len(root), UNCHANGED <<root, earlier>>, pos' = pos + 1
    PROVE  /\ Got' = Got \cup (IF Gets(pos) THEN {pos} ELSE {})
           /\ (1 .. (pos' - 1)) \ Got' =
                 ((1 .. (pos - 1)) \ Got) \cup (IF Gets(pos) THEN {} ELSE {pos})
           /\ Got \subseteq 1 .. (pos - 1)
           /\ pos \in Nat /\ pos' \in 1 .. (Len(root) + 1)
           /\ 1 .. (pos' - 1) = (1 .. (pos - 1)) \cup {pos}
           /\ pos \notin 1 .. (pos - 1)
<1>1. pos \in Nat /\ pos >= 1 /\ Len(root) \in Nat
  BY DEF DiscoveryInv
<1>2. \A k : Gets(k)' <=> Gets(k)
  BY DEF Gets
<1>3. 1 .. (pos' - 1) = (1 .. (pos - 1)) \cup {pos} /\ pos \notin 1 .. (pos - 1)
  BY <1>1
<1>4. Got' = {k \in 1 .. (pos' - 1) : Gets(k)}
  BY <1>2 DEF Got
<1>5. pos' \in 1 .. (Len(root) + 1)
  BY <1>1
<1> QED BY <1>1, <1>3, <1>4, <1>5 DEF Got

(* ScanSound, with what was got so far named. *)
LEMMA ScanSoundIs ==
    ScanSound <=>
        /\ DOMAIN plugins = DOMAIN earlier \cup {root[k].id : k \in Got}
        /\ \A id \in DOMAIN earlier : plugins[id] = earlier[id]
        /\ \A k \in Got : plugins[root[k].id] = root[k]
        /\ InTurn(loaded, Got) /\ InTurn(failures, (1 .. (pos - 1)) \ Got)
        /\ scan = "reported" => pos = Len(root) + 1
BY DEF ScanSound, Got

(* Where nothing but the stage changes, and the stage suits the place, the *)
(* scan stays sound.                                                       *)
LEMMA SameScan ==
    ASSUME DiscoveryInv, UNCHANGED <<plugins, root, pos, loaded, failures, earlier>>,
           scan' = "reported" => pos = Len(root) + 1
    PROVE  ScanSound'
<1>1. Got' = Got
  BY DEF Got, Gets, Trusted
<1>2. /\ DOMAIN plugins = DOMAIN earlier \cup {root[k].id : k \in Got}
      /\ \A id \in DOMAIN earlier : plugins[id] = earlier[id]
      /\ \A k \in Got : plugins[root[k].id] = root[k]
      /\ InTurn(loaded, Got) /\ InTurn(failures, (1 .. (pos - 1)) \ Got)
  BY ScanSoundIs DEF DiscoveryInv
<1>3. /\ DOMAIN plugins' = DOMAIN earlier' \cup {root'[k].id : k \in Got'}
      /\ \A id \in DOMAIN earlier' : plugins'[id] = earlier'[id]
      /\ \A k \in Got' : plugins'[root'[k].id] = root'[k]
  BY <1>1, <1>2
<1>4. InTurn(loaded, Got)'
  BY <1>1, <1>2 DEF InTurn
<1>5. InTurn(failures, (1 .. (pos - 1)) \ Got)'
  <2>1. ((1 .. (pos - 1)) \ Got)' = (1 .. (pos - 1)) \ Got
    BY <1>1
  <2> QED BY <1>2, <2>1 DEF InTurn
<1> QED BY <1>3, <1>4, <1>5 DEF ScanSound, Got

(* Nothing read, nothing got: what a scan begins with. *)
LEMMA FreshScan ==
    ASSUME earlier' = plugins', pos' = 1, loaded' = <<>>, failures' = <<>>,
           scan' \in {"idle", "reading", "raised"}, root' \in Seq(Manifests)
    PROVE  DiscoveryInv'
<1>1. 1 .. (pos' - 1) = {} /\ Got' = {}
  BY DEF Got
<1>2. InTurn(<<>>, {}) /\ <<>> \in Seq(Nat)
  BY DEF InTurn
<1>3. pos' \in 1 .. (Len(root') + 1)
  <2>1. Len(root') \in Nat
    OBVIOUS
  <2> QED BY <2>1
<1>4. InTurn(loaded, Got)' /\ InTurn(failures, (1 .. (pos - 1)) \ Got)'
  BY <1>1, <1>2 DEF InTurn
<1>5. ScanSound'
  <2>1. {root'[k].id : k \in Got'} = {}
    BY <1>1
  <2> QED BY <1>1, <1>4, <2>1 DEF ScanSound, Got
<1> QED BY <1>1, <1>2, <1>3, <1>5 DEF DiscoveryInv

(* A step of a scan keeps it. *)
LEMMA DiscoveryKept == ASSUME DiscoveryInv, [DiscoveryStep]_discoveryVars PROVE DiscoveryInv'
<1>1. ASSUME NEW r \in Roots, Begin(r) PROVE DiscoveryInv'
  BY <1>1, FreshScan, DiscoveryAssumption DEF Begin
<1>2. CASE CannotList
  BY <1>2, FreshScan DEF CannotList
<1>3. CASE Registers
  <2> USE <1>3 DEF Registers
  <2> DEFINE m == root[pos]
  <2>1. /\ m \in Manifests /\ Gets(pos)
        /\ pos \in Nat /\ pos' \in 1 .. (Len(root) + 1)
        /\ Got' = Got \cup {pos} /\ (1 .. (pos' - 1)) \ Got' = (1 .. (pos - 1)) \ Got
        /\ Got \subseteq 1 .. (pos - 1) /\ 1 .. (pos' - 1) = (1 .. (pos - 1)) \cup {pos}
    BY GetsIfFree, OneMoreRead
  <2>2. m.id \notin DOMAIN plugins /\ plugins' = With(m.id, m)
    OBVIOUS
  <2>3. /\ DOMAIN plugins' = DOMAIN plugins \cup {m.id} /\ plugins'[m.id] = m
        /\ \A id \in DOMAIN plugins : plugins'[id] = plugins[id]
    BY <2>2 DEF With
  <2>4. InTurn(loaded, Got)'
    <3>1. \A k \in Got : k < pos
      BY <2>1
    <3>2. loaded \in Seq(Nat) /\ InTurn(loaded, Got)
      BY ScanSoundIs DEF DiscoveryInv
    <3>3. InTurn(Append(loaded, pos), Got \cup {pos})
      BY <2>1, <3>1, <3>2, InTurnAppend
    <3> QED BY <2>1, <3>3 DEF InTurn
  <2>5. InTurn(failures, (1 .. (pos - 1)) \ Got)'
    <3>1. InTurn(failures, (1 .. (pos - 1)) \ Got)
      BY ScanSoundIs DEF DiscoveryInv
    <3> QED BY <2>1, <3>1 DEF InTurn
  <2>6. /\ DOMAIN plugins = DOMAIN earlier \cup {root[k].id : k \in Got}
        /\ \A id \in DOMAIN earlier : plugins[id] = earlier[id]
        /\ \A k \in Got : plugins[root[k].id] = root[k]
    BY ScanSoundIs DEF DiscoveryInv
  <2>7. \A k \in Got' : plugins'[root[k].id] = root[k]
    BY <2>1, <2>3, <2>6
  <2>8. DOMAIN plugins' = DOMAIN earlier \cup {root[k].id : k \in Got'}
    BY <2>1, <2>3, <2>6
  <2>9. \A id \in DOMAIN earlier : plugins'[id] = earlier[id]
    BY <2>3, <2>6
  <2>10. ScanSound'
    BY <2>4, <2>5, <2>7, <2>8, <2>9 DEF ScanSound, Got
  <2>11. \A j \in 1 .. (pos' - 1) : Trusted(root[j]) => root[j].id \in DOMAIN plugins'
    BY <2>1, <2>3 DEF DiscoveryInv
  <2>12. loaded' \in Seq(Nat)
    BY <2>1 DEF DiscoveryInv
  <2> QED BY <2>1, <2>10, <2>11, <2>12 DEF DiscoveryInv, Trusted
<1>4. CASE Reports
  <2> USE <1>4 DEF Reports
  <2>1. root[pos] \in Manifests /\ ~ Gets(pos)
    BY GetsIfFree
  <2>2. /\ pos \in Nat /\ pos' \in 1 .. (Len(root) + 1)
        /\ Got' = Got
        /\ (1 .. (pos' - 1)) \ Got' = ((1 .. (pos - 1)) \ Got) \cup {pos}
        /\ 1 .. (pos' - 1) = (1 .. (pos - 1)) \cup {pos}
    BY <2>1, OneMoreRead
  <2>3. InTurn(failures, (1 .. (pos - 1)) \ Got)'
    <3>1. \A k \in (1 .. (pos - 1)) \ Got : k < pos
      BY <2>2
    <3>2. failures \in Seq(Nat) /\ InTurn(failures, (1 .. (pos - 1)) \ Got)
      BY ScanSoundIs DEF DiscoveryInv
    <3>3. InTurn(Append(failures, pos), ((1 .. (pos - 1)) \ Got) \cup {pos})
      BY <2>2, <3>1, <3>2, InTurnAppend
    <3> QED BY <2>2, <3>3 DEF InTurn
  <2>4. InTurn(loaded, Got)'
    <3>1. InTurn(loaded, Got)
      BY ScanSoundIs DEF DiscoveryInv
    <3> QED BY <2>2, <3>1 DEF InTurn
  <2>5. /\ DOMAIN plugins = DOMAIN earlier \cup {root[k].id : k \in Got}
        /\ \A id \in DOMAIN earlier : plugins[id] = earlier[id]
        /\ \A k \in Got : plugins[root[k].id] = root[k]
    BY ScanSoundIs DEF DiscoveryInv
  <2>6. ScanSound'
    <3>1. plugins' = plugins /\ earlier' = earlier /\ root' = root /\ scan' = "reading"
      OBVIOUS
    <3>2. DOMAIN plugins' = DOMAIN earlier' \cup {root'[k].id : k \in Got'}
      BY <2>2, <2>5, <3>1
    <3>3. /\ \A id \in DOMAIN earlier' : plugins'[id] = earlier'[id]
          /\ \A k \in Got' : plugins'[root'[k].id] = root'[k]
      BY <2>2, <2>5, <3>1
    <3> QED BY <2>3, <2>4, <3>1, <3>2, <3>3 DEF ScanSound, Got
  <2>7. Trusted(root[pos]) => root[pos].id \in DOMAIN plugins
    BY <2>1, LoadsTheTrusted
  <2>8. \A j \in 1 .. (pos' - 1) : Trusted(root[j]) => root[j].id \in DOMAIN plugins'
    BY <2>2, <2>7 DEF DiscoveryInv
  <2>9. failures' \in Seq(Nat)
    BY <2>2 DEF DiscoveryInv
  <2> QED BY <2>2, <2>6, <2>8, <2>9 DEF DiscoveryInv, Trusted
<1>5. CASE Raises
  <2>1. /\ scan' = "raised" /\ UNCHANGED <<plugins, root, pos, loaded, failures, earlier>>
    BY <1>5 DEF Raises
  <2>2. ScanSound'
    BY <2>1, SameScan
  <2> QED BY <2>1, <2>2 DEF DiscoveryInv, Trusted
<1>6. CASE ReportMade
  <2>1. pos = Len(root) + 1
    BY <1>6 DEF ReportMade, DiscoveryInv
  <2>2. scan' = "reported" /\ UNCHANGED <<plugins, root, pos, loaded, failures, earlier>>
    BY <1>6 DEF ReportMade
  <2>3. ScanSound'
    BY <2>1, <2>2, SameScan
  <2> QED BY <2>2, <2>3 DEF DiscoveryInv, Trusted
<1>7. ASSUME NEW id \in PluginIds, Unregister(id) PROVE DiscoveryInv'
  BY <1>7, FreshScan DEF Unregister
<1>8. CASE UNCHANGED discoveryVars
  <2>1. UNCHANGED <<plugins, scan, root, pos, loaded, failures, earlier>>
    BY <1>8 DEF discoveryVars
  <2>2. scan = "reported" => pos = Len(root) + 1
    BY ScanSoundIs DEF DiscoveryInv
  <2>3. ScanSound'
    BY <2>1, <2>2, SameScan
  <2> QED BY <2>1, <2>3 DEF DiscoveryInv, Trusted
<1> QED BY <1>1, <1>2, <1>3, <1>4, <1>5, <1>6, <1>7, <1>8 DEF DiscoveryStep

(* For any manifests, roots and versions: a scan takes nothing from a      *)
(* registered plugin, gives each id to the first place that can be trusted *)
(* with it, and accounts for every place it has read.                      *)
THEOREM ScansAlwaysSound == DiscoveryInit /\ [][DiscoveryStep]_discoveryVars => []ScanSound
<1>1. DiscoveryInit => DiscoveryInv
  <2> SUFFICES ASSUME DiscoveryInit PROVE DiscoveryInv
    OBVIOUS
  <2> USE DEF DiscoveryInit
  <2>1. 1 .. (pos - 1) = {} /\ Got = {} /\ Len(root) = 0
    BY DEF Got
  <2>2. InTurn(<<>>, {}) /\ <<>> \in Seq(Nat) /\ DOMAIN <<>> = {} /\ <<>> \in Seq(Manifests)
    BY DEF InTurn
  <2>3. ScanSound
    BY <2>1, <2>2, ScanSoundIs
  <2> QED BY <2>1, <2>2, <2>3 DEF DiscoveryInv
<1>2. DiscoveryInv => ScanSound
  BY DEF DiscoveryInv
<1> QED BY <1>1, <1>2, DiscoveryKept, PTL
----------------------------------------------------------------------------
(* Frames on the wire.                                                     *)

(* What the wire carries is seen as one sequence of bytes: those read,     *)
(* those in the pipe and those that wait to be written.  In it the whole   *)
(* payloads stand one behind the other, each where starts has it.          *)
PartAt(log, start, p) ==
    \A k \in 1 .. HeaderSize + Len(p) : start + k <= Len(log) => log[start + k] = Frame(p)[k]

WholeEnd(starts) == starts[Len(whole) + 1]

Spelled(log, starts) ==
    /\ log \in Seq(Int)
    /\ starts \in [1 .. Len(whole) + 1 -> Nat] /\ starts[1] = 0
    /\ \A i \in 1 .. Len(whole) :
        /\ starts[i + 1] = starts[i] + HeaderSize + Len(whole[i])
        /\ starts[i + 1] <= WholeEnd(starts)
        /\ PartAt(log, starts[i], whole[i])
    /\ WholeEnd(starts) <= Len(log)

(* Behind them comes the frame that is being written, or what a closing    *)
(* sender left of it; behind a frame cut within the stream, anything.      *)
TailInv(log, starts) ==
    /\ cut = "never" /\ unsent = <<>> => Len(log) = WholeEnd(starts)
    /\ cut = "never" /\ unsent # <<>> =>
        Len(log) = WholeEnd(starts) + HeaderSize + Len(payload) /\ PartAt(log, WholeEnd(starts), payload)
    /\ cut = "atEnd" =>
        /\ WholeEnd(starts) < Len(log) /\ Len(log) < WholeEnd(starts) + HeaderSize + Len(payload)
        /\ Len(payload) <= MaxFrameBytes /\ PartAt(log, WholeEnd(starts), payload)

WrittenTo(log) == Len(log) - Len(unsent)
ReadTo(log) == WrittenTo(log) - Len(pipe)

PlaceInv(log, starts) ==
    /\ WholeEnd(starts) <= WrittenTo(log) /\ 0 <= ReadTo(log)
    /\ \A k \in 1 .. Len(unsent) : unsent[k] = log[WrittenTo(log) + k]
    /\ \A k \in 1 .. Len(pipe) : pipe[k] = log[ReadTo(log) + k]

(* The reader fills a part of the frame behind those it has got.           *)
Base(starts) == starts[Len(got) + 1] + (IF part = "payload" THEN HeaderSize ELSE 0)

Aligned(log, starts) ==
    /\ Len(got) <= Len(whole) /\ \A i \in 1 .. Len(got) : got[i] = whole[i]
    /\ ReadTo(log) = Base(starts) + Len(filled)
    /\ \A k \in 1 .. Len(filled) : filled[k] = log[Base(starts) + k]
    /\ Len(filled) < needed
    /\ part = "header" => needed = HeaderSize
    /\ part = "payload" =>
        \E b \in [1 .. HeaderSize -> Int] :
            /\ \A k \in 1 .. HeaderSize : b[k] = log[starts[Len(got) + 1] + k]
            /\ needed = Number(b)

(* It has got all that is whole, and perhaps more. *)
Beyond == Len(whole) <= Len(got) /\ \A i \in 1 .. Len(whole) : got[i] = whole[i]

ReaderInv(log, starts) ==
    /\ reader = "reads" => Aligned(log, starts) \/ (cut = "within" /\ Beyond)
    /\ reader = "ended" => Beyond /\ cut # "atEnd" /\ ~ sender
    /\ reader = "lost" => Beyond /\ cut # "never"
    /\ cut # "within" => Len(got) <= Len(whole)

WireTypes ==
    /\ payload \in Seq(Int) /\ unsent \in Seq(Int) /\ pipe \in Seq(Int) /\ filled \in Seq(Int)
    /\ got \in Seq(Seq(Int)) /\ whole \in Seq(Seq(Int))
    /\ \A i \in 1 .. Len(whole) : Len(whole[i]) <= MaxFrameBytes
    /\ part \in {"header", "payload"} /\ reader \in {"reads", "ended", "lost"}
    /\ cut \in {"never", "atEnd", "within"} /\ sender \in BOOLEAN
    /\ ~ sender => unsent = <<>>
    /\ cut = "atEnd" => ~ sender
    /\ unsent # <<>> => Len(payload) <= MaxFrameBytes

Carried(log, starts) ==
    /\ Spelled(log, starts) /\ TailInv(log, starts) /\ PlaceInv(log, starts)
    /\ ReaderInv(log, starts)
WireInv == WireTypes /\ \E log, starts : Carried(log, starts)

(* A length is read as it was written. *)
LEMMA HeaderNumber ==
  ASSUME NEW n \in Nat
  PROVE  Header(n) \in [1 .. 4 -> Int] /\ Len(Header(n)) = 4 /\ Header(n) \in Seq(Int)
         /\ Number(Header(n)) = n
<1> DEFINE high == n \div Radix
           higher == high \div Radix
           highest == higher \div Radix
<1>1. Radix \in Nat /\ Radix > 0
  BY FramingAssumption
<1>2. high \in Nat /\ n % Radix \in Nat /\ n = high * Radix + (n % Radix)
  BY <1>1
<1>3. higher \in Nat /\ high % Radix \in Nat /\ high = higher * Radix + (high % Radix)
  BY <1>1, <1>2
<1>4. highest \in Nat /\ higher % Radix \in Nat /\ higher = highest * Radix + (higher % Radix)
  BY <1>1, <1>3
<1>5. Header(n) = <<highest, higher % Radix, high % Radix, n % Radix>>
  BY DEF Header
<1> HIDE DEF high, higher, highest
<1>6. Number(Header(n)) = ((highest * Radix + (higher % Radix)) * Radix + (high % Radix)) * Radix + (n % Radix)
  BY <1>5 DEF Number
<1>7. Number(Header(n)) = n
  BY <1>2, <1>3, <1>4, <1>6
<1> QED BY <1>2, <1>3, <1>4, <1>5, <1>7

(* A frame is its header and behind it its payload.                        *)
LEMMA FrameParts ==
  ASSUME NEW p \in Seq(Int)
  PROVE  /\ Frame(p) \in Seq(Int) /\ Len(Frame(p)) = HeaderSize + Len(p)
         /\ \A k \in 1 .. HeaderSize : Frame(p)[k] = Header(Len(p))[k]
         /\ \A k \in 1 .. Len(p) : Frame(p)[HeaderSize + k] = p[k]
<1>1. Len(p) \in Nat
  OBVIOUS
<1>2. Header(Len(p)) \in Seq(Int) /\ Len(Header(Len(p))) = 4
  BY <1>1, HeaderNumber
<1> DEFINE h == Header(Len(p))
<1>3. Frame(p) = h \o p
  BY DEF Frame
<1> HIDE DEF h
<1>4. h \in Seq(Int) /\ Len(h) = 4
  BY <1>2 DEF h
<1>5. /\ h \o p \in Seq(Int) /\ Len(h \o p) = Len(h) + Len(p)
      /\ \A i \in 1 .. Len(h) + Len(p) :
            (h \o p)[i] = IF i <= Len(h) THEN h[i] ELSE p[i - Len(h)]
  BY <1>4, ConcatProperties
<1>6. \A k \in 1 .. 4 : (h \o p)[k] = h[k]
  BY <1>1, <1>4, <1>5
<1>7. \A k \in 1 .. Len(p) : (h \o p)[4 + k] = p[k]
  BY <1>1, <1>4, <1>5
<1> QED BY <1>3, <1>4, <1>5, <1>6, <1>7 DEF HeaderSize, h

(* A sequence begins with another one when it agrees with it that far. *)
LEMMA PrefixMeans ==
  ASSUME NEW s \in Seq(Seq(Int)), NEW t \in Seq(Seq(Int)), Len(s) <= Len(t),
         \A i \in 1 .. Len(s) : s[i] = t[i]
  PROVE  IsPrefix(s, t)
<1>1. SubSeq(s, 1, Len(s)) = SubSeq(t, 1, Len(s))
  BY SubSeqProperties
<1> QED BY <1>1 DEF IsPrefix

(* What is left of a sequence behind its first n members.                  *)
LEMMA TailOfSeq ==
  ASSUME NEW s \in Seq(Int), NEW n \in 0 .. Len(s)
  PROVE  /\ SubSeq(s, n + 1, Len(s)) \in Seq(Int) /\ Len(SubSeq(s, n + 1, Len(s))) = Len(s) - n
         /\ \A k \in 1 .. Len(s) - n : SubSeq(s, n + 1, Len(s))[k] = s[n + k]
<1>1. \A i \in n + 1 .. Len(s) : s[i] \in Int
  OBVIOUS
<1>2. /\ SubSeq(s, n + 1, Len(s)) \in Seq(Int)
      /\ Len(SubSeq(s, n + 1, Len(s))) = IF n + 1 <= Len(s) THEN Len(s) - (n + 1) + 1 ELSE 0
      /\ \A i \in 1 .. Len(s) - (n + 1) + 1 : SubSeq(s, n + 1, Len(s))[i] = s[n + 1 + i - 1]
  BY <1>1, SubSeqProperties
<1> QED BY <1>2

(* The first n members of a sequence.                                      *)
LEMMA HeadOfSeq ==
  ASSUME NEW s \in Seq(Int), NEW n \in 0 .. Len(s)
  PROVE  /\ SubSeq(s, 1, n) \in Seq(Int) /\ Len(SubSeq(s, 1, n)) = n
         /\ \A k \in 1 .. n : SubSeq(s, 1, n)[k] = s[k]
<1>1. \A i \in 1 .. n : s[i] \in Int
  OBVIOUS
<1>2. /\ SubSeq(s, 1, n) \in Seq(Int)
      /\ Len(SubSeq(s, 1, n)) = IF 1 <= n THEN n - 1 + 1 ELSE 0
      /\ \A i \in 1 .. n - 1 + 1 : SubSeq(s, 1, n)[i] = s[1 + i - 1]
  BY <1>1, SubSeqProperties
<1> QED BY <1>2

(* The first step: what the sequence of bytes is to be. *)
LEMMA InitCarried == FramingInit => WireInv
<1> SUFFICES ASSUME FramingInit PROVE WireInv
  OBVIOUS
<1> DEFINE starts == [i \in 1 .. 1 |-> 0]
<1>1. WireTypes
  BY DEF FramingInit, WireTypes
<1>2. Len(whole) = 0 /\ Len(got) = 0 /\ Len(filled) = 0 /\ Len(unsent) = 0 /\ Len(pipe) = 0
  BY DEF FramingInit
<1>3. <<>> \in Seq(Int) /\ Len(<<>>) = 0
  OBVIOUS
<1>4. starts[1] = 0 /\ starts \in [1 .. 0 + 1 -> Nat]
  OBVIOUS
<1> HIDE DEF starts
<1>5. Spelled(<<>>, starts)
  BY <1>2, <1>3, <1>4 DEF Spelled, WholeEnd
<1>6. TailInv(<<>>, starts)
  BY <1>2, <1>3, <1>4 DEF TailInv, WholeEnd, FramingInit
<1>7. PlaceInv(<<>>, starts)
  BY <1>2, <1>3, <1>4 DEF PlaceInv, WholeEnd, WrittenTo, ReadTo
<1>8. ReaderInv(<<>>, starts)
  BY <1>2, <1>3, <1>4 DEF ReaderInv, Aligned, Base, WrittenTo, ReadTo, FramingInit, HeaderSize
<1> QED BY <1>1, <1>5, <1>6, <1>7, <1>8 DEF WireInv, Carried

(* All that is counted on the wire are natural numbers.                    *)
LEMMA WireSizes ==
  ASSUME WireTypes, NEW log, NEW starts, Spelled(log, starts)
  PROVE  /\ Len(log) \in Nat /\ Len(whole) \in Nat /\ Len(got) \in Nat /\ Len(pipe) \in Nat
         /\ Len(unsent) \in Nat /\ Len(filled) \in Nat /\ Len(payload) \in Nat
         /\ WholeEnd(starts) \in Nat
         /\ \A i \in 1 .. Len(whole) + 1 : starts[i] \in Nat
         /\ \A i \in 1 .. Len(whole) : Len(whole[i]) \in Nat
<1>1. /\ Len(log) \in Nat /\ Len(whole) \in Nat /\ Len(got) \in Nat /\ Len(pipe) \in Nat
      /\ Len(unsent) \in Nat /\ Len(filled) \in Nat /\ Len(payload) \in Nat
  BY DEF WireTypes, Spelled
<1>2. \A i \in 1 .. Len(whole) + 1 : starts[i] \in Nat
  BY DEF Spelled
<1>3. WholeEnd(starts) \in Nat
  BY <1>1, <1>2 DEF WholeEnd
<1>4. ASSUME NEW i \in 1 .. Len(whole) PROVE Len(whole[i]) \in Nat
  <2>1. whole[i] \in Seq(Int)
    BY ElementOfSeq DEF WireTypes
  <2> QED BY <2>1
<1> QED BY <1>1, <1>2, <1>3, <1>4

(* A place among the next n is one up to the end.                          *)
LEMMA Within ==
  ASSUME NEW x \in Nat, NEW n \in Nat, NEW e \in Int, x + n <= e, NEW k \in 1 .. n
  PROVE  x + k \in 1 .. e
<1> QED OBVIOUS

(* Bytes beyond the whole frames may be added and taken away. *)
LEMMA SpelledAgain ==
  ASSUME WireTypes, NEW log, NEW starts, Spelled(log, starts),
         NEW other \in Seq(Int), WholeEnd(starts) <= Len(other),
         \A k \in 1 .. WholeEnd(starts) : other[k] = log[k]
  PROVE  Spelled(other, starts)
<1>1. ASSUME NEW i \in 1 .. Len(whole) PROVE PartAt(other, starts[i], whole[i])
  <2> DEFINE n == Len(whole[i])
             start == starts[i]
  <2>1. starts[i + 1] = start + HeaderSize + n /\ starts[i + 1] <= WholeEnd(starts)
    BY DEF Spelled
  <2>2. PartAt(log, start, whole[i]) /\ WholeEnd(starts) <= Len(log)
    BY DEF Spelled
  <2>3. start \in Nat /\ n \in Nat /\ Len(log) \in Nat /\ WholeEnd(starts) \in Nat
    <3>1. i \in 1 .. Len(whole) + 1
      BY WireSizes
    <3> QED BY <3>1, WireSizes
  <2> SUFFICES ASSUME NEW k \in 1 .. HeaderSize + n, start + k <= Len(other)
               PROVE  other[start + k] = Frame(whole[i])[k]
    BY DEF PartAt
  <2> HIDE DEF n, start
  <2>4. start + HeaderSize + n <= WholeEnd(starts)
    BY <2>1
  <2>5. start + k \in 1 .. WholeEnd(starts) /\ start + k <= Len(log)
    BY <2>2, <2>3, <2>4 DEF HeaderSize
  <2> QED BY <2>2, <2>5 DEF PartAt, n
<1> QED BY <1>1 DEF Spelled

(* A reader in step stays in step when bytes are added behind those it     *)
(* has read.                                                               *)
LEMMA AlignedAgain ==
  ASSUME WireTypes, NEW log, NEW starts, Spelled(log, starts), Aligned(log, starts),
         UNCHANGED <<part, needed, filled, got>>,
         Len(got) <= Len(whole'), \A i \in 1 .. Len(got) : whole'[i] = whole[i],
         NEW other \in Seq(Int), ReadTo(other)' = ReadTo(log),
         NEW again, \A i \in 1 .. Len(got) + 1 : again[i] = starts[i],
         \A k \in 1 .. ReadTo(log) : other[k] = log[k]
  PROVE  Aligned(other, again)'
<1>1. /\ Len(got) \in Nat /\ Len(filled) \in Nat /\ starts[Len(got) + 1] \in Nat
      /\ Len(got) <= Len(whole)
  <2>1. /\ Len(got) \in Nat /\ Len(filled) \in Nat /\ Len(whole) \in Nat
        /\ \A i \in 1 .. Len(whole) + 1 : starts[i] \in Nat
    BY WireSizes
  <2>2. Len(got) <= Len(whole)
    BY DEF Aligned
  <2>3. Len(got) + 1 \in 1 .. Len(whole) + 1
    BY <2>1, <2>2
  <2> QED BY <2>1, <2>2, <2>3
<1>2. /\ Len(got) <= Len(whole) /\ ReadTo(log) = Base(starts) + Len(filled)
      /\ \A k \in 1 .. Len(filled) : filled[k] = log[Base(starts) + k]
  BY DEF Aligned
<1>3. again[Len(got) + 1] = starts[Len(got) + 1]
  <2>1. Len(got) + 1 \in 1 .. Len(got) + 1
    BY <1>1
  <2> QED BY <2>1
<1>4. Base(again)' = Base(starts) /\ Base(starts) \in Nat
  BY <1>1, <1>3 DEF Base, HeaderSize
<1>5. \A k \in 1 .. Len(filled) : filled[k] = other[Base(starts) + k]
  <2> DEFINE base == Base(starts)
             f == Len(filled)
             r == ReadTo(log)
  <2>1. base \in Nat /\ f \in Nat /\ r = base + f
    BY <1>1, <1>2, <1>4
  <2> HIDE DEF base, f, r
  <2> SUFFICES ASSUME NEW k \in 1 .. f PROVE filled[k] = other[base + k]
    BY DEF base, f
  <2>2. base + k \in 1 .. r
    BY <2>1
  <2>3. other[base + k] = log[base + k]
    BY <2>2 DEF r
  <2> QED BY <1>2, <2>3 DEF base, f
<1>6. ASSUME part = "payload"
      PROVE  \E b \in [1 .. HeaderSize -> Int] :
                /\ \A k \in 1 .. HeaderSize : b[k] = other[starts[Len(got) + 1] + k]
                /\ needed = Number(b)
  <2>1. PICK b \in [1 .. HeaderSize -> Int] :
                /\ \A k \in 1 .. HeaderSize : b[k] = log[starts[Len(got) + 1] + k]
                /\ needed = Number(b)
    BY <1>6 DEF Aligned
  <2>2. Base(starts) = starts[Len(got) + 1] + HeaderSize
    BY <1>6 DEF Base
  <2>3. ASSUME NEW k \in 1 .. HeaderSize PROVE b[k] = other[starts[Len(got) + 1] + k]
    <3>1. k \in 1 .. 4
      BY DEF HeaderSize
    <3>2. starts[Len(got) + 1] + k \in 1 .. ReadTo(log)
      <4> DEFINE x == starts[Len(got) + 1]
                 r == ReadTo(log)
                 f == Len(filled)
      <4>1. x \in Nat /\ f \in Nat
        BY <1>1
      <4>2. r = x + 4 + f
        BY <1>2, <2>2 DEF HeaderSize
      <4> HIDE DEF x, r, f
      <4>3. x + 4 <= r /\ r \in Int
        BY <4>1, <4>2
      <4>4. x + k \in 1 .. r
        BY <3>1, <4>1, <4>3, Within
      <4> QED BY <4>4 DEF x, r
    <3>3. other[starts[Len(got) + 1] + k] = log[starts[Len(got) + 1] + k]
      BY <3>2
    <3> QED BY <2>1, <3>3
  <2> QED BY <2>1, <2>3
<1>7. \A i \in 1 .. Len(got) : got[i] = whole'[i]
  BY <1>1 DEF Aligned
<1>8. /\ part' = part /\ needed' = needed /\ filled' = filled /\ got' = got
  OBVIOUS
<1>9. /\ Len(filled) < needed
      /\ part = "header" => needed = HeaderSize
  BY DEF Aligned
<1>10. /\ Len(got') <= Len(whole') /\ \A i \in 1 .. Len(got') : got'[i] = whole'[i]
       /\ ReadTo(other)' = Base(again)' + Len(filled')
       /\ \A k \in 1 .. Len(filled') : filled'[k] = other[Base(again)' + k]
       /\ Len(filled') < needed'
  BY <1>2, <1>4, <1>5, <1>7, <1>8, <1>9
<1>11. /\ part' = "header" => needed' = HeaderSize
       /\ part' = "payload" =>
            \E b \in [1 .. HeaderSize -> Int] :
                /\ \A k \in 1 .. HeaderSize : b[k] = other[again[Len(got') + 1] + k]
                /\ needed' = Number(b)
  BY <1>3, <1>6, <1>8, <1>9
<1> QED BY <1>10, <1>11 DEF Aligned

(* More bytes behind leave what stands before them. *)
LEMMA WriteCarries ==
  ASSUME WireInv, NEW p \in Payloads, WriteFrame(p)
  PROVE  WireInv'
<1> PICK log, starts : Carried(log, starts)
  BY DEF WireInv
<1> DEFINE longer == log \o Frame(p)
<1>1. p \in Seq(Int)
  BY FramingAssumption DEF Bytes
<1>2. Frame(p) \in Seq(Int) /\ Len(Frame(p)) = HeaderSize + Len(p)
  BY <1>1, FrameParts
<1>3. WireTypes /\ log \in Seq(Int)
  BY DEF WireInv, Carried, Spelled
<1>4. /\ longer \in Seq(Int) /\ Len(longer) = Len(log) + HeaderSize + Len(p)
      /\ \A i \in 1 .. Len(log) : longer[i] = log[i]
      /\ \A k \in 1 .. HeaderSize + Len(p) : longer[Len(log) + k] = Frame(p)[k]
  <2>1. /\ longer \in Seq(Int) /\ Len(longer) = Len(log) + Len(Frame(p))
        /\ \A i \in 1 .. Len(log) + Len(Frame(p)) :
              longer[i] = IF i <= Len(log) THEN log[i] ELSE Frame(p)[i - Len(log)]
    BY <1>2, <1>3, ConcatProperties
  <2>2. Len(log) \in Nat /\ Len(p) \in Nat
    BY <1>1, <1>3
  <2> QED BY <1>2, <2>1, <2>2 DEF HeaderSize
<1> HIDE DEF longer
<1>5. /\ UNCHANGED <<pipe, sender, part, needed, filled, got, reader, whole, cut>>
      /\ unsent = <<>> /\ payload' = p /\ unsent' = Frame(p) /\ Len(p) <= MaxFrameBytes /\ sender
  BY DEF WriteFrame, readVars
<1>6. WireTypes'
  BY <1>1, <1>2, <1>3, <1>5 DEF WireTypes
<1>7. Len(unsent) = 0 /\ Len(log) \in Nat /\ Len(p) \in Nat /\ Len(pipe) \in Nat /\ cut # "atEnd"
      /\ Len(whole) \in Nat /\ Len(got) \in Nat
  BY <1>1, <1>3, <1>5 DEF WireTypes
<1>8. Spelled(longer, starts)'
  <2>1. Spelled(log, starts)
    BY DEF Carried
  <2>2. WholeEnd(starts) <= Len(log) /\ WholeEnd(starts) \in Nat
    BY <1>3, <2>1, WireSizes DEF Spelled
  <2>3. Spelled(longer, starts)
    <3>1. WholeEnd(starts) <= Len(longer) /\ \A k \in 1 .. WholeEnd(starts) : longer[k] = log[k]
      BY <1>4, <1>7, <2>2 DEF HeaderSize
    <3> QED BY <1>3, <1>4, <2>1, <3>1, SpelledAgain
  <2> QED BY <1>5, <2>3 DEF Spelled, WholeEnd
<1>9. cut = "never" => Len(log) = WholeEnd(starts)
  BY <1>5 DEF Carried, TailInv
<1>10. TailInv(longer, starts)'
  <2>1. PartAt(longer, Len(log), p)
    BY <1>4 DEF PartAt
  <2>2. unsent' # <<>>
    BY <1>2, <1>5, <1>7 DEF HeaderSize
  <2>3. PartAt(longer, Len(log), p)'
    BY <2>1 DEF PartAt
  <2>4. WholeEnd(starts)' = WholeEnd(starts)
    BY <1>5 DEF WholeEnd
  <2> QED BY <2>2, <2>3, <2>4, <1>4, <1>5, <1>7, <1>9 DEF TailInv, PartAt
<1>11. WrittenTo(longer)' = WrittenTo(log) /\ ReadTo(longer)' = ReadTo(log) /\ WrittenTo(log) = Len(log)
       /\ ReadTo(log) = Len(log) - Len(pipe)
  <2>1. Len(unsent') = HeaderSize + Len(p)
    BY <1>2, <1>5
  <2>2. Len(longer) - Len(unsent') = Len(log)
    BY <1>4, <1>7, <2>1 DEF HeaderSize
  <2> QED BY <1>5, <1>7, <2>2 DEF WrittenTo, ReadTo
<1>12. PlaceInv(longer, starts)'
  <2>1. PlaceInv(log, starts)
    BY DEF Carried
  <2>2. WholeEnd(starts)' = WholeEnd(starts)
    BY <1>5 DEF WholeEnd
  <2>3. \A k \in 1 .. Len(pipe) : pipe[k] = longer[ReadTo(log) + k]
    BY <2>1, <1>4, <1>7, <1>11 DEF PlaceInv
  <2>4. \A k \in 1 .. Len(Frame(p)) : Frame(p)[k] = longer[WrittenTo(log) + k]
    BY <1>2, <1>4, <1>11
  <2> QED BY <2>1, <2>2, <2>3, <2>4, <1>5, <1>11 DEF PlaceInv
<1>13. ReaderInv(longer, starts)'
  <2>1. ReaderInv(log, starts) /\ Spelled(log, starts)
    BY DEF Carried
  <2>2. Aligned(log, starts) => Aligned(longer, starts)'
    <3> SUFFICES ASSUME Aligned(log, starts) PROVE Aligned(longer, starts)'
      OBVIOUS
    <3>1. \A k \in 1 .. ReadTo(log) : longer[k] = log[k]
      BY <1>4, <1>7, <1>11
    <3>2. Len(got) <= Len(whole') /\ whole' = whole
      BY <1>5 DEF Aligned
    <3> QED BY <1>3, <1>4, <1>5, <1>11, <2>1, <3>1, <3>2, AlignedAgain
  <2> QED BY <2>1, <2>2, <1>5 DEF ReaderInv, Beyond
<1> QED BY <1>6, <1>8, <1>10, <1>12, <1>13 DEF WireInv, Carried

(* With its last byte a frame is whole; before, nothing but its place has  *)
(* changed.                                                                *)
LEMMA PipeCarries ==
  ASSUME WireInv, NEW n \in 1 .. HeaderSize + MaxFrameBytes, PipeTakes(n)
  PROVE  WireInv'
<1> PICK log, starts : Carried(log, starts)
  BY DEF WireInv
<1> DEFINE piece == SubSeq(unsent, 1, n)
           left == SubSeq(unsent, n + 1, Len(unsent))
           size == Len(payload)
<1>1. /\ UNCHANGED <<payload, sender, part, needed, filled, got, reader, cut>>
      /\ n \in 1 .. Len(unsent) /\ pipe' = pipe \o piece /\ unsent' = left
      /\ whole' = IF n = Len(unsent) /\ cut = "never" THEN Append(whole, payload) ELSE whole
  BY DEF PipeTakes, readVars
<1>2. WireTypes /\ Spelled(log, starts) /\ TailInv(log, starts) /\ PlaceInv(log, starts)
      /\ ReaderInv(log, starts)
  BY DEF WireInv, Carried
<1>3. /\ Len(log) \in Nat /\ Len(whole) \in Nat /\ Len(got) \in Nat /\ Len(pipe) \in Nat
      /\ Len(unsent) \in Nat /\ size \in Nat /\ WholeEnd(starts) \in Nat
      /\ unsent \in Seq(Int) /\ pipe \in Seq(Int) /\ log \in Seq(Int)
  BY <1>2, WireSizes DEF WireTypes, Spelled
<1>4. unsent # <<>> /\ size <= MaxFrameBytes /\ cut # "atEnd" /\ sender
  BY <1>1, <1>2, <1>3 DEF WireTypes
<1>5. /\ piece \in Seq(Int) /\ Len(piece) = n /\ \A k \in 1 .. n : piece[k] = unsent[k]
      /\ left \in Seq(Int) /\ Len(left) = Len(unsent) - n
      /\ \A k \in 1 .. Len(unsent) - n : left[k] = unsent[n + k]
  <2>1. n \in 0 .. Len(unsent)
    BY <1>1
  <2> QED BY <1>3, <2>1, TailOfSeq, HeadOfSeq
<1> HIDE DEF piece, left
<1>6. /\ pipe' \in Seq(Int) /\ Len(pipe') = Len(pipe) + n
      /\ \A k \in 1 .. Len(pipe) + n :
            pipe'[k] = IF k <= Len(pipe) THEN pipe[k] ELSE piece[k - Len(pipe)]
  <2> DEFINE all == pipe \o piece
  <2>1. /\ all \in Seq(Int) /\ Len(all) = Len(pipe) + Len(piece)
        /\ \A k \in 1 .. Len(pipe) + Len(piece) :
              all[k] = IF k <= Len(pipe) THEN pipe[k] ELSE piece[k - Len(pipe)]
    BY <1>3, <1>5, ConcatProperties
  <2>2. pipe' = all /\ Len(piece) = n
    BY <1>1, <1>5
  <2> HIDE DEF all
  <2> QED BY <2>1, <2>2
<1>7. WrittenTo(log)' = WrittenTo(log) + n /\ ReadTo(log)' = ReadTo(log)
      /\ WrittenTo(log) = Len(log) - Len(unsent) /\ ReadTo(log) = WrittenTo(log) - Len(pipe)
  BY <1>1, <1>3, <1>5, <1>6 DEF WrittenTo, ReadTo
<1>8. /\ WholeEnd(starts) <= WrittenTo(log) /\ 0 <= ReadTo(log)
      /\ \A k \in 1 .. Len(unsent) : unsent[k] = log[WrittenTo(log) + k]
      /\ \A k \in 1 .. Len(pipe) : pipe[k] = log[ReadTo(log) + k]
  BY <1>2 DEF PlaceInv
<1> DEFINE w == WrittenTo(log)
           r == ReadTo(log)
<1>9. w \in Int /\ r \in Int
  BY <1>3, <1>7
<1>10. \A k \in 1 .. Len(unsent') : unsent'[k] = log[WrittenTo(log)' + k]
  <2> SUFFICES ASSUME NEW k \in 1 .. Len(unsent) - n PROVE left[k] = log[w + n + k]
    BY <1>1, <1>5, <1>7
  <2> HIDE DEF w
  <2>1. n + k \in 1 .. Len(unsent) /\ w + n + k = w + (n + k)
    BY <1>1, <1>3, <1>9
  <2> QED BY <1>5, <1>8, <2>1 DEF w
<1>11. \A k \in 1 .. Len(pipe') : pipe'[k] = log[ReadTo(log)' + k]
  <2> SUFFICES ASSUME NEW k \in 1 .. Len(pipe) + n PROVE pipe'[k] = log[r + k]
    BY <1>6, <1>7
  <2>1. CASE k <= Len(pipe)
    <3>1. k \in 1 .. Len(pipe) /\ k \in 1 .. Len(pipe) + n
      BY <1>1, <1>3, <2>1
    <3>2. pipe'[k] = pipe[k]
      BY <1>6, <2>1, <3>1
    <3> QED BY <1>8, <3>1, <3>2
  <2>2. CASE k > Len(pipe)
    <3>1. k - Len(pipe) \in 1 .. n /\ k - Len(pipe) \in 1 .. Len(unsent)
      BY <1>1, <1>3, <2>2
    <3>2. pipe'[k] = piece[k - Len(pipe)]
      <4>1. ~ (k <= Len(pipe)) /\ k \in 1 .. Len(pipe) + n
        BY <1>3, <2>2
      <4> QED BY <1>6, <4>1
    <3>3. piece[k - Len(pipe)] = unsent[k - Len(pipe)]
      BY <1>5, <3>1
    <3>4. unsent[k - Len(pipe)] = log[w + (k - Len(pipe))]
      BY <1>8, <3>1
    <3>5. w + (k - Len(pipe)) = r + k
      BY <1>3, <1>7, <1>9
    <3> QED BY <3>2, <3>4, <3>5, <3>3
  <2> QED BY <1>3, <2>1, <2>2
<1> HIDE DEF size, w, r
<1>12. CASE n = Len(unsent) /\ cut = "never"
  <2> DEFINE more == Len(whole) + 1
  <2>1. PICK again :
            again = [i \in 1 .. more + 1 |->
                        IF i <= more THEN starts[i] ELSE WholeEnd(starts) + HeaderSize + size]
    OBVIOUS
  <2>2. /\ whole' = Append(whole, payload) /\ Len(whole') = more
        /\ \A i \in 1 .. Len(whole) : whole'[i] = whole[i]
        /\ whole'[more] = payload /\ whole' \in Seq(Seq(Int))
    BY <1>1, <1>2, <1>12, AppendProperties DEF WireTypes
  <2>3. more \in Nat /\ more = Len(whole) + 1 /\ Len(unsent') = 0 /\ unsent' = <<>>
    BY <1>1, <1>3, <1>5, <1>12
  <2>4. /\ \A i \in 1 .. more : again[i] = starts[i] /\ again[i] \in Nat
        /\ again[more + 1] = WholeEnd(starts) + HeaderSize + size
        /\ again \in [1 .. more + 1 -> Nat]
    <3>1. \A i \in 1 .. more : starts[i] \in Nat
      BY <1>2, WireSizes
    <3>2. \A i \in 1 .. more : again[i] = starts[i] /\ again[i] \in Nat
      BY <2>1, <2>3, <3>1
    <3>3. more + 1 \in 1 .. more + 1 /\ ~ (more + 1 <= more)
      BY <2>3
    <3>4. again[more + 1] = WholeEnd(starts) + HeaderSize + size
      BY <2>1, <3>3
    <3>5. WholeEnd(starts) + HeaderSize + size \in Nat
      BY <1>3 DEF HeaderSize
    <3>6. \A i \in 1 .. more + 1 : again[i] \in Nat
      BY <2>3, <3>2, <3>4, <3>5
    <3> QED BY <2>1, <3>2, <3>4, <3>6
  <2>5. again[more] = WholeEnd(starts) /\ starts[more] = WholeEnd(starts)
    <3>1. more \in 1 .. more
      BY <2>3
    <3> QED BY <2>4, <3>1 DEF WholeEnd
  <2>6. Len(log) = WholeEnd(starts) + HeaderSize + size /\ PartAt(log, WholeEnd(starts), payload)
    BY <1>2, <1>4, <1>12 DEF TailInv, size
  <2>7. WholeEnd(again)' = Len(log)
    BY <2>2, <2>4, <2>6 DEF WholeEnd
  <2> HIDE DEF more
  <2>8. Spelled(log, again)'
    <3>1. again[1] = 0
      <4>1. 1 \in 1 .. more
        BY <1>3, <2>3
      <4> QED BY <1>2, <2>4, <4>1 DEF Spelled
    <3>2. ASSUME NEW i \in 1 .. Len(whole)
          PROVE  /\ again[i + 1] = again[i] + HeaderSize + Len(whole'[i])
                 /\ again[i + 1] <= Len(log) /\ PartAt(log, again[i], whole'[i])
      <4>1. i \in 1 .. more /\ i + 1 \in 1 .. more
        BY <1>3, <2>3
      <4>2. again[i] = starts[i] /\ again[i + 1] = starts[i + 1] /\ whole'[i] = whole[i]
        BY <2>2, <2>4, <4>1
      <4>3. /\ starts[i + 1] = starts[i] + HeaderSize + Len(whole[i])
            /\ starts[i + 1] <= WholeEnd(starts) /\ PartAt(log, starts[i], whole[i])
        BY <1>2 DEF Spelled
      <4>4. starts[i + 1] \in Nat
        BY <2>4, <4>1, <4>2
      <4> DEFINE x == starts[i + 1]
      <4> HIDE DEF x
      <4>5. x <= Len(log)
        <5>1. x \in Nat /\ x <= WholeEnd(starts)
          BY <4>3, <4>4 DEF x
        <5> QED BY <1>3, <2>6, <5>1 DEF HeaderSize
      <4> QED BY <4>2, <4>3, <4>5 DEF x
    <3>3. /\ again[more + 1] = again[more] + HeaderSize + Len(whole'[more])
          /\ again[more + 1] <= Len(log) /\ PartAt(log, again[more], whole'[more])
      BY <1>3, <2>2, <2>4, <2>5, <2>6 DEF size
    <3>4. ASSUME NEW i \in 1 .. more
          PROVE  /\ again[i + 1] = again[i] + HeaderSize + Len(whole'[i])
                 /\ again[i + 1] <= Len(log) /\ PartAt(log, again[i], whole'[i])
      <4>1. i \in 1 .. Len(whole) \/ i = more
        BY <1>3, <2>3
      <4> QED BY <3>2, <3>3, <4>1
    <3>5. again \in [1 .. Len(whole') + 1 -> Nat]
      BY <2>2, <2>4
    <3>6. ASSUME NEW i \in 1 .. Len(whole')
          PROVE  /\ again[i + 1] = again[i] + HeaderSize + Len(whole'[i])
                 /\ again[i + 1] <= WholeEnd(again)' /\ PartAt(log, again[i], whole[i])'
      <4>1. i \in 1 .. more
        BY <2>2
      <4>2. PartAt(log, again[i], whole'[i]) => PartAt(log, again[i], whole[i])'
        BY DEF PartAt
      <4> QED BY <2>7, <3>4, <4>1, <4>2
    <3>7. WholeEnd(again)' <= Len(log)
      BY <1>3, <2>7
    <3> QED BY <1>3, <3>1, <3>5, <3>6, <3>7 DEF Spelled
  <2>9. TailInv(log, again)'
    BY <1>1, <1>12, <2>3, <2>7 DEF TailInv
  <2>10. PlaceInv(log, again)'
    <3>1. WholeEnd(again)' <= WrittenTo(log)'
      BY <1>3, <1>7, <1>9, <1>12, <2>7 DEF w
    <3> QED BY <1>7, <1>8, <1>10, <1>11, <3>1 DEF PlaceInv
  <2>11. ReaderInv(log, again)'
    <3>1. reader # "ended" /\ reader # "lost" /\ reader = "reads"
      BY <1>2, <1>4, <1>12 DEF ReaderInv, WireTypes
    <3>2. Aligned(log, starts)
      BY <1>2, <1>12, <3>1 DEF ReaderInv
    <3>3. Len(got) <= Len(whole)
      BY <3>2 DEF Aligned
    <3>4. Len(got) <= Len(whole') /\ \A i \in 1 .. Len(got) : whole'[i] = whole[i]
      BY <1>3, <2>2, <2>3, <3>3
    <3>5. \A i \in 1 .. Len(got) + 1 : again[i] = starts[i]
      BY <1>3, <2>3, <2>4, <3>3
    <3>6. Aligned(log, again)'
      <4>1. UNCHANGED <<part, needed, filled, got>> /\ ReadTo(log)' = ReadTo(log) /\ log \in Seq(Int)
        BY <1>1, <1>3, <1>7
      <4>2. \A k \in 1 .. ReadTo(log) : log[k] = log[k]
        OBVIOUS
      <4>3. WireTypes /\ Spelled(log, starts)
        BY <1>2
      <4>4. Len(got) <= Len(whole')
        BY <3>4
      <4>5. \A i \in 1 .. Len(got) : whole'[i] = whole[i]
        BY <3>4
      <4> QED BY <3>2, <3>5, <4>1, <4>2, <4>3, <4>4, <4>5, AlignedAgain
    <3> QED BY <1>1, <1>12, <3>1, <3>4, <3>6 DEF ReaderInv
  <2>12. WireTypes'
    <3>1. ASSUME NEW i \in 1 .. Len(whole') PROVE Len(whole'[i]) <= MaxFrameBytes
      <4>1. i \in 1 .. Len(whole) \/ i = more
        BY <1>3, <2>2, <2>3
      <4> QED BY <1>2, <1>4, <2>2, <4>1 DEF WireTypes, size
    <3> QED BY <1>1, <1>2, <1>4, <1>5, <1>6, <2>2, <2>3, <3>1 DEF WireTypes
  <2> QED BY <2>8, <2>9, <2>10, <2>11, <2>12 DEF WireInv, Carried
<1>13. CASE ~ (n = Len(unsent) /\ cut = "never")
  <2>1. whole' = whole
    BY <1>1, <1>13
  <2>2. WholeEnd(starts)' = WholeEnd(starts)
    BY <2>1 DEF WholeEnd
  <2>3. Spelled(log, starts)'
    BY <1>2, <2>1, <2>2 DEF Spelled
  <2>4. TailInv(log, starts)'
    <3>1. cut = "never" => unsent' # <<>>
      BY <1>1, <1>3, <1>5, <1>13
    <3> QED BY <1>1, <1>2, <1>4, <2>2, <3>1 DEF TailInv
  <2>5. PlaceInv(log, starts)'
    <3>1. WholeEnd(starts)' <= WrittenTo(log)'
      BY <1>3, <1>7, <1>8, <1>9, <2>2 DEF w
    <3> QED BY <1>7, <1>8, <1>10, <1>11, <3>1 DEF PlaceInv
  <2>6. ReaderInv(log, starts)'
    <3>1. Aligned(log, starts) => Aligned(log, starts)'
      <4> SUFFICES ASSUME Aligned(log, starts) PROVE Aligned(log, starts)'
        OBVIOUS
      <4>1. Len(got) <= Len(whole') /\ \A i \in 1 .. Len(got) : whole'[i] = whole[i]
        BY <2>1 DEF Aligned
      <4> QED BY <1>1, <1>2, <1>3, <1>7, <4>1, AlignedAgain
    <3> QED BY <1>1, <1>2, <2>1, <3>1 DEF ReaderInv, Beyond
  <2>7. WireTypes'
    BY <1>1, <1>2, <1>4, <1>5, <1>6, <2>1 DEF WireTypes
  <2> QED BY <2>3, <2>4, <2>5, <2>6, <2>7 DEF WireInv, Carried
<1> QED BY <1>12, <1>13

(* What was still to be written is given up. *)
LEMMA CutCarries ==
  ASSUME WireInv, sender, sender' \in BOOLEAN, unsent' = <<>>,
         UNCHANGED <<payload, pipe, part, needed, filled, got, reader, whole>>,
         \/ ~ Cuts /\ cut' = cut
         \/ cut' = "within"
         \/ Cuts /\ cut = "never" /\ cut' = "atEnd" /\ ~ sender'
  PROVE  WireInv'
<1> PICK log, starts : Carried(log, starts)
  BY DEF WireInv
<1> DEFINE size == Len(payload)
           w == WrittenTo(log)
           e == WholeEnd(starts)
           u == Len(unsent)
           all == Len(log)
<1> PICK short : short = SubSeq(log, 1, w)
  OBVIOUS
<1>1. WireTypes /\ Spelled(log, starts) /\ TailInv(log, starts) /\ PlaceInv(log, starts)
      /\ ReaderInv(log, starts)
  BY DEF WireInv, Carried
<1>2. /\ Len(log) \in Nat /\ Len(whole) \in Nat /\ Len(got) \in Nat /\ Len(pipe) \in Nat
      /\ Len(unsent) \in Nat /\ size \in Nat /\ WholeEnd(starts) \in Nat /\ log \in Seq(Int)
  BY <1>1, WireSizes DEF Spelled
<1>3. w = Len(log) - Len(unsent) /\ ReadTo(log) = w - Len(pipe) /\ w \in Int /\ ReadTo(log) \in Int
  BY <1>2 DEF WrittenTo, ReadTo
<1>4. WholeEnd(starts) <= w /\ 0 <= ReadTo(log) /\ \A k \in 1 .. Len(pipe) : pipe[k] = log[ReadTo(log) + k]
  BY <1>1 DEF PlaceInv
<1> HIDE DEF w
<1>5. w \in 0 .. Len(log)
  BY <1>2, <1>3, <1>4
<1>6. short \in Seq(Int) /\ Len(short) = w /\ \A k \in 1 .. w : short[k] = log[k]
  BY <1>2, <1>5, HeadOfSeq
<1>7. Len(unsent') = 0 /\ WrittenTo(short)' = w /\ ReadTo(short)' = ReadTo(log) /\ WholeEnd(starts)' = WholeEnd(starts)
  BY <1>2, <1>3, <1>6 DEF WrittenTo, ReadTo, WholeEnd
<1>8. Len(Frame(payload)) = HeaderSize + size
  BY <1>1, FrameParts DEF WireTypes
<1> HIDE DEF size, e, u, all
<1>9. /\ all \in Nat /\ u \in Nat /\ e \in Nat /\ size \in Nat /\ w \in Nat
      /\ w = all - u /\ e <= w
  BY <1>2, <1>3, <1>4, <1>5 DEF e, u, all
<1>10. cut # "atEnd"
  BY <1>1 DEF WireTypes
<1>11. unsent # <<>> => Len(unsent) > 0
  BY <1>1 DEF WireTypes
<1>12. Spelled(short, starts)'
  <2>1. \A k \in 1 .. WholeEnd(starts) : short[k] = log[k]
    BY <1>2, <1>3, <1>4, <1>6
  <2>2. Spelled(short, starts)
    BY <1>1, <1>4, <1>6, <2>1, SpelledAgain
  <2> QED BY <1>7, <2>2 DEF Spelled
<1>13. TailInv(short, starts)'
  <2>1. ASSUME cut' = "never" PROVE w = WholeEnd(starts)
    <3>1. cut = "never" /\ ~ Cuts
      BY <2>1
    <3>2. CASE unsent = <<>>
      <4>1. Len(log) = WholeEnd(starts) /\ Len(unsent) = 0
        BY <1>1, <3>1, <3>2 DEF TailInv
      <4> QED BY <1>2, <1>3, <4>1
    <3>3. CASE unsent # <<>>
      <4>1. Len(log) = WholeEnd(starts) + HeaderSize + size
        BY <1>1, <3>1, <3>3 DEF TailInv, size
      <4>2. Len(unsent) >= HeaderSize + size
        BY <1>2, <1>8, <3>1, <3>3 DEF Cuts, HeaderSize
      <4>3. all = e + 4 + size /\ u >= 4 + size
        BY <4>1, <4>2 DEF HeaderSize, all, e, u
      <4>4. w = e
        BY <1>9, <4>3
      <4> QED BY <4>4 DEF e
    <3> QED BY <3>2, <3>3
  <2>2. ASSUME cut' = "atEnd"
        PROVE  /\ WholeEnd(starts) < w /\ w < WholeEnd(starts) + HeaderSize + size
               /\ size <= MaxFrameBytes /\ PartAt(short, WholeEnd(starts), payload)
    <3>1. cut = "never" /\ Cuts /\ unsent # <<>>
      BY <1>10, <2>2 DEF Cuts
    <3>2. Len(log) = WholeEnd(starts) + HeaderSize + size /\ PartAt(log, WholeEnd(starts), payload)
      BY <1>1, <3>1 DEF TailInv, size
    <3>3. 0 < Len(unsent) /\ Len(unsent) < HeaderSize + size
      BY <1>8, <1>11, <3>1 DEF Cuts
    <3>4. WholeEnd(starts) < w /\ w < WholeEnd(starts) + HeaderSize + size
      <4>1. all = e + 4 + size /\ 0 < u /\ u < 4 + size
        BY <3>2, <3>3 DEF HeaderSize, all, e, u
      <4>2. e < w /\ w < e + 4 + size
        BY <1>9, <4>1
      <4> QED BY <4>2 DEF HeaderSize, e
    <3>5. PartAt(short, WholeEnd(starts), payload)
      <4> SUFFICES ASSUME NEW k \in 1 .. HeaderSize + Len(payload), WholeEnd(starts) + k <= Len(short)
                   PROVE  short[WholeEnd(starts) + k] = Frame(payload)[k]
        BY DEF PartAt
      <4>1. k \in Nat /\ k > 0
        BY <1>2 DEF HeaderSize, size
      <4>2. WholeEnd(starts) + k \in 1 .. w /\ WholeEnd(starts) + k <= Len(log)
        <5>1. e + k <= w
          BY <1>6 DEF e
        <5>2. e + k \in 1 .. w /\ e + k <= all
          BY <1>9, <4>1, <5>1
        <5> QED BY <5>2 DEF e, all
      <4> QED BY <1>6, <3>2, <4>2 DEF PartAt
    <3>6. size <= MaxFrameBytes
      BY <1>1, <3>1 DEF WireTypes, size
    <3> QED BY <3>4, <3>5, <3>6
  <2>3. PartAt(short, WholeEnd(starts), payload) => PartAt(short, WholeEnd(starts), payload)'
    BY <1>7 DEF PartAt
  <2> QED BY <1>6, <1>7, <2>1, <2>2, <2>3 DEF TailInv, size
<1>14. PlaceInv(short, starts)'
  <2>1. ASSUME NEW k \in 1 .. Len(pipe) PROVE pipe[k] = short[ReadTo(log) + k]
    <3>1. ReadTo(log) + k \in 1 .. w
      BY <1>2, <1>3, <1>4
    <3> QED BY <1>4, <1>6, <3>1
  <2>2. WholeEnd(starts)' <= WrittenTo(short)' /\ 0 <= ReadTo(short)'
    BY <1>4, <1>7
  <2>3. \A k \in 1 .. Len(unsent') : unsent'[k] = short[WrittenTo(short)' + k]
    BY <1>7
  <2>4. \A k \in 1 .. Len(pipe') : pipe'[k] = short[ReadTo(short)' + k]
    BY <1>7, <2>1
  <2> QED BY <2>2, <2>3, <2>4 DEF PlaceInv
<1>15. ReaderInv(short, starts)'
  <2>1. reader # "ended"
    BY <1>1 DEF ReaderInv
  <2>2. ASSUME Aligned(log, starts) PROVE Aligned(short, starts)'
    <3>1. \A k \in 1 .. ReadTo(log) : short[k] = log[k]
      BY <1>2, <1>3, <1>6
    <3>2. Len(got) <= Len(whole') /\ \A i \in 1 .. Len(got) : whole'[i] = whole[i]
      BY <2>2 DEF Aligned
    <3>3. /\ WireTypes /\ Spelled(log, starts) /\ UNCHANGED <<part, needed, filled, got>>
          /\ short \in Seq(Int) /\ ReadTo(short)' = ReadTo(log)
      BY <1>1, <1>6, <1>7
    <3> QED BY <2>2, <3>1, <3>2, <3>3, AlignedAgain
  <2>3. Beyond => Beyond'
    BY DEF Beyond
  <2>4. (cut = "within" => cut' = "within") /\ (cut # "never" => cut' # "never")
    BY <1>10
  <2> QED BY <1>1, <2>1, <2>2, <2>3, <2>4 DEF ReaderInv
<1>16. WireTypes'
  BY <1>1, <1>10 DEF WireTypes
<1> QED BY <1>12, <1>13, <1>14, <1>15, <1>16 DEF WireInv, Carried

(* A writer that is cut off, or closes, keeps the invariant of the wire.   *)
LEMMA GiveUpCarries ==
  ASSUME WireInv, GiveUp \/ CloseWriter
  PROVE  WireInv'
<1>1. WireTypes
  BY DEF WireInv
<1>2. /\ unsent' = <<>> /\ UNCHANGED <<payload, pipe, part, needed, filled, got, reader, whole>>
  BY DEF GiveUp, CloseWriter, readVars
<1>3. CASE GiveUp
  <2>1. sender /\ sender' = sender
    BY <1>1, <1>3 DEF GiveUp, WireTypes
  <2>2. (~ Cuts /\ cut' = cut) \/ cut' = "within"
    BY <1>3 DEF GiveUp
  <2> QED BY <1>1, <1>2, <2>1, <2>2, CutCarries
<1>4. CASE CloseWriter
  <2>1. sender /\ sender' = FALSE /\ cut # "atEnd"
    BY <1>1, <1>4 DEF CloseWriter, WireTypes
  <2>2. \/ ~ Cuts /\ cut' = cut
        \/ cut' = "within"
        \/ Cuts /\ cut = "never" /\ cut' = "atEnd" /\ ~ sender'
    BY <1>1, <1>4, <2>1 DEF CloseWriter, WireTypes
  <2> QED BY <1>1, <1>2, <2>1, <2>2, CutCarries
<1> QED BY <1>3, <1>4

(* What a read does to the reader: the bytes it has then, and what follows *)
(* from their number.                                                      *)
Has(n) == filled \o SubSeq(pipe, 1, n)

(* What the reader has after a piece: what it had, and the piece behind    *)
(* it.                                                                     *)
LEMMA HasBytes ==
  ASSUME WireTypes, NEW n \in 1 .. HeaderSize + MaxFrameBytes, n <= Len(pipe)
  PROVE  /\ Has(n) \in Seq(Int) /\ Len(Has(n)) = Len(filled) + n
         /\ \A k \in 1 .. Len(filled) : Has(n)[k] = filled[k]
         /\ \A k \in 1 .. n : Has(n)[Len(filled) + k] = pipe[k]
<1> DEFINE heading == SubSeq(pipe, 1, n)
           f == Len(filled)
<1>1. Len(pipe) \in Nat /\ f \in Nat /\ n \in Nat /\ n \in 0 .. Len(pipe)
  BY DEF WireTypes
<1>2. heading \in Seq(Int) /\ Len(heading) = n /\ \A k \in 1 .. n : heading[k] = pipe[k]
  BY <1>1, HeadOfSeq DEF WireTypes
<1> HIDE DEF heading
<1>3. /\ filled \o heading \in Seq(Int) /\ Len(filled \o heading) = f + n
      /\ \A k \in 1 .. f + n :
            (filled \o heading)[k] = IF k <= f THEN filled[k] ELSE heading[k - f]
  <2> DEFINE all == filled \o heading
  <2>1. filled \in Seq(Int)
    BY DEF WireTypes
  <2>2. /\ all \in Seq(Int) /\ Len(all) = Len(filled) + Len(heading)
        /\ \A k \in 1 .. Len(filled) + Len(heading) :
              all[k] = IF k <= Len(filled) THEN filled[k] ELSE heading[k - Len(filled)]
    BY <1>2, <2>1, ConcatProperties
  <2> HIDE DEF all
  <2>3. Len(heading) = n
    BY <1>2
  <2>4. /\ all \in Seq(Int) /\ Len(all) = f + n
        /\ \A k \in 1 .. f + n : all[k] = IF k <= f THEN filled[k] ELSE heading[k - f]
    BY <2>2, <2>3
  <2> QED BY <2>4 DEF all
<1> HIDE DEF f
<1>4. ASSUME NEW k \in 1 .. f PROVE (filled \o heading)[k] = filled[k]
  BY <1>1, <1>3
<1>5. ASSUME NEW k \in 1 .. n PROVE (filled \o heading)[f + k] = pipe[k]
  <2> DEFINE j == f + k
  <2>1. j \in 1 .. f + n /\ ~ (j <= f) /\ j - f = k
    BY <1>1
  <2> HIDE DEF j
  <2>2. (filled \o heading)[j] = heading[j - f]
    BY <1>3, <2>1
  <2>3. (filled \o heading)[j] = pipe[k]
    BY <1>2, <2>1, <2>2
  <2> QED BY <2>3 DEF j
<1> QED BY <1>3, <1>4, <1>5 DEF Has, heading, f

(* What a piece does to the reader: its part goes on, or a payload is      *)
(* read, or a header that announces too much, nothing or a payload.        *)
LEMMA FillMoves ==
  ASSUME WireTypes, NEW n \in 1 .. HeaderSize + MaxFrameBytes, Fill(n)
  PROVE  /\ UNCHANGED <<payload, unsent, sender, whole, cut>>
         /\ reader = "reads" /\ n <= Len(pipe) /\ n <= needed - Len(filled)
         /\ pipe' = SubSeq(pipe, n + 1, Len(pipe))
         /\ \/ /\ Len(Has(n)) < needed /\ filled' = Has(n)
               /\ UNCHANGED <<part, needed, got, reader>>
            \/ /\ ~ (Len(Has(n)) < needed) /\ part = "payload"
               /\ got' = Append(got, Has(n)) /\ reader' = reader
               /\ part' = "header" /\ needed' = HeaderSize /\ filled' = <<>>
            \/ /\ ~ (Len(Has(n)) < needed) /\ part = "header"
               /\ \/ /\ Number(Has(n)) > MaxFrameBytes /\ reader' = "lost" /\ filled' = Has(n)
                     /\ UNCHANGED <<part, needed, got>>
                  \/ /\ Number(Has(n)) = 0
                     /\ got' = Append(got, <<>>) /\ reader' = reader
                     /\ part' = "header" /\ needed' = HeaderSize /\ filled' = <<>>
                  \/ /\ ~ (Number(Has(n)) > MaxFrameBytes) /\ Number(Has(n)) # 0
                     /\ part' = "payload" /\ needed' = Number(Has(n)) /\ filled' = <<>>
                     /\ UNCHANGED <<got, reader>>
<1>1. part \in {"header", "payload"}
  BY DEF WireTypes
<1>2. /\ UNCHANGED <<payload, unsent, sender, whole, cut>>
      /\ reader = "reads" /\ n <= Len(pipe) /\ n <= needed - Len(filled)
      /\ pipe' = SubSeq(pipe, n + 1, Len(pipe))
      /\ IF Len(Has(n)) < needed
         THEN filled' = Has(n) /\ UNCHANGED <<part, needed, got, reader>>
         ELSE Completed(Has(n))
  BY DEF Fill, Has
<1>3. ASSUME Completed(Has(n)), part = "payload"
      PROVE  /\ got' = Append(got, Has(n)) /\ reader' = reader
             /\ part' = "header" /\ needed' = HeaderSize /\ filled' = <<>>
  BY <1>3 DEF Completed, Expect
<1>4. ASSUME Completed(Has(n)), part = "header"
      PROVE  \/ /\ Number(Has(n)) > MaxFrameBytes /\ reader' = "lost" /\ filled' = Has(n)
                /\ UNCHANGED <<part, needed, got>>
             \/ /\ Number(Has(n)) = 0
                /\ got' = Append(got, <<>>) /\ reader' = reader
                /\ part' = "header" /\ needed' = HeaderSize /\ filled' = <<>>
             \/ /\ ~ (Number(Has(n)) > MaxFrameBytes) /\ Number(Has(n)) # 0
                /\ part' = "payload" /\ needed' = Number(Has(n)) /\ filled' = <<>>
                /\ UNCHANGED <<got, reader>>
  <2> DEFINE m == Number(Has(n))
  <2> HIDE DEF m
  <2>1. MaxFrameBytes \in Nat
    BY FramingAssumption
  <2>2. CASE m > MaxFrameBytes
    <3>1. m # 0
      BY <2>1, <2>2
    <3> QED BY <1>4, <2>2, <3>1 DEF Completed, m
  <2>3. CASE ~ (m > MaxFrameBytes) /\ m = 0
    BY <1>4, <2>3 DEF Completed, Expect, m
  <2>4. CASE ~ (m > MaxFrameBytes) /\ m # 0
    BY <1>4, <2>4 DEF Completed, Expect, m
  <2> QED BY <2>2, <2>3, <2>4
<1> QED BY <1>1, <1>2, <1>3, <1>4

(* A piece that is read keeps the types, and takes nothing back of what    *)
(* was read.                                                               *)
LEMMA TypesKept ==
  ASSUME WireTypes, NEW n \in 1 .. HeaderSize + MaxFrameBytes, Fill(n)
  PROVE  /\ WireTypes' /\ Len(pipe') = Len(pipe) - n
         /\ \A k \in 1 .. Len(pipe) - n : pipe'[k] = pipe[n + k]
         /\ Len(got) <= Len(got') /\ \A i \in 1 .. Len(got) : got'[i] = got[i]
<1>1. n <= Len(pipe) /\ pipe' = SubSeq(pipe, n + 1, Len(pipe)) /\ reader = "reads"
      /\ UNCHANGED <<payload, unsent, sender, whole, cut>>
  BY FillMoves
<1>2. pipe \in Seq(Int) /\ Len(pipe) \in Nat /\ n \in 0 .. Len(pipe) /\ Len(got) \in Nat
  BY <1>1 DEF WireTypes
<1>3. /\ pipe' \in Seq(Int) /\ Len(pipe') = Len(pipe) - n
      /\ \A k \in 1 .. Len(pipe) - n : pipe'[k] = pipe[n + k]
  BY <1>1, <1>2, TailOfSeq
<1>4. Has(n) \in Seq(Int) /\ <<>> \in Seq(Int)
  BY <1>1, HasBytes
<1>5. /\ filled' = Has(n) \/ filled' = <<>>
      /\ part' \in {"header", "payload"} /\ reader' \in {"reads", "lost"}
      /\ got' = got \/ got' = Append(got, Has(n)) \/ got' = Append(got, <<>>)
  BY FillMoves DEF WireTypes
<1>6. filled' \in Seq(Int)
  BY <1>4, <1>5
<1>7. got' \in Seq(Seq(Int)) /\ Len(got) <= Len(got') /\ \A i \in 1 .. Len(got) : got'[i] = got[i]
  <2>1. got \in Seq(Seq(Int))
    BY DEF WireTypes
  <2>2. CASE got' = got
    BY <1>2, <2>1, <2>2
  <2>3. ASSUME NEW p \in Seq(Int), got' = Append(got, p)
        PROVE  /\ got' \in Seq(Seq(Int)) /\ Len(got) <= Len(got')
               /\ \A i \in 1 .. Len(got) : got'[i] = got[i]
    BY <1>2, <2>1, <2>3, AppendProperties
  <2> QED BY <1>4, <1>5, <2>2, <2>3
<1>8. WireTypes'
  BY <1>1, <1>3, <1>5, <1>6, <1>7 DEF WireTypes
<1> QED BY <1>3, <1>7, <1>8

(* A piece that is read moves the reader's place by as much, never beyond  *)
(* what was written.                                                       *)
LEMMA FillPlaces ==
  ASSUME WireTypes, NEW n \in 1 .. HeaderSize + MaxFrameBytes, Fill(n),
         NEW log, NEW starts, Spelled(log, starts), TailInv(log, starts), PlaceInv(log, starts)
  PROVE  /\ Spelled(log, starts)' /\ TailInv(log, starts)' /\ PlaceInv(log, starts)'
         /\ ReadTo(log)' = ReadTo(log) + n /\ ReadTo(log)' <= WrittenTo(log) /\ ReadTo(log)' <= Len(log)
         /\ ReadTo(log) \in Nat
<1>1. n <= Len(pipe) /\ UNCHANGED <<payload, unsent, sender, whole, cut>>
  BY FillMoves
<1>2. /\ Len(pipe') = Len(pipe) - n /\ \A k \in 1 .. Len(pipe) - n : pipe'[k] = pipe[n + k]
  BY TypesKept
<1>3. Len(log) \in Nat /\ Len(pipe) \in Nat /\ Len(unsent) \in Nat /\ n \in Nat
  BY WireSizes DEF HeaderSize
<1>4. /\ WrittenTo(log)' = WrittenTo(log) /\ WrittenTo(log) = Len(log) - Len(unsent)
      /\ ReadTo(log) = WrittenTo(log) - Len(pipe)
      /\ ReadTo(log)' = WrittenTo(log) - Len(pipe')
  BY <1>1 DEF WrittenTo, ReadTo
<1>5. 0 <= ReadTo(log) /\ \A k \in 1 .. Len(pipe) : pipe[k] = log[ReadTo(log) + k]
  BY DEF PlaceInv
<1> DEFINE r == ReadTo(log)
           w == WrittenTo(log)
           z == Len(pipe)
<1>6. r \in Int /\ w \in Int
  BY <1>3, <1>4
<1>7. ReadTo(log)' = r + n /\ r = w - z /\ r + n <= w /\ w <= Len(log) /\ 0 <= r + n
  BY <1>1, <1>2, <1>3, <1>4, <1>5, <1>6
<1> HIDE DEF r, w, z
<1>8. ASSUME NEW k \in 1 .. z - n PROVE pipe'[k] = log[r + n + k]
  <2> DEFINE j == n + k
  <2>1. j \in 1 .. z /\ r + n + k = r + j
    BY <1>1, <1>3, <1>6 DEF z
  <2>2. pipe'[k] = pipe[j]
    BY <1>2 DEF z
  <2> HIDE DEF j
  <2>3. pipe[j] = log[r + j]
    BY <1>5, <2>1 DEF r, z
  <2> QED BY <2>1, <2>2, <2>3
<1>9. Spelled(log, starts)' /\ TailInv(log, starts)' /\ WholeEnd(starts)' = WholeEnd(starts)
  BY <1>1 DEF Spelled, TailInv, WholeEnd
<1>10. PlaceInv(log, starts)'
  <2>1. WholeEnd(starts)' <= WrittenTo(log)' /\ 0 <= ReadTo(log)'
    BY <1>4, <1>7, <1>9 DEF PlaceInv
  <2>2. \A k \in 1 .. Len(unsent') : unsent'[k] = log[WrittenTo(log)' + k]
    BY <1>1, <1>4 DEF PlaceInv
  <2>3. \A k \in 1 .. Len(pipe') : pipe'[k] = log[ReadTo(log)' + k]
    BY <1>2, <1>7, <1>8 DEF z
  <2> QED BY <2>1, <2>2, <2>3 DEF PlaceInv
<1>11. ReadTo(log)' <= Len(log) /\ ReadTo(log)' <= w /\ r \in Nat
  BY <1>3, <1>5, <1>6, <1>7 DEF r
<1> QED BY <1>7, <1>9, <1>10, <1>11 DEF r, w

(* The frame a reader in step is in: one of the whole ones, or the one     *)
(* behind them, the last byte of which is not in the pipe.                 *)
LEMMA FrameUnderWay ==
  ASSUME WireTypes, NEW log, NEW starts,
         Spelled(log, starts), TailInv(log, starts), PlaceInv(log, starts),
         Len(got) <= Len(whole), Len(got) < Len(whole) \/ cut # "within",
         NEW upto \in Nat, upto <= WrittenTo(log), starts[Len(got) + 1] < upto
  PROVE  \E p \in Seq(Int) :
            /\ Len(p) <= MaxFrameBytes /\ PartAt(log, starts[Len(got) + 1], p)
            /\ \/ /\ Len(got) < Len(whole) /\ p = whole[Len(got) + 1]
                  /\ starts[Len(got) + 2] = starts[Len(got) + 1] + HeaderSize + Len(p)
               \/ upto < starts[Len(got) + 1] + HeaderSize + Len(p)
<1>1. /\ Len(log) \in Nat /\ Len(whole) \in Nat /\ Len(got) \in Nat /\ Len(unsent) \in Nat
      /\ Len(payload) \in Nat /\ WholeEnd(starts) \in Nat
  BY WireSizes
<1>2. CASE Len(got) < Len(whole)
  <2> DEFINE i == Len(got) + 1
  <2>1. i \in 1 .. Len(whole) /\ Len(got) + 2 = i + 1
    BY <1>1, <1>2
  <2> HIDE DEF i
  <2>2. whole[i] \in Seq(Int) /\ Len(whole[i]) <= MaxFrameBytes
    BY <2>1, ElementOfSeq DEF WireTypes
  <2>3. starts[i + 1] = starts[i] + HeaderSize + Len(whole[i]) /\ PartAt(log, starts[i], whole[i])
    BY <2>1 DEF Spelled
  <2> QED BY <1>2, <2>1, <2>2, <2>3 DEF i
<1>3. CASE Len(got) = Len(whole)
  <2> DEFINE e == WholeEnd(starts)
             all == Len(log)
             u == Len(unsent)
             size == Len(payload)
  <2>1. starts[Len(got) + 1] = e /\ cut # "within"
    BY <1>1, <1>3 DEF WholeEnd
  <2>2. upto <= all - u
    BY DEF WrittenTo
  <2> HIDE DEF e, all, u, size
  <2>3. /\ e \in Nat /\ all \in Nat /\ u \in Nat /\ size \in Nat /\ e < upto
    BY <1>1, <2>1 DEF e, all, u, size
  <2>4. unsent = <<>> => u = 0
    BY DEF u
  <2>5. unsent # <<>> => u > 0
    BY DEF WireTypes, u
  <2>6. CASE cut = "never"
    <3>1. unsent # <<>>
      <4> SUFFICES ASSUME unsent = <<>> PROVE FALSE
        OBVIOUS
      <4>1. all = e
        BY <2>6 DEF TailInv, all, e
      <4> QED BY <2>2, <2>3, <2>4, <4>1
    <3>2. all = e + 4 + size /\ PartAt(log, e, payload)
      BY <2>6, <3>1 DEF TailInv, HeaderSize, all, e, size
    <3>3. upto < e + 4 + size
      BY <2>2, <2>3, <2>5, <3>1, <3>2
    <3>4. payload \in Seq(Int) /\ Len(payload) <= MaxFrameBytes
      BY <3>1 DEF WireTypes
    <3> QED BY <2>1, <3>2, <3>3, <3>4 DEF HeaderSize, size
  <2>7. CASE cut = "atEnd"
    <3>1. /\ all < e + 4 + size /\ Len(payload) <= MaxFrameBytes /\ PartAt(log, e, payload)
      BY <2>7 DEF TailInv, HeaderSize, all, e, size
    <3>2. upto < e + 4 + size
      BY <2>2, <2>3, <3>1
    <3>3. payload \in Seq(Int)
      BY DEF WireTypes
    <3> QED BY <2>1, <3>1, <3>2, <3>3 DEF HeaderSize, size
  <2> QED BY <2>1, <2>6, <2>7 DEF WireTypes
<1> QED BY <1>1, <1>2, <1>3

(* Once a frame was cut, nothing is claimed of a reader that is past it.   *)
LEMMA FillBeyond ==
  ASSUME WireTypes, NEW n \in 1 .. HeaderSize + MaxFrameBytes, Fill(n),
         cut = "within", Beyond, NEW log, NEW starts
  PROVE  ReaderInv(log, starts)'
<1>1. Len(got) <= Len(got') /\ \A i \in 1 .. Len(got) : got'[i] = got[i]
  BY TypesKept
<1>2. whole' = whole /\ cut' = cut /\ reader' \in {"reads", "lost"}
  BY FillMoves
<1>3. Len(got) \in Nat /\ Len(whole) \in Nat /\ Len(got') \in Nat
  <2>1. WireTypes'
    BY TypesKept
  <2> QED BY <2>1 DEF WireTypes
<1>4. Beyond'
  <2>1. Len(whole) <= Len(got')
    BY <1>1, <1>3 DEF Beyond
  <2>2. ASSUME NEW i \in 1 .. Len(whole) PROVE got'[i] = whole[i]
    <3>1. i \in 1 .. Len(got)
      BY <1>3 DEF Beyond
    <3> QED BY <1>1, <3>1 DEF Beyond
  <2> QED BY <1>2, <2>1, <2>2 DEF Beyond
<1> QED BY <1>2, <1>4 DEF ReaderInv

(* Four bytes read where a frame starts spell the length of its payload.   *)
LEMMA HeaderRead ==
  ASSUME NEW log \in Seq(Int), NEW start \in Nat, NEW p \in Seq(Int), PartAt(log, start, p),
         start + 4 <= Len(log), NEW b \in [1 .. 4 -> Int],
         \A k \in 1 .. 4 : b[k] = log[start + k]
  PROVE  Number(b) = Len(p)
<1>1. Len(p) \in Nat
  <2>1. p \in Seq(Int)
    OBVIOUS
  <2> QED BY <2>1
<1>2. Len(log) \in Nat
  <2>1. log \in Seq(Int)
    OBVIOUS
  <2> QED BY <2>1
<1>3. /\ \A k \in 1 .. 4 : Frame(p)[k] = Header(Len(p))[k]
      /\ Header(Len(p)) \in [1 .. 4 -> Int] /\ Number(Header(Len(p))) = Len(p)
  BY <1>1, FrameParts, HeaderNumber DEF HeaderSize
<1>4. \A k \in 1 .. 4 + Len(p) : start + k <= Len(log) => log[start + k] = Frame(p)[k]
  BY DEF PartAt, HeaderSize
<1> DEFINE size == Len(p)
           all == Len(log)
           h == Header(Len(p))
<1>5. size \in Nat /\ all \in Nat /\ start \in Nat /\ start + 4 <= all
  BY <1>1, <1>2
<1>6. h \in [1 .. 4 -> Int]
  BY <1>3
<1>7. ASSUME NEW k \in 1 .. 4 PROVE b[k] = h[k]
  <2> HIDE DEF size, all
  <2>1. k \in 1 .. 4 + size /\ start + k <= all
    BY <1>5
  <2>2. log[start + k] = Frame(p)[k]
    BY <1>4, <2>1 DEF size, all
  <2> QED BY <1>3, <2>2
<1> HIDE DEF h
<1>8. b = h
  <2>1. b \in [1 .. 4 -> Int]
    OBVIOUS
  <2>2. b = [k \in 1 .. 4 |-> b[k]] /\ h = [k \in 1 .. 4 |-> h[k]]
    BY <1>6, <2>1
  <2> QED BY <1>7, <2>2
<1> QED BY <1>3, <1>8 DEF h

(* A reader in step stays in step, or has got all that is whole. *)
LEMMA FillAligned ==
  ASSUME WireTypes, NEW n \in 1 .. HeaderSize + MaxFrameBytes, Fill(n),
         NEW log, NEW starts, Spelled(log, starts), TailInv(log, starts), PlaceInv(log, starts),
         Aligned(log, starts)
  PROVE  ReaderInv(log, starts)'
<1> DEFINE g == Len(got)
           start == starts[g + 1]
           base == Base(starts)
           f == Len(filled)
           r == ReadTo(log)
           bytes == Has(n)
<1>1. /\ UNCHANGED <<payload, unsent, sender, whole, cut>> /\ reader = "reads"
      /\ n <= Len(pipe) /\ n <= needed - f
  BY FillMoves
<1>2. r \in Nat /\ ReadTo(log)' = r + n /\ r + n <= WrittenTo(log) /\ r + n <= Len(log)
  BY FillPlaces
<1>3. /\ Len(log) \in Nat /\ Len(whole) \in Nat /\ g \in Nat /\ f \in Nat /\ Len(pipe) \in Nat
      /\ log \in Seq(Int) /\ n \in Nat /\ n > 0
  BY WireSizes DEF Spelled, HeaderSize
<1>4. g <= Len(whole) /\ \A i \in 1 .. g : got[i] = whole[i]
  BY DEF Aligned
<1>5. start \in Nat
  <2>1. g + 1 \in 1 .. Len(whole) + 1
    BY <1>3, <1>4
  <2> QED BY <2>1, WireSizes
<1>6. base = start + (IF part = "payload" THEN HeaderSize ELSE 0) /\ base \in Nat
  BY <1>5 DEF Base, HeaderSize
<1>7. r = base + f /\ \A k \in 1 .. f : filled[k] = log[base + k]
  BY DEF Aligned
<1>8. /\ bytes \in Seq(Int) /\ Len(bytes) = f + n /\ \A k \in 1 .. f : bytes[k] = filled[k]
      /\ \A k \in 1 .. n : bytes[f + k] = pipe[k]
  BY <1>1, HasBytes
<1>9. \A k \in 1 .. Len(pipe) : pipe[k] = log[r + k]
  BY DEF PlaceInv
<1> HIDE DEF start, base, f, r, bytes
<1>10. f \in Nat /\ n \in Nat /\ n > 0 /\ start \in Nat /\ r \in Nat /\ base \in Nat
  BY <1>2, <1>3, <1>5, <1>6 DEF f, r
<1>11. \A k \in 1 .. f + n : bytes[k] = log[base + k]
  <2> SUFFICES ASSUME NEW k \in 1 .. f + n PROVE bytes[k] = log[base + k]
    OBVIOUS
  <2>1. CASE k <= f
    <3>1. k \in 1 .. f
      BY <1>3, <2>1 DEF f
    <3> QED BY <1>7, <1>8, <3>1
  <2>2. CASE k > f
    <3> DEFINE j == k - f
    <3>1. j \in 1 .. n /\ k = f + j
      BY <1>10, <2>2
    <3>2. r + j = base + k /\ j \in 1 .. Len(pipe)
      BY <1>1, <1>3, <1>7, <1>10, <3>1
    <3> HIDE DEF j
    <3> QED BY <1>8, <1>9, <3>1, <3>2
  <2> QED BY <1>3, <2>1, <2>2 DEF f
<1>12. WireTypes' /\ part \in {"header", "payload"} /\ cut \in {"never", "atEnd", "within"}
  BY TypesKept DEF WireTypes
<1>13. ASSUME Aligned(log, starts)', reader' = "reads"
       PROVE  ReaderInv(log, starts)'
  BY <1>13 DEF ReaderInv, Aligned
<1>14. CASE Len(bytes) < needed
  <2>1. filled' = bytes /\ UNCHANGED <<part, needed, got, reader>>
    BY <1>14, FillMoves DEF bytes
  <2>2. Base(starts)' = base /\ Len(filled') = f + n
    BY <1>8, <2>1 DEF Base, base
  <2>3. ReadTo(log)' = Base(starts)' + Len(filled')
    BY <1>2, <1>3, <1>6, <1>7, <2>2 DEF f
  <2>4. \A k \in 1 .. Len(filled') : filled'[k] = log[Base(starts)' + k]
    BY <1>11, <2>1, <2>2
  <2>5. /\ part = "header" => needed = HeaderSize
        /\ part = "payload" =>
              \E b \in [1 .. HeaderSize -> Int] :
                /\ \A k \in 1 .. HeaderSize : b[k] = log[starts[g + 1] + k]
                /\ needed = Number(b)
    BY DEF Aligned
  <2>6. Aligned(log, starts)'
    BY <1>1, <1>4, <1>14, <2>1, <2>3, <2>4, <2>5 DEF Aligned
  <2> QED BY <1>1, <1>13, <2>1, <2>6
<1>15. CASE ~ (Len(bytes) < needed) /\ g = Len(whole) /\ cut = "within"
  <2>1. Beyond
    BY <1>3, <1>4, <1>15 DEF Beyond
  <2> QED BY <1>15, <2>1, FillBeyond
<1>16. CASE ~ (Len(bytes) < needed) /\ ~ (g = Len(whole) /\ cut = "within")
  <2>1. g < Len(whole) \/ cut # "within"
    BY <1>3, <1>4, <1>16
  <2>2. start < r + n /\ r + n \in Nat
    BY <1>2, <1>3, <1>5, <1>6, <1>7 DEF HeaderSize, f, r
  <2>3. PICK p \in Seq(Int) :
            /\ Len(p) <= MaxFrameBytes /\ PartAt(log, start, p)
            /\ \/ /\ g < Len(whole) /\ p = whole[g + 1]
                  /\ starts[g + 2] = start + HeaderSize + Len(p)
               \/ r + n < start + HeaderSize + Len(p)
    BY <1>2, <1>4, <2>1, <2>2, FrameUnderWay DEF start
  <2> DEFINE size == Len(p)
  <2>4. /\ size \in Nat /\ \A k \in 1 .. HeaderSize : Frame(p)[k] = Header(size)[k]
        /\ \A k \in 1 .. size : Frame(p)[HeaderSize + k] = p[k]
        /\ Header(size) \in [1 .. 4 -> Int] /\ Header(size) \in Seq(Int) /\ Len(Header(size)) = 4
        /\ Number(Header(size)) = size
    <3>1. size \in Nat
      OBVIOUS
    <3> QED BY <3>1, FrameParts, HeaderNumber
  <2>5. \A k \in 1 .. HeaderSize + size : start + k <= r + n => log[start + k] = Frame(p)[k]
    <3> SUFFICES ASSUME NEW k \in 1 .. HeaderSize + size, start + k <= r + n
                 PROVE  log[start + k] = Frame(p)[k]
      OBVIOUS
    <3>1. start + k <= Len(log)
      <4>1. k \in Nat
        BY <2>4 DEF HeaderSize
      <4> QED BY <1>2, <1>3, <1>5, <2>2, <4>1
    <3> QED BY <2>3, <3>1 DEF PartAt
  <2> HIDE DEF size
  <2>6. ASSUME r + n = start + HeaderSize + size, got' = Append(got, p), reader' = reader,
               part' = "header", needed' = HeaderSize, filled' = <<>>
        PROVE  ReaderInv(log, starts)'
    <3>1. g < Len(whole) /\ p = whole[g + 1] /\ starts[g + 2] = r + n
      <4>1. ~ (r + n < start + HeaderSize + size)
        BY <1>5, <2>2, <2>4, <2>6 DEF HeaderSize
      <4> QED BY <2>3, <2>6, <4>1 DEF size
    <3>2. got \in Seq(Seq(Int))
      BY DEF WireTypes
    <3>3. Len(got') = g + 1 /\ got'[g + 1] = p /\ \A i \in 1 .. g : got'[i] = got[i]
      BY <2>6, <3>2, AppendProperties
    <3>4. Len(got') <= Len(whole) /\ Len(got') + 1 = g + 2
      BY <1>3, <3>1, <3>3
    <3>5. ASSUME NEW i \in 1 .. Len(got') PROVE got'[i] = whole[i]
      <4>1. i \in 1 .. g \/ i = g + 1
        BY <1>3, <3>3
      <4> QED BY <1>4, <3>1, <3>3, <4>1
    <3>6. Base(starts)' = r + n
      <4>1. Base(starts)' = starts[g + 2] + 0
        BY <2>6, <3>4 DEF Base
      <4> QED BY <2>2, <3>1, <4>1
    <3>7. Len(filled') = 0
      BY <2>6
    <3>8. ReadTo(log)' = Base(starts)' + Len(filled')
      BY <1>2, <2>2, <3>6, <3>7 DEF r
    <3>9. Aligned(log, starts)'
      BY <1>1, <2>6, <3>4, <3>5, <3>7, <3>8 DEF Aligned, HeaderSize
    <3> QED BY <1>1, <1>13, <2>6, <3>9
  <2>7. CASE part = "header"
    <3>1. needed = 4 /\ base = start
      BY <1>5, <1>6, <2>7 DEF Aligned, HeaderSize
    <3>2. f + n = 4 /\ r + n = start + 4
      BY <1>1, <1>3, <1>5, <1>7, <1>8, <1>16, <3>1 DEF f
    <3>3. bytes = Header(size)
      <4>1. ASSUME NEW k \in 1 .. 4 PROVE bytes[k] = Header(size)[k]
        <5>1. k \in 1 .. HeaderSize + size /\ start + k <= r + n
          BY <1>5, <2>4, <3>2 DEF HeaderSize
        <5>2. log[start + k] = Frame(p)[k]
          BY <2>5, <5>1
        <5>3. Frame(p)[k] = Header(size)[k]
          BY <2>4 DEF HeaderSize
        <5>4. bytes[k] = log[start + k]
          BY <1>11, <3>1, <3>2
        <5> QED BY <5>2, <5>3, <5>4
      <4>2. Len(bytes) = 4
        BY <1>8, <3>2
      <4> QED BY <1>8, <2>4, <4>1, <4>2, SeqEqual
    <3>4. Number(Has(n)) = size /\ ~ (size > MaxFrameBytes)
      BY <2>3, <2>4, <3>3, FramingAssumption DEF bytes, size
    <3>5. CASE size = 0
      <4>1. p = <<>> /\ r + n = start + HeaderSize + size
        BY <1>5, <3>2, <3>5 DEF HeaderSize, size
      <4>2. /\ got' = Append(got, <<>>) /\ reader' = reader
            /\ part' = "header" /\ needed' = HeaderSize /\ filled' = <<>>
        BY <1>16, <2>7, <3>4, <3>5, FillMoves DEF bytes
      <4> QED BY <2>6, <4>1, <4>2
    <3>6. CASE size # 0
      <4>1. /\ part' = "payload" /\ needed' = size /\ filled' = <<>>
            /\ UNCHANGED <<got, reader>>
        BY <1>16, <2>7, <3>4, <3>6, FillMoves DEF bytes
      <4>2. Base(starts)' = start + 4
        BY <4>1 DEF Base, HeaderSize, start
      <4>3. Len(filled') = 0 /\ Len(filled') < needed'
        BY <2>4, <3>6, <4>1
      <4>4. ReadTo(log)' = Base(starts)' + Len(filled')
        BY <1>2, <1>5, <3>2, <4>2, <4>3 DEF r
      <4>5. /\ Header(size) \in [1 .. HeaderSize -> Int] /\ needed' = Number(Header(size))
            /\ \A k \in 1 .. HeaderSize : Header(size)[k] = log[starts[Len(got') + 1] + k]
        <5>1. ASSUME NEW k \in 1 .. 4 PROVE Header(size)[k] = log[start + k]
          BY <1>11, <3>1, <3>2, <3>3
        <5> QED BY <2>4, <4>1, <5>1 DEF HeaderSize, start
      <4>6. \E b \in [1 .. HeaderSize -> Int] :
                /\ \A k \in 1 .. HeaderSize : b[k] = log[starts[Len(got') + 1] + k]
                /\ needed' = Number(b)
        BY <4>5
      <4>7. Len(got') <= Len(whole') /\ \A i \in 1 .. Len(got') : got'[i] = whole'[i]
        BY <1>1, <1>4, <4>1
      <4>8. \A k \in 1 .. Len(filled') : filled'[k] = log[Base(starts)' + k]
        BY <4>3
      <4>9. Aligned(log, starts)'
        BY <4>1, <4>3, <4>4, <4>6, <4>7, <4>8 DEF Aligned
      <4> QED BY <1>1, <1>13, <4>1, <4>9
    <3> QED BY <3>5, <3>6
  <2>8. CASE part = "payload"
    <3>1. PICK b \in [1 .. HeaderSize -> Int] :
              /\ \A k \in 1 .. HeaderSize : b[k] = log[start + k]
              /\ needed = Number(b)
      BY <2>8 DEF Aligned, start
    <3>2. base = start + 4 /\ r + n = start + 4 + (f + n)
      <4>1. base = start + 4
        BY <1>6, <2>8 DEF HeaderSize
      <4>2. r = base + f
        BY <1>7
      <4> QED BY <1>10, <4>1, <4>2
    <3>3. b \in [1 .. 4 -> Int] /\ \A k \in 1 .. 4 : b[k] = log[start + k]
      BY <3>1 DEF HeaderSize
    <3>4. start + 4 <= Len(log)
      BY <1>2, <1>3, <1>10, <3>2
    <3>5. needed = size
      <4>1. Number(b) = Len(p)
        BY <1>3, <1>5, <2>3, <3>3, <3>4, HeaderRead
      <4> QED BY <3>1, <4>1 DEF size
    <3>6. f + n = size /\ r + n = start + 4 + size
      <4>1. f + n <= size
        BY <1>1, <1>10, <2>4, <3>5
      <4>2. ~ (f + n < size)
        BY <1>8, <1>16, <3>5
      <4>3. f + n = size
        BY <1>10, <2>4, <4>1, <4>2
      <4> QED BY <3>2, <4>3
    <3>7. bytes = p
      <4>1. ASSUME NEW k \in 1 .. size PROVE bytes[k] = p[k]
        <5> DEFINE j == HeaderSize + k
        <5>1. j \in 1 .. HeaderSize + size /\ start + j <= r + n /\ start + j = base + k
          BY <1>5, <2>4, <3>2, <3>6 DEF HeaderSize
        <5>2. Frame(p)[j] = p[k]
          BY <2>4
        <5> HIDE DEF j
        <5>3. log[start + j] = Frame(p)[j]
          BY <2>5, <5>1
        <5>4. bytes[k] = log[base + k]
          BY <1>11, <3>6
        <5> QED BY <5>1, <5>2, <5>3, <5>4
      <4>2. Len(bytes) = Len(p)
        BY <1>8, <3>6 DEF size
      <4> QED BY <1>8, <4>1, <4>2, SeqEqual DEF size
    <3>8. /\ got' = Append(got, Has(n)) /\ reader' = reader
          /\ part' = "header" /\ needed' = HeaderSize /\ filled' = <<>>
      BY <1>16, <2>8, FillMoves DEF bytes
    <3> QED BY <2>6, <3>6, <3>7, <3>8 DEF HeaderSize, bytes
  <2> QED BY <1>12, <2>7, <2>8
<1> QED BY <1>14, <1>15, <1>16

(* A piece that is read keeps the invariant of the wire.                   *)
LEMMA FillCarries ==
  ASSUME WireInv, NEW n \in 1 .. HeaderSize + MaxFrameBytes, Fill(n)
  PROVE  WireInv'
<1> PICK log, starts : Carried(log, starts)
  BY DEF WireInv
<1>1. WireTypes /\ Spelled(log, starts) /\ TailInv(log, starts) /\ PlaceInv(log, starts)
      /\ ReaderInv(log, starts)
  BY DEF WireInv, Carried
<1>2. WireTypes' /\ Spelled(log, starts)' /\ TailInv(log, starts)' /\ PlaceInv(log, starts)'
  BY <1>1, FillPlaces, TypesKept
<1>3. reader = "reads"
  BY <1>1, FillMoves
<1>4. CASE Aligned(log, starts)
  BY <1>1, <1>2, <1>4, FillAligned DEF WireInv, Carried
<1>5. CASE cut = "within" /\ Beyond
  BY <1>1, <1>2, <1>5, FillBeyond DEF WireInv, Carried
<1> QED BY <1>1, <1>3, <1>4, <1>5 DEF ReaderInv

(* A reader that ends is behind the last whole frame. *)
LEMMA EndCarries ==
  ASSUME WireInv, ReadEnd
  PROVE  WireInv'
<1> PICK log, starts : Carried(log, starts)
  BY DEF WireInv
<1>1. WireTypes /\ Spelled(log, starts) /\ TailInv(log, starts) /\ PlaceInv(log, starts)
      /\ ReaderInv(log, starts)
  BY DEF WireInv, Carried
<1>2. /\ UNCHANGED <<payload, unsent, pipe, sender, part, needed, filled, got, whole, cut>>
      /\ reader = "reads" /\ pipe = <<>> /\ ~ sender
      /\ reader' = IF AtBoundary THEN "ended" ELSE "lost"
  BY DEF ReadEnd
<1>3. /\ Len(log) \in Nat /\ Len(whole) \in Nat /\ Len(got) \in Nat /\ WholeEnd(starts) \in Nat
      /\ Len(filled) \in Nat
  BY <1>1, WireSizes
<1>4. unsent = <<>> /\ ReadTo(log) = Len(log) /\ WrittenTo(log) = Len(log)
  BY <1>1, <1>2, <1>3 DEF WireTypes, ReadTo, WrittenTo
<1>5. WireTypes' /\ Spelled(log, starts)' /\ TailInv(log, starts)' /\ PlaceInv(log, starts)'
  <2>1. WireTypes'
    BY <1>1, <1>2 DEF WireTypes
  <2>2. Spelled(log, starts)' /\ TailInv(log, starts)'
    BY <1>1, <1>2 DEF Spelled, TailInv, WholeEnd
  <2>3. PlaceInv(log, starts)'
    BY <1>1, <1>2 DEF PlaceInv, WholeEnd, WrittenTo, ReadTo
  <2> QED BY <2>1, <2>2, <2>3
<1> DEFINE g == Len(got)
           start == starts[g + 1]
           f == Len(filled)
           all == Len(log)
           e == WholeEnd(starts)
<1>6. CASE cut = "within" /\ Beyond
  <2>1. Beyond' /\ cut' = "within" /\ ~ sender' /\ reader' \in {"ended", "lost"}
    BY <1>2, <1>6 DEF Beyond
  <2>2. ReaderInv(log, starts)'
    BY <2>1 DEF ReaderInv
  <2> QED BY <1>5, <2>2 DEF WireInv, Carried
<1>7. CASE Aligned(log, starts)
  <2>1. /\ g <= Len(whole) /\ all = Base(starts) + f
        /\ \A i \in 1 .. g : got[i] = whole[i]
    BY <1>4, <1>7 DEF Aligned
  <2>2. start \in Nat
    <3>1. g + 1 \in 1 .. Len(whole) + 1
      BY <1>3, <2>1
    <3> QED BY <1>1, <3>1, WireSizes
  <2> HIDE DEF start
  <2>3. Base(starts) = start + (IF part = "payload" THEN 4 ELSE 0)
    BY DEF Base, HeaderSize, start
  <2>4. e <= all
    BY <1>1 DEF Spelled
  <2>5. AtBoundary => all = start
    BY <1>3, <2>1, <2>2, <2>3 DEF AtBoundary
  <2>6. ~ AtBoundary => start < all
    <3>1. CASE part = "payload"
      BY <1>3, <2>1, <2>2, <2>3, <3>1
    <3>2. CASE part # "payload" /\ filled # <<>>
      <4>1. f > 0
        BY <1>1, <3>2 DEF WireTypes
      <4> QED BY <1>3, <2>1, <2>2, <2>3, <3>2, <4>1
    <3> QED BY <1>1, <3>1, <3>2 DEF AtBoundary, WireTypes
  <2>7. start <= all
    BY <2>2, <2>5, <2>6
  <2>8. g = Len(whole)
    <3> SUFFICES ASSUME g < Len(whole) PROVE FALSE
      BY <1>3, <2>1
    <3> DEFINE i == g + 1
    <3>1. i \in 1 .. Len(whole)
      BY <1>3
    <3> HIDE DEF i
    <3> DEFINE p == whole[i]
               size == Len(p)
               following == starts[i + 1]
    <3>2. p \in Seq(Int)
      BY <1>1, <3>1, ElementOfSeq DEF WireTypes
    <3>3. following = start + 4 + size /\ following <= e /\ PartAt(log, start, p)
      BY <1>1, <3>1 DEF Spelled, HeaderSize, i, start
    <3>4. size \in Nat
      BY <3>2
    <3>5. /\ f < needed
          /\ part = "header" => needed = 4
      BY <1>7 DEF Aligned, HeaderSize
    <3> HIDE DEF p, size, following, f, all, e
    <3>6. CASE part = "header"
      <4>1. all = start + f /\ f < 4 /\ f \in Nat
        BY <1>3, <2>1, <2>2, <2>3, <3>5, <3>6 DEF f
      <4> QED BY <2>2, <2>4, <3>3, <3>4, <4>1, <1>3 DEF e
    <3>7. CASE part = "payload"
      <4>1. PICK b \in [1 .. HeaderSize -> Int] :
                /\ \A k \in 1 .. HeaderSize : b[k] = log[start + k]
                /\ needed = Number(b)
        BY <1>7, <3>7 DEF Aligned, start
      <4>2. b \in [1 .. 4 -> Int] /\ \A k \in 1 .. 4 : b[k] = log[start + k]
        BY <4>1 DEF HeaderSize
      <4>3. all = start + 4 + f /\ f \in Nat /\ all \in Nat
        BY <1>3, <2>1, <2>2, <2>3, <3>7 DEF f, all
      <4>4. start + 4 <= Len(log) /\ log \in Seq(Int)
        BY <1>1, <2>2, <4>3 DEF all, Spelled
      <4>5. needed = size
        <5>1. Number(b) = Len(p)
          BY <2>2, <3>2, <3>3, <4>2, <4>4, HeaderRead
        <5> QED BY <4>1, <5>1 DEF size
      <4>6. f < size
        BY <3>5, <4>5
      <4> QED BY <1>3, <2>2, <2>4, <3>3, <3>4, <4>3, <4>6 DEF e
    <3> QED BY <1>1, <3>6, <3>7 DEF WireTypes
  <2>9. start = e
    BY <2>8 DEF WholeEnd, start
  <2>10. Beyond'
    BY <1>2, <1>3, <2>1, <2>8 DEF Beyond
  <2>11. cut = "never" => all = e
    BY <1>1, <1>4 DEF TailInv
  <2>12. cut = "atEnd" => e < all
    BY <1>1 DEF TailInv
  <2> HIDE DEF e, all
  <2>13. e \in Nat /\ all \in Nat
    BY <1>3 DEF e, all
  <2>14. AtBoundary => cut # "atEnd"
    BY <2>5, <2>9, <2>12, <2>13
  <2>15. ~ AtBoundary => cut # "never"
    BY <2>6, <2>9, <2>11, <2>13
  <2>16. ReaderInv(log, starts)'
    BY <1>2, <2>1, <2>10, <2>14, <2>15 DEF ReaderInv
  <2> QED BY <1>5, <2>16 DEF WireInv, Carried
<1> QED BY <1>1, <1>2, <1>6, <1>7 DEF ReaderInv

(* However the bytes are split, what is read is what was written before    *)
(* anything was cut, in order and whole, and a reader knows a frame that   *)
(* was cut from the end of the stream: for payloads, pipes and cuts of any *)
(* sizes.                                                                  *)
THEOREM FramesAlwaysIntact == FramingInit /\ [][FramingStep]_wireVars => []FramesIntact
<1>1. FramingInit => WireInv
  BY InitCarried
<1>2. WireInv /\ [FramingStep]_wireVars => WireInv'
  <2> SUFFICES ASSUME WireInv, [FramingStep]_wireVars PROVE WireInv'
    OBVIOUS
  <2>1. ASSUME NEW p \in Payloads, WriteFrame(p) PROVE WireInv'
    BY <2>1, WriteCarries
  <2>2. ASSUME NEW n \in 1 .. HeaderSize + MaxFrameBytes, PipeTakes(n) \/ Fill(n) PROVE WireInv'
    BY <2>2, PipeCarries, FillCarries
  <2>3. CASE GiveUp \/ CloseWriter
    BY <2>3, GiveUpCarries
  <2>4. CASE ReadEnd
    BY <2>4, EndCarries
  <2>5. CASE UNCHANGED wireVars
    <3>1. WireTypes'
      BY <2>5 DEF wireVars, readVars, WireInv, WireTypes
    <3>2. PICK log, starts : Carried(log, starts)
      BY DEF WireInv
    <3>3. Spelled(log, starts)' /\ TailInv(log, starts)' /\ PlaceInv(log, starts)'
      BY <2>5, <3>2 DEF wireVars, readVars, Carried, Spelled, WholeEnd, TailInv, PlaceInv, WrittenTo, ReadTo
    <3>4. Aligned(log, starts)' <=> Aligned(log, starts)
      BY <2>5 DEF wireVars, readVars, Aligned, Base, ReadTo, WrittenTo
    <3>5. ReaderInv(log, starts)'
      BY <2>5, <3>2, <3>4 DEF wireVars, readVars, Carried, ReaderInv, Beyond
    <3> QED BY <3>1, <3>3, <3>5 DEF WireInv, Carried
  <2> QED BY <2>1, <2>2, <2>3, <2>4, <2>5 DEF FramingStep
<1>3. WireInv => FramesIntact
  <2> SUFFICES ASSUME WireInv PROVE FramesIntact
    OBVIOUS
  <2>1. PICK log, starts : ReaderInv(log, starts)
    BY DEF WireInv, Carried
  <2>2. WireTypes /\ got \in Seq(Seq(Int)) /\ whole \in Seq(Seq(Int))
    BY DEF WireInv, WireTypes
  <2>3. Len(got) \in Nat /\ Len(whole) \in Nat
    BY <2>2
  <2>4. Beyond => IsPrefix(whole, got)
    BY <2>2, PrefixMeans DEF Beyond
  <2>5. Aligned(log, starts) => IsPrefix(got, whole)
    BY <2>2, PrefixMeans DEF Aligned
  <2>6. Beyond /\ Len(got) <= Len(whole) => IsPrefix(got, whole)
    <3> SUFFICES ASSUME Beyond, Len(got) <= Len(whole) PROVE IsPrefix(got, whole)
      OBVIOUS
    <3>1. \A i \in 1 .. Len(got) : got[i] = whole[i]
      BY <2>3 DEF Beyond
    <3> QED BY <2>2, <3>1, PrefixMeans
  <2> QED BY <2>1, <2>2, <2>4, <2>5, <2>6 DEF ReaderInv, FramesIntact, WireTypes
<1> QED BY <1>1, <1>2, <1>3, PTL

----------------------------------------------------------------------------
(* Answers about a graph that grows.                                       *)

(* A chain of edges, taken from some, from one entity to another.          *)
Leads(some, from, p, v) ==
    /\ p \in Seq(Edges)
    /\ \A i \in 1 .. Len(p) :
          p[i] \in some /\ p[i].source = IF i = 1 THEN from ELSE p[i - 1].target
    /\ v = IF p = <<>> THEN from ELSE p[Len(p)].target

(* The chains back from the entities reached, which are determined.        *)
Solves(reached, from, up) ==
    up = [v \in DOMAIN reached |->
            IF v = from THEN <<>> ELSE Append(up[reached[v].source], reached[v])]

(* What a search has reached: each entity but the first by an edge from    *)
(* another, and nobody in a circle.                                        *)
Grown(some, reached, from, up) ==
    /\ DOMAIN reached \subseteq Entities /\ from \in DOMAIN reached
    /\ \A v \in DOMAIN reached \ {from} :
          /\ reached[v] \in some /\ reached[v].target = v
          /\ reached[v].source \in DOMAIN reached
    /\ Solves(reached, from, up)
    /\ \A other : Solves(reached, from, other) => other = up
    /\ \A v \in DOMAIN reached : Leads(some, from, up[v], v)

(* The search in layers: in its h-th, entities h - 1 edges away are read   *)
(* and those they lead to are put ahead; from any other that was reached,  *)
(* all old edges have been followed.                                       *)
InLayers(old, reached, up, h, now, later) ==
    /\ now \subseteq DOMAIN reached /\ later \subseteq DOMAIN reached
    /\ \A v \in now : Len(up[v]) = h - 1
    /\ \A v \in later : Len(up[v]) = h
    /\ \A v \in DOMAIN reached : Len(up[v]) <= h
    /\ \A v \in DOMAIN reached \ (now \cup later) : \A e \in old :
          e.source = v => e.target \in DOMAIN reached /\ Len(up[e.target]) <= Len(up[v]) + 1

(* A search under way for a path not found yet, in its h-th layer.         *)
Searches(c, some, old, reached, h, now, later) ==
    /\ c \in Questions /\ c.what = "path" /\ c.from # c.to /\ h \in 1 .. c.max
    /\ c.to \notin DOMAIN reached /\ now # {}
    /\ \E up : Grown(some, reached, c.from, up) /\ InLayers(old, reached, up, h, now, later)

(* Each id in reach is so by a walk within the ids. *)
NearWithin(c, some, v, within) ==
    \E s \in c.seeds, n \in 0 .. c.max :
        \E w \in [0 .. n -> Entities] :
            /\ w[0] = s /\ w[n] = v
            /\ \A i \in 0 .. n : w[i] \in within
            /\ \A i \in 0 .. n - 1 : \E e \in some :
                  \/ e.source = w[i] /\ e.target = w[i + 1]
                  \/ e.target = w[i] /\ e.source = w[i + 1]

NearBy(c, some, v) == \E s \in c.seeds, n \in 0 .. c.max : Walk(some, TRUE, s, v, n)

Surrounds(c, some, old, within) ==
    /\ c \in Questions
    /\ \A v \in within : NearWithin(c, some, v, within)
    /\ \A v \in Entities : NearBy(c, old, v) => v \in within

PathAnswer(c, some, old, p) ==
    /\ p # Nil =>
          /\ \A i \in DOMAIN p :
                /\ p[i] \in some
                /\ p[i].source = IF i = 1 THEN c.from ELSE p[i - 1].target
          /\ IF p = <<>> THEN c.from = c.to ELSE p[Len(p)].target = c.to
          /\ c.from = c.to \/ Len(p) <= c.max
    /\ \A n \in 0 .. c.max :
          Walk(old, FALSE, c.from, c.to, n) => p # Nil /\ Len(p) <= n

SubgraphAnswer(c, old, within, r) ==
    /\ \A v \in r.nodes : NearBy(c, r.edges, v)
    /\ \A v \in Entities : NearBy(c, old, v) => v \in within

GraphTypes ==
    /\ nodes \subseteq Entities /\ edges \subseteq Edges
    /\ doing \in [Queries -> {"idle", "walking", "nodes", "edges", "done"}]
    /\ \A f \in {search, frontier, ahead, came, hops, ids, result, first} : DOMAIN f = Queries
    /\ \A q \in Queries :
          /\ first[q] \subseteq edges /\ ahead[q] \subseteq Entities
          /\ doing[q] = "idle" => ahead[q] = {}
          /\ doing[q] # "idle" => search[q] \in Questions

QueryInv(q) ==
    /\ doing[q] = "walking" =>
          Searches(search[q], edges, first[q], came[q], hops[q], frontier[q], ahead[q])
    /\ doing[q] \in {"nodes", "edges"} => search[q].what # "path"
    /\ doing[q] \in {"nodes", "edges"} /\ search[q].what = "subgraph" =>
          Surrounds(search[q], edges, first[q], ids[q])
    /\ doing[q] = "edges" =>
          \E n \in SUBSET ids[q] : result[q] = [nodes |-> n, edges |-> {}]
    /\ Done(q, "path") => PathAnswer(search[q], edges, first[q], result[q])
    /\ Done(q, "subgraph") => SubgraphAnswer(search[q], first[q], ids[q], result[q])

GraphInv == GraphTypes /\ \A q \in Queries : QueryInv(q)

(* The answers are true in every state of the invariant.                   *)
LEMMA AnswersFollow == GraphInv => GraphAnswers
<1> SUFFICES ASSUME GraphInv PROVE GraphAnswers
  OBVIOUS
<1>1. PathShortest
  BY DEF GraphInv, QueryInv, PathShortest, PathAnswer
<1>2. SubgraphConnects
  BY DEF GraphInv, QueryInv, SubgraphConnects, SubgraphAnswer, NearBy
<1> QED BY <1>1, <1>2 DEF GraphAnswers

(* The invariant of the graph's answers holds before any query.            *)
LEMMA GraphStarts == GraphInit => GraphInv
<1> SUFFICES ASSUME GraphInit PROVE GraphInv
  OBVIOUS
<1>1. GraphTypes
  BY DEF GraphInit, GraphTypes
<1>2. \A q \in Queries : QueryInv(q)
  BY DEF GraphInit, QueryInv, Done
<1> QED BY <1>1, <1>2 DEF GraphInv

(* More edges. *)
LEMMA GraphGrows ==
  ASSUME NEW some, NEW more \in SUBSET Edges, some \subseteq more, NEW c, NEW old
  PROVE  /\ \A reached, h, now, later : Searches(c, some, old, reached, h, now, later)
                                    => Searches(c, more, old, reached, h, now, later)
         /\ \A within : Surrounds(c, some, old, within) => Surrounds(c, more, old, within)
         /\ \A p : PathAnswer(c, some, old, p) => PathAnswer(c, more, old, p)
<1>1. ASSUME NEW from, NEW p, NEW v, Leads(some, from, p, v) PROVE Leads(more, from, p, v)
  BY <1>1 DEF Leads
<1>2. ASSUME NEW from, NEW reached, NEW up, Grown(some, reached, from, up)
      PROVE  Grown(more, reached, from, up)
  BY <1>1, <1>2 DEF Grown
<1>3. ASSUME NEW v, NEW within, NearWithin(c, some, v, within) PROVE NearWithin(c, more, v, within)
  <2>1. PICK s \in c.seeds, n \in 0 .. c.max : \E w \in [0 .. n -> Entities] :
            /\ w[0] = s /\ w[n] = v
            /\ \A i \in 0 .. n : w[i] \in within
            /\ \A i \in 0 .. n - 1 : \E e \in some :
                  \/ e.source = w[i] /\ e.target = w[i + 1]
                  \/ e.target = w[i] /\ e.source = w[i + 1]
    BY <1>3 DEF NearWithin
  <2>2. PICK w \in [0 .. n -> Entities] :
            /\ w[0] = s /\ w[n] = v
            /\ \A i \in 0 .. n : w[i] \in within
            /\ \A i \in 0 .. n - 1 : \E e \in some :
                  \/ e.source = w[i] /\ e.target = w[i + 1]
                  \/ e.target = w[i] /\ e.source = w[i + 1]
    BY <2>1
  <2>3. \A i \in 0 .. n - 1 : \E e \in more :
                  \/ e.source = w[i] /\ e.target = w[i + 1]
                  \/ e.target = w[i] /\ e.source = w[i + 1]
    BY <2>2
  <2> QED BY <2>2, <2>3 DEF NearWithin
<1>4. \A reached, h, now, later : Searches(c, some, old, reached, h, now, later)
                                    => Searches(c, more, old, reached, h, now, later)
  BY <1>2 DEF Searches
<1>5. \A within : Surrounds(c, some, old, within) => Surrounds(c, more, old, within)
  BY <1>3 DEF Surrounds
<1>6. \A p : PathAnswer(c, some, old, p) => PathAnswer(c, more, old, p)
  BY DEF PathAnswer
<1> QED BY <1>4, <1>5, <1>6

(* An entity the old edges lead to, before any that is still to be read,   *)
(* has been reached, and by no more edges.                                 *)
LEMMA OldReached ==
  ASSUME NEW old, NEW reached, NEW up, NEW h, NEW now, NEW later, NEW from, NEW v, NEW n \in Nat,
         InLayers(old, reached, up, h, now, later), from \in DOMAIN reached,
         up[from] = <<>>, \A u \in DOMAIN reached : Len(up[u]) \in Nat,
         \A u \in now \cup later : n <= Len(up[u]), Walk(old, FALSE, from, v, n)
  PROVE  v \in DOMAIN reached /\ Len(up[v]) <= n
<1>1. PICK w \in [0 .. n -> Entities] :
        /\ w[0] = from /\ w[n] = v
        /\ \A i \in 0 .. n - 1 : \E e \in old : e.source = w[i] /\ e.target = w[i + 1]
  BY DEF Walk
<1> DEFINE Reaches(i) == w[i] \in DOMAIN reached /\ Len(up[w[i]]) <= i
           bad == {i \in 0 .. n : ~ Reaches(i)}
<1>2. SUFFICES ASSUME bad # {} PROVE FALSE
  BY <1>1
<1>3. PICK i \in bad : \A k \in bad : i <= k
  <2>1. bad \in SUBSET Nat
    OBVIOUS
  <2> QED BY <1>2, <2>1, HasLeast
<1>4. i # 0
  <2>1. Reaches(0)
    BY <1>1
  <2> QED BY <2>1
<1>5. i \in 1 .. n /\ i - 1 \in 0 .. n /\ i - 1 \in 0 .. n - 1
  BY <1>4
<1>6. Reaches(i - 1)
  BY <1>3, <1>5
<1>7. w[i - 1] \notin now \cup later
  <2> DEFINE d == Len(up[w[i - 1]])
  <2>1. d \in Nat /\ d <= i - 1
    BY <1>6
  <2> HIDE DEF d
  <2>2. ~ (n <= d)
    BY <1>5, <2>1
  <2> QED BY <2>2 DEF d
<1>8. PICK e \in old : e.source = w[i - 1] /\ e.target = w[i]
  <2>1. (i - 1) + 1 = i
    BY <1>5
  <2> QED BY <1>1, <1>5, <2>1
<1>9. w[i] \in DOMAIN reached /\ Len(up[w[i]]) <= Len(up[w[i - 1]]) + 1
  BY <1>6, <1>7, <1>8 DEF InLayers
<1>10. Len(up[w[i]]) <= i
  <2> DEFINE d == Len(up[w[i - 1]])
             f == Len(up[w[i]])
  <2>1. d \in Nat /\ d <= i - 1 /\ f \in Nat /\ f <= d + 1
    BY <1>6, <1>9
  <2> HIDE DEF d, f
  <2>2. f <= i
    BY <1>5, <2>1
  <2> QED BY <2>2 DEF f
<1> QED BY <1>3, <1>9, <1>10
(* An edge more on the way. *)
LEMMA LeadsOn ==
  ASSUME NEW some \in SUBSET Edges, NEW from, NEW p, NEW v, Leads(some, from, p, v),
         NEW e \in some, e.source = v
  PROVE  Leads(some, from, Append(p, e), e.target) /\ Len(Append(p, e)) = Len(p) + 1
<1> DEFINE longer == Append(p, e)
<1>1. p \in Seq(Edges) /\ e \in Edges /\ Len(p) \in Nat
  BY DEF Leads
<1>2. /\ longer \in Seq(Edges) /\ Len(longer) = Len(p) + 1
      /\ \A i \in 1 .. Len(p) : longer[i] = p[i]
      /\ longer[Len(p) + 1] = e
  BY <1>1, AppendProperties
<1> HIDE DEF longer
<1>3. ASSUME NEW i \in 1 .. Len(longer)
      PROVE  longer[i] \in some /\ longer[i].source = IF i = 1 THEN from ELSE longer[i - 1].target
  <2>1. CASE i \in 1 .. Len(p)
    <3>1. i # 1 => i - 1 \in 1 .. Len(p)
      BY <1>1, <2>1
    <3> QED BY <1>2, <2>1, <3>1 DEF Leads
  <2>2. CASE i = Len(p) + 1
    <3>1. CASE p = <<>>
      BY <1>2, <2>2, <3>1 DEF Leads
    <3>2. CASE p # <<>>
      <4>1. i # 1 /\ i - 1 = Len(p) /\ Len(p) \in 1 .. Len(p)
        BY <1>1, <2>2, <3>2
      <4>2. longer[i - 1] = p[Len(p)]
        BY <1>2, <4>1
      <4> QED BY <1>2, <2>2, <3>2, <4>1, <4>2 DEF Leads
    <3> QED BY <3>1, <3>2
  <2> QED BY <1>1, <1>2, <2>1, <2>2
<1>4. longer # <<>> /\ longer[Len(longer)] = e
  BY <1>1, <1>2
<1>5. Leads(some, from, longer, e.target)
  BY <1>2, <1>3, <1>4 DEF Leads
<1> QED BY <1>2, <1>5 DEF longer

(* Entities newly reached hang on one that was. *)
Hung(reached, new, by) ==
    [w \in DOMAIN reached \cup new |-> IF w \in new THEN by[w] ELSE reached[w]]

Hangs(some, reached, from, up, v, new, by, longer) ==
    /\ Grown(some, Hung(reached, new, by), from, longer)
    /\ \A u \in DOMAIN reached : longer[u] = up[u]
    /\ \A w \in new : longer[w] = Append(up[v], by[w])

(* New entities that hang on a reached one by an edge each are reached by  *)
(* chains of one edge more.                                                *)
LEMMA TreeGrows ==
  ASSUME NEW some \in SUBSET Edges, NEW reached, NEW from, NEW up, Grown(some, reached, from, up),
         NEW v \in DOMAIN reached, NEW new \in SUBSET Entities, new \cap DOMAIN reached = {},
         NEW by, by \in [new -> some], \A w \in new : by[w].target = w /\ by[w].source = v
  PROVE  \E longer : Hangs(some, reached, from, up, v, new, by, longer)
<1> DEFINE after == Hung(reached, new, by)
<1> DEFINE both == DOMAIN reached \cup new
           longer == [u \in both |-> IF u \in new THEN Append(up[v], by[u]) ELSE up[u]]
<1>1. /\ DOMAIN after = both /\ \A u \in new : after[u] = by[u]
      /\ \A u \in DOMAIN reached : after[u] = reached[u]
  BY DEF Hung, after
<1> HIDE DEF after
<1>2. /\ DOMAIN longer = both /\ \A u \in new : longer[u] = Append(up[v], by[u])
      /\ \A u \in DOMAIN reached : longer[u] = up[u]
  OBVIOUS
<1>3. /\ from \in DOMAIN reached /\ DOMAIN reached \subseteq Entities
      /\ \A u \in DOMAIN reached \ {from} :
            reached[u] \in some /\ reached[u].target = u /\ reached[u].source \in DOMAIN reached
  BY DEF Grown
<1>4. up = [u \in DOMAIN reached |->
              IF u = from THEN <<>> ELSE Append(up[reached[u].source], reached[u])]
  BY DEF Grown, Solves
<1>5. /\ up[from] = <<>>
      /\ \A u \in DOMAIN reached \ {from} : up[u] = Append(up[reached[u].source], reached[u])
  BY <1>3, <1>4
<1>6. \A u \in both \ {from} :
        after[u] \in some /\ after[u].target = u /\ after[u].source \in DOMAIN after
  BY <1>1, <1>3
<1> HIDE DEF longer
<1>7. Solves(after, from, longer)
  <2>1. longer[from] = <<>>
    BY <1>2, <1>3, <1>5
  <2>2. ASSUME NEW u \in both, u # from
        PROVE  longer[u] = Append(longer[after[u].source], after[u])
    <3>1. CASE u \in new
      BY <1>1, <1>2, <3>1
    <3>2. CASE u \in DOMAIN reached
      BY <1>1, <1>2, <1>3, <1>5, <2>2, <3>2
    <3> QED BY <3>1, <3>2
  <2>3. longer = [u \in both |-> longer[u]]
    BY DEF longer
  <2>4. \A u \in both :
          longer[u] = IF u = from THEN <<>> ELSE Append(longer[after[u].source], after[u])
    BY <2>1, <2>2
  <2>5. longer = [u \in both |->
                    IF u = from THEN <<>> ELSE Append(longer[after[u].source], after[u])]
    BY <2>3, <2>4
  <2> QED BY <1>1, <2>5 DEF Solves
<1>8. ASSUME NEW other, Solves(after, from, other) PROVE other = longer
  <2>1. other = [u \in both |->
                    IF u = from THEN <<>> ELSE Append(other[after[u].source], after[u])]
    BY <1>1, <1>8 DEF Solves
  <2>2. /\ DOMAIN other = both
        /\ \A u \in both :
              other[u] = IF u = from THEN <<>> ELSE Append(other[after[u].source], after[u])
    BY <2>1
  <2> DEFINE less == [u \in DOMAIN reached |-> other[u]]
  <2>3. DOMAIN less = DOMAIN reached /\ \A u \in DOMAIN reached : less[u] = other[u]
    OBVIOUS
  <2>4. less = [u \in DOMAIN reached |-> less[u]]
    OBVIOUS
  <2> HIDE DEF less
  <2>5. \A u \in DOMAIN reached :
          less[u] = IF u = from THEN <<>> ELSE Append(less[reached[u].source], reached[u])
    <3> SUFFICES ASSUME NEW u \in DOMAIN reached
                 PROVE  less[u] = IF u = from THEN <<>>
                                  ELSE Append(less[reached[u].source], reached[u])
      OBVIOUS
    <3>1. u \in both /\ less[u] = other[u] /\ after[u] = reached[u]
      BY <1>1, <2>3
    <3>2. other[u] = IF u = from THEN <<>> ELSE Append(other[reached[u].source], reached[u])
      BY <2>2, <3>1
    <3>3. u # from => less[reached[u].source] = other[reached[u].source]
      BY <1>3, <2>3
    <3> QED BY <3>1, <3>2, <3>3
  <2>6. less = [u \in DOMAIN reached |->
                  IF u = from THEN <<>> ELSE Append(less[reached[u].source], reached[u])]
    BY <2>4, <2>5
  <2>7. less = up
    BY <2>6 DEF Grown, Solves
  <2>8. \A u \in DOMAIN reached : other[u] = longer[u]
    BY <1>2, <2>3, <2>7
  <2>9. ASSUME NEW u \in new PROVE other[u] = longer[u]
    <3>1. u \in both /\ u # from /\ after[u] = by[u] /\ by[u].source = v
      BY <1>1, <1>3
    <3>2. other[u] = Append(other[v], by[u])
      BY <2>2, <3>1
    <3>3. other[v] = up[v] /\ longer[u] = Append(up[v], by[u])
      BY <1>2, <2>8
    <3> QED BY <3>2, <3>3
  <2>10. other = [u \in both |-> other[u]] /\ longer = [u \in both |-> longer[u]]
    BY <2>1 DEF longer
  <2> QED BY <2>8, <2>9, <2>10
<1>9. ASSUME NEW u \in both PROVE Leads(some, from, longer[u], u)
  <2>1. CASE u \in DOMAIN reached
    BY <1>2, <2>1 DEF Grown
  <2>2. CASE u \in new
    <3>1. Leads(some, from, up[v], v) /\ by[u] \in some /\ by[u].source = v /\ by[u].target = u
      BY <2>2 DEF Grown
    <3>2. longer[u] = Append(up[v], by[u])
      BY <1>2, <2>2
    <3>3. Leads(some, from, Append(up[v], by[u]), by[u].target)
      BY <3>1, LeadsOn
    <3> QED BY <3>1, <3>2, <3>3
  <2> QED BY <2>1, <2>2
<1>10. Grown(some, after, from, longer)
  BY <1>1, <1>3, <1>6, <1>7, <1>8, <1>9 DEF Grown
<1> QED BY <1>2, <1>10 DEF Hangs, after

(* What is told of a path found is the chain of edges it was found by. *)
LEMMA ChainIsIt ==
  ASSUME NEW some, NEW reached, NEW from, NEW up, Grown(some, reached, from, up),
         NEW v \in DOMAIN reached
  PROVE  Chain(reached, from, v) = up[v]
<1> DEFINE upto == CHOOSE f : Solves(reached, from, f)
<1>1. Chain(reached, from, v) = upto[v]
  BY DEF Chain, Solves
<1>2. Solves(reached, from, upto)
  BY DEF Grown
<1>3. upto = up
  BY <1>2 DEF Grown
<1> QED BY <1>1, <1>3
(* The chains back from reached entities are sequences of edges, that of   *)
(* the first is empty.                                                     *)
LEMMA ChainSizes ==
  ASSUME NEW some, NEW reached, NEW from, NEW up, Grown(some, reached, from, up)
  PROVE  /\ \A u \in DOMAIN reached : up[u] \in Seq(Edges) /\ Len(up[u]) \in Nat
         /\ from \in DOMAIN reached /\ up[from] = <<>>
<1>1. \A u \in DOMAIN reached : up[u] \in Seq(Edges)
  BY DEF Grown, Leads
<1>2. \A u \in DOMAIN reached : Len(up[u]) \in Nat
  BY <1>1
<1> QED BY <1>1, <1>2 DEF Grown, Solves

(* One entity of a layer read. *)
ReadOn(some, old, after, from, h, left, later, new, longer) ==
    /\ Grown(some, after, from, longer)
    /\ InLayers(old, after, longer, h, left, later \cup new)
    /\ \A w \in new : Len(longer[w]) = h

(* Reading an entity's edges of one layer finds those of the next layer,   *)
(* and no entity a layer too late.                                         *)
LEMMA LayerRead ==
  ASSUME NEW some \in SUBSET Edges, NEW old \in SUBSET some, NEW h \in Nat,
         NEW reached, NEW from, NEW up, NEW now, NEW later, NEW v \in now,
         Grown(some, reached, from, up), InLayers(old, reached, up, h, now, later),
         NEW new, new = {e.target : e \in {x \in some : x.source = v}} \ DOMAIN reached,
         NEW by, by \in [new -> {x \in some : x.source = v}], \A w \in new : by[w].target = w
  PROVE  \E longer : ReadOn(some, old, Hung(reached, new, by), from, h, now \ {v}, later, new, longer)
<1> DEFINE after == Hung(reached, new, by)
<1>1. v \in DOMAIN reached /\ new \in SUBSET Entities /\ new \cap DOMAIN reached = {}
  <2>1. \A e \in some : e.target \in Entities
    BY KnowledgeAssumption
  <2> QED BY <2>1 DEF InLayers
<1>2. by \in [new -> some] /\ \A w \in new : by[w].target = w /\ by[w].source = v
  OBVIOUS
<1>3. PICK longer : Hangs(some, reached, from, up, v, new, by, longer)
  BY <1>1, <1>2, TreeGrows
<1>4. /\ Grown(some, after, from, longer)
      /\ \A u \in DOMAIN reached : longer[u] = up[u]
      /\ \A w \in new : longer[w] = Append(up[v], by[w])
  BY <1>3 DEF Hangs
<1>5. Len(up[v]) = h - 1
  BY DEF InLayers
<1>6. ASSUME NEW w \in new PROVE Len(longer[w]) = h
  <2>1. Leads(some, from, up[v], v) /\ by[w] \in some /\ by[w].source = v
    BY <1>1, <1>2 DEF Grown
  <2>2. Len(Append(up[v], by[w])) = Len(up[v]) + 1
    BY <2>1, LeadsOn
  <2> QED BY <1>4, <1>5, <2>2
<1>7. DOMAIN after = DOMAIN reached \cup new
  BY DEF Hung
<1>8. /\ now \ {v} \subseteq DOMAIN after /\ later \cup new \subseteq DOMAIN after
      /\ \A u \in now \ {v} : Len(longer[u]) = h - 1
      /\ \A u \in later \cup new : Len(longer[u]) = h
      /\ \A u \in DOMAIN after : Len(longer[u]) <= h
  <2>1. now \ {v} \subseteq DOMAIN after /\ later \cup new \subseteq DOMAIN after
    BY <1>7 DEF InLayers
  <2>2. /\ \A u \in now \ {v} : Len(longer[u]) = h - 1
        /\ \A u \in later \cup new : Len(longer[u]) = h
    BY <1>4, <1>6 DEF InLayers
  <2>3. \A u \in DOMAIN reached : Len(longer[u]) <= h
    BY <1>4 DEF InLayers
  <2>4. \A u \in new : Len(longer[u]) <= h
    BY <1>6
  <2> QED BY <1>7, <2>1, <2>2, <2>3, <2>4
<1>9. ASSUME NEW u \in DOMAIN after \ ((now \ {v}) \cup (later \cup new)), NEW e \in old, e.source = u
      PROVE  e.target \in DOMAIN after /\ Len(longer[e.target]) <= Len(longer[u]) + 1
  <2>1. CASE u = v
    <3>1. e.target \in DOMAIN after
      BY <1>7, <1>9, <2>1
    <3>2. Len(longer[u]) = h - 1
      BY <1>1, <1>4, <1>5, <2>1
    <3> QED BY <1>8, <3>1, <3>2
  <2>2. CASE u # v
    <3>1. u \in DOMAIN reached \ (now \cup later)
      BY <1>7, <2>2
    <3>2. e.target \in DOMAIN reached /\ Len(up[e.target]) <= Len(up[u]) + 1
      BY <1>9, <3>1 DEF InLayers
    <3> QED BY <1>4, <1>7, <3>1, <3>2
  <2> QED BY <2>1, <2>2
<1>10. InLayers(old, after, longer, h, now \ {v}, later \cup new)
  BY <1>8, <1>9 DEF InLayers
<1> QED BY <1>4, <1>6, <1>10 DEF ReadOn

(* A search that begins has reached its first entity by the chain of no    *)
(* edge.                                                                   *)
LEMMA PathBegins ==
  ASSUME GraphTypes, NEW c \in Questions, c.what = "path", c.from # c.to, c.max >= 1,
         NEW came0, came0 = [v \in {c.from} |-> Nil]
  PROVE  Searches(c, edges, edges, came0, 1, {c.from}, {})
<1> DEFINE from == c.from
           up == [v \in {from} |-> <<>>]
<1>1. from \in Entities /\ c.max \in Nat
  BY KnowledgeAssumption
<1>2. DOMAIN came0 = {from}
  OBVIOUS
<1>3. Solves(came0, from, up)
  BY <1>2 DEF Solves
<1>4. ASSUME NEW other, Solves(came0, from, other) PROVE other = up
  <2>1. other = [v \in {from} |-> IF v = from THEN <<>>
                                   ELSE Append(other[came0[v].source], came0[v])]
    BY <1>2, <1>4 DEF Solves
  <2> QED BY <2>1
<1>5. up[from] = <<>> /\ <<>> \in Seq(Edges) /\ Len(<<>>) = 0
  OBVIOUS
<1> HIDE DEF up
<1>6. Leads(edges, from, up[from], from)
  BY <1>5 DEF Leads
<1>7. Grown(edges, came0, from, up)
  BY <1>1, <1>2, <1>3, <1>4, <1>6 DEF Grown
<1>8. InLayers(edges, came0, up, 1, {from}, {})
  BY <1>2, <1>5 DEF InLayers
<1> QED BY <1>1, <1>2, <1>7, <1>8 DEF Searches
(* One query's step leaves the others'. *)
Unmoved(p) ==
    /\ doing'[p] = doing[p] /\ search'[p] = search[p] /\ frontier'[p] = frontier[p]
    /\ ahead'[p] = ahead[p] /\ came'[p] = came[p] /\ hops'[p] = hops[p]
    /\ ids'[p] = ids[p] /\ result'[p] = result[p] /\ first'[p] = first[p]

(* A step of one query that leaves the others as they were, and the        *)
(* graph, keeps the invariant.                                             *)
LEMMA OneQuery ==
  ASSUME GraphInv, GraphTypes', NEW q \in Queries, edges' = edges,
         \A p \in Queries \ {q} : Unmoved(p), QueryInv(q)'
  PROVE  GraphInv'
<1>1. ASSUME NEW p \in Queries \ {q} PROVE QueryInv(p)'
  <2>1. Unmoved(p) /\ QueryInv(p)
    BY DEF GraphInv
  <2> QED BY <2>1 DEF Unmoved, QueryInv, Done
<1> QED BY <1>1 DEF GraphInv

(* An upsert keeps the invariant: the searches under way are about the     *)
(* edges of when they began, and those inserted since.                     *)
LEMMA UpsertsKeep ==
  ASSUME GraphInv, (\E n \in Entities : UpsertNode(n)) \/ (\E e \in Edges : UpsertEdge(e))
  PROVE  GraphInv'
<1>1. /\ UNCHANGED <<doing, search, walkVars, ids, result, first>>
      /\ edges \subseteq edges' /\ edges' \subseteq Edges /\ nodes' \subseteq Entities
  BY DEF UpsertNode, UpsertEdge, GraphInv, GraphTypes
<1>2. GraphTypes'
  BY <1>1 DEF GraphInv, GraphTypes, walkVars
<1>3. ASSUME NEW q \in Queries PROVE QueryInv(q)'
  <2>1. QueryInv(q)
    BY DEF GraphInv
  <2>2. /\ \A c, old, reached, h, now, later :
              Searches(c, edges, old, reached, h, now, later)
                => Searches(c, edges', old, reached, h, now, later)
        /\ \A c, old, within : Surrounds(c, edges, old, within) => Surrounds(c, edges', old, within)
        /\ \A c, old, p : PathAnswer(c, edges, old, p) => PathAnswer(c, edges', old, p)
    BY <1>1, GraphGrows
  <2>3. /\ doing'[q] = doing[q] /\ search'[q] = search[q] /\ frontier'[q] = frontier[q]
        /\ ahead'[q] = ahead[q] /\ came'[q] = came[q] /\ hops'[q] = hops[q]
        /\ ids'[q] = ids[q] /\ result'[q] = result[q] /\ first'[q] = first[q]
    BY <1>1 DEF walkVars
  <2> QED BY <2>1, <2>2, <2>3 DEF QueryInv, Done
<1> QED BY <1>2, <1>3 DEF GraphInv

(* A search that is given up has missed nothing. *)
LEMMA NonePaths ==
  ASSUME NEW c \in Questions, c.what = "path", c.from # c.to, NEW some, NEW old, NEW reached,
         NEW h \in Nat, NEW up, NEW later, Grown(some, reached, c.from, up),
         InLayers(old, reached, up, h, {}, later), c.to \notin DOMAIN reached,
         h + 1 > c.max \/ later = {}
  PROVE  PathAnswer(c, some, old, Nil)
<1>1. ASSUME NEW n \in 0 .. c.max, Walk(old, FALSE, c.from, c.to, n) PROVE FALSE
  <2>1. c.max \in Nat /\ n \in Nat
    BY KnowledgeAssumption
  <2>2. \A u \in {} \cup later : n <= Len(up[u])
    BY <2>1 DEF InLayers
  <2>3. /\ c.from \in DOMAIN reached /\ up[c.from] = <<>>
        /\ \A u \in DOMAIN reached : Len(up[u]) \in Nat
    BY ChainSizes
  <2>4. c.to \in DOMAIN reached
    BY <1>1, <2>1, <2>2, <2>3, OldReached
  <2> QED BY <2>4
<1> QED BY <1>1 DEF PathAnswer

(* One that finds its target has found the nearest way. *)
LEMMA FoundPaths ==
  ASSUME NEW c \in Questions, c.what = "path", NEW some, NEW old, NEW reached,
         NEW h \in 1 .. c.max, NEW up, NEW now, NEW later, Grown(some, reached, c.from, up),
         InLayers(old, reached, up, h, now, later), c.to \notin DOMAIN reached,
         NEW p, Leads(some, c.from, p, c.to), Len(p) = h
  PROVE  PathAnswer(c, some, old, p)
<1>1. p \in Seq(Edges) /\ p # Nil /\ DOMAIN p = 1 .. Len(p) /\ p # <<>>
  BY KnowledgeAssumption DEF Leads
<1>2. c.max \in Nat
  BY KnowledgeAssumption
<1>3. ASSUME NEW n \in 0 .. c.max, Walk(old, FALSE, c.from, c.to, n) PROVE h <= n
  <2> SUFFICES ASSUME n < h PROVE FALSE
    BY <1>2
  <2>1. \A u \in now \cup later : n <= Len(up[u])
    BY <1>2 DEF InLayers
  <2>2. n \in Nat
    BY <1>2
  <2>3. /\ c.from \in DOMAIN reached /\ up[c.from] = <<>>
        /\ \A u \in DOMAIN reached : Len(up[u]) \in Nat
    BY ChainSizes
  <2>4. c.to \in DOMAIN reached
    BY <1>3, <2>1, <2>2, <2>3, OldReached
  <2> QED BY <2>4
<1>4. /\ \A i \in DOMAIN p :
            p[i] \in some /\ p[i].source = IF i = 1 THEN c.from ELSE p[i - 1].target
      /\ IF p = <<>> THEN c.from = c.to ELSE p[Len(p)].target = c.to
      /\ Len(p) <= c.max
  BY <1>1, <1>2 DEF Leads
<1> QED BY <1>1, <1>3, <1>4 DEF PathAnswer

(* Reading the outgoing edges of one entity keeps the invariant.           *)
LEMMA ReadKeeps ==
  ASSUME GraphInv, NEW q \in Queries, ReadOutgoing(q)
  PROVE  GraphInv'
<1> DEFINE c == search[q]
           reached == came[q]
           h == hops[q]
           now == frontier[q]
           later == ahead[q]
           old == first[q]
<1>1. doing[q] = "walking" /\ GraphTypes
  BY DEF ReadOutgoing, GraphInv
<1>2. Searches(c, edges, old, reached, h, now, later)
  BY <1>1 DEF GraphInv, QueryInv
<1>3. PICK v \in now :
        LET out == {e \in edges : e.source = v}
            new == {e.target : e \in out} \ DOMAIN came[q]
            to == search[q].to
        IN  /\ \E by \in [new -> out] :
                  /\ \A w \in new : by[w].target = w
                  /\ came' = [came EXCEPT ![q] =
                        [w \in DOMAIN @ \cup new |-> IF w \in new THEN by[w] ELSE @[w]]]
            /\ IF to \in new
               THEN /\ Concludes(q, Chain(came'[q], search[q].from, to))
                    /\ UNCHANGED <<frontier, ahead, hops>>
               ELSE IF frontier[q] = {v}
               THEN /\ Layer(q, hops[q] + 1, ahead[q] \cup new)
                    /\ ahead' = [ahead EXCEPT ![q] = {}]
               ELSE /\ frontier' = [frontier EXCEPT ![q] = @ \ {v}]
                    /\ ahead' = [ahead EXCEPT ![q] = @ \cup new]
                    /\ UNCHANGED <<doing, hops, result>>
  BY DEF ReadOutgoing
<1> DEFINE out == {e \in edges : e.source = v}
           new == {e.target : e \in out} \ DOMAIN reached
<1>4. UNCHANGED <<search, nodes, edges, ids, first>>
  BY DEF ReadOutgoing
<1>5. PICK by \in [new -> out] :
        /\ \A w \in new : by[w].target = w
        /\ came' = [came EXCEPT ![q] = Hung(came[q], new, by)]
  BY <1>3 DEF Hung
<1> DEFINE after == Hung(reached, new, by)
<1>6. came'[q] = after /\ \A p \in Queries \ {q} : came'[p] = came[p]
  BY <1>1, <1>5 DEF GraphTypes
<1>7. \/ c.to \in new /\ Concludes(q, Chain(after, c.from, c.to)) /\ UNCHANGED <<frontier, ahead, hops>>
      \/ /\ c.to \notin new /\ now = {v}
         /\ Layer(q, h + 1, later \cup new) /\ ahead' = [ahead EXCEPT ![q] = {}]
      \/ /\ c.to \notin new /\ now # {v} /\ frontier' = [frontier EXCEPT ![q] = now \ {v}]
         /\ ahead' = [ahead EXCEPT ![q] = later \cup new]
         /\ UNCHANGED <<doing, hops, result>>
  BY <1>3, <1>6
<1>8. /\ out \subseteq edges /\ old \in SUBSET edges /\ edges \in SUBSET Edges /\ h \in Nat
      /\ c \in Questions /\ c.what = "path" /\ c.from # c.to /\ h \in 1 .. c.max
      /\ c.to \notin DOMAIN reached /\ c.max \in Nat
  BY <1>1, <1>2, KnowledgeAssumption DEF Searches, GraphTypes
<1>9. PICK up : Grown(edges, reached, c.from, up) /\ InLayers(old, reached, up, h, now, later)
  BY <1>2 DEF Searches
<1>10. DOMAIN after = DOMAIN reached \cup new /\ new \subseteq Entities
  <2>1. \A e \in edges : e.target \in Entities
    BY <1>8, KnowledgeAssumption
  <2> QED BY <2>1 DEF Hung
<1>11. /\ \A p \in Queries \ {q} : Unmoved(p)
       /\ c' = c /\ edges' = edges /\ first' = first /\ search' = search /\ nodes' = nodes
  BY <1>1, <1>4, <1>6, <1>7 DEF Unmoved, GraphTypes, Concludes, Layer
<1>12. GraphTypes'
  <2>1. /\ doing' \in [Queries -> {"idle", "walking", "nodes", "edges", "done"}]
        /\ \A f \in {frontier', ahead', hops', result'} : DOMAIN f = Queries
        /\ doing'[q] # "idle" /\ ahead'[q] \subseteq Entities
    BY <1>1, <1>7, <1>10 DEF GraphTypes, Concludes, Layer
  <2>2. DOMAIN came' = Queries
    BY <1>1, <1>5 DEF GraphTypes
  <2> QED BY <1>1, <1>4, <1>8, <1>11, <2>1, <2>2 DEF GraphTypes, Unmoved
<1>13. /\ new = {e.target : e \in {x \in edges : x.source = v}} \ DOMAIN reached
       /\ by \in [new -> {x \in edges : x.source = v}]
  OBVIOUS
<1> HIDE DEF new, c, reached, h, now, later, old, out
<1>14. \A w \in new : by[w].target = w
  BY <1>5
<1>15. PICK longer : ReadOn(edges, old, after, c.from, h, now \ {v}, later, new, longer)
  BY <1>8, <1>9, <1>13, <1>14, LayerRead
<1> HIDE DEF after
<1>16. /\ Grown(edges, after, c.from, longer)
       /\ InLayers(old, after, longer, h, now \ {v}, later \cup new)
       /\ \A w \in new : Len(longer[w]) = h
  BY <1>15 DEF ReadOn
<1>17. CASE /\ c.to \in new /\ Concludes(q, Chain(after, c.from, c.to))
            /\ UNCHANGED <<frontier, ahead, hops>>
  <2>1. c.to \in DOMAIN after
    BY <1>10, <1>17
  <2>2. Chain(after, c.from, c.to) = longer[c.to]
    BY <1>16, <2>1, ChainIsIt
  <2>3. Leads(edges, c.from, longer[c.to], c.to)
    BY <1>16, <2>1 DEF Grown
  <2>4. PathAnswer(c, edges, old, longer[c.to])
    BY <1>8, <1>9, <1>16, <1>17, <2>3, FoundPaths
  <2>5. doing'[q] = "done" /\ result'[q] = longer[c.to]
    BY <1>1, <1>17, <2>2 DEF Concludes, GraphTypes
  <2>6. QueryInv(q)'
    BY <1>8, <1>11, <2>4, <2>5 DEF QueryInv, Done, c, old
  <2> QED BY <1>11, <1>12, <2>6, OneQuery
<1>18. CASE /\ c.to \notin new /\ now = {v}
            /\ Layer(q, h + 1, later \cup new) /\ ahead' = [ahead EXCEPT ![q] = {}]
  <2>1. c.to \notin DOMAIN after /\ now \ {v} = {}
    BY <1>8, <1>10, <1>18
  <2>2. InLayers(old, after, longer, h, {}, later \cup new)
    BY <1>16, <2>1
  <2>3. CASE h + 1 > c.max \/ later \cup new = {}
    <3>1. PathAnswer(c, edges, old, Nil)
      BY <1>8, <1>16, <2>1, <2>2, <2>3, NonePaths
    <3>2. doing'[q] = "done" /\ result'[q] = Nil
      BY <1>1, <1>11, <1>18, <2>3 DEF Layer, Concludes, GraphTypes, c
    <3>3. QueryInv(q)'
      BY <1>8, <1>11, <3>1, <3>2 DEF QueryInv, Done, c, old
    <3> QED BY <1>11, <1>12, <3>3, OneQuery
  <2>4. CASE ~ (h + 1 > c.max \/ later \cup new = {})
    <3>1. InLayers(old, after, longer, h + 1, later \cup new, {})
      BY <1>8, <2>2 DEF InLayers
    <3>2. Searches(c, edges, old, after, h + 1, later \cup new, {})
      BY <1>8, <1>16, <2>1, <2>4, <3>1 DEF Searches
    <3>3. /\ doing'[q] = "walking" /\ frontier'[q] = later \cup new /\ hops'[q] = h + 1
          /\ ahead'[q] = {}
      BY <1>1, <1>11, <1>18, <2>4 DEF Layer, GraphTypes, c
    <3>4. QueryInv(q)'
      BY <1>6, <1>11, <3>2, <3>3 DEF QueryInv, Done, c, old
    <3> QED BY <1>11, <1>12, <3>4, OneQuery
  <2> QED BY <2>3, <2>4
<1>19. CASE /\ c.to \notin new /\ now # {v} /\ frontier' = [frontier EXCEPT ![q] = now \ {v}]
            /\ ahead' = [ahead EXCEPT ![q] = later \cup new]
            /\ UNCHANGED <<doing, hops, result>>
  <2>1. now \ {v} # {} /\ c.to \notin DOMAIN after
    BY <1>8, <1>10, <1>19
  <2>2. Searches(c, edges, old, after, h, now \ {v}, later \cup new)
    BY <1>8, <1>16, <2>1 DEF Searches
  <2>3. /\ doing'[q] = "walking" /\ frontier'[q] = now \ {v} /\ hops'[q] = h
        /\ ahead'[q] = later \cup new
    BY <1>1, <1>19 DEF GraphTypes, h
  <2>4. QueryInv(q)'
    BY <1>6, <1>11, <2>2, <2>3 DEF QueryInv, Done, c, old
  <2> QED BY <1>11, <1>12, <2>4, OneQuery
<1> QED BY <1>7, <1>17, <1>18, <1>19 DEF new, after, c, reached, h, now, later
(* A call of find_path keeps the invariant.                                *)
LEMMA PathKeeps ==
  ASSUME GraphInv, NEW q \in Queries, NEW c \in Questions, Path(q, c)
  PROVE  GraphInv'
<1>1. /\ c.what = "path" /\ doing[q] = "idle" /\ search' = [search EXCEPT ![q] = c]
      /\ first' = [first EXCEPT ![q] = edges] /\ UNCHANGED <<nodes, edges, ahead, ids>>
      /\ came' = [came EXCEPT ![q] = [v \in {c.from} |-> Nil]]
      /\ IF c.from = c.to THEN Concludes(q, <<>>) /\ UNCHANGED <<frontier, hops>>
         ELSE Layer(q, 1, {c.from})
  BY DEF Path, Begins
<1>2. GraphTypes /\ ahead[q] = {} /\ c.max \in Nat
  BY <1>1, KnowledgeAssumption DEF GraphInv, GraphTypes
<1>3. /\ search'[q] = c /\ first'[q] = edges /\ came'[q] = [v \in {c.from} |-> Nil]
      /\ ahead'[q] = {}
  BY <1>1, <1>2 DEF GraphTypes
<1>4. \A p \in Queries \ {q} : Unmoved(p)
  BY <1>1, <1>2 DEF Unmoved, GraphTypes, Concludes, Layer
<1>5. GraphTypes'
  <2>1. /\ doing' \in [Queries -> {"idle", "walking", "nodes", "edges", "done"}]
        /\ \A f \in {frontier', hops', result'} : DOMAIN f = Queries
    BY <1>1, <1>2 DEF GraphTypes, Concludes, Layer
  <2>2. doing'[q] # "idle"
    BY <1>1, <1>2 DEF GraphTypes, Concludes, Layer
  <2>3. \A f \in {search', came', first', ids', ahead'} : DOMAIN f = Queries
    BY <1>1, <1>2 DEF GraphTypes
  <2> QED BY <1>1, <1>2, <1>3, <1>4, <2>1, <2>2, <2>3 DEF GraphTypes, Unmoved
<1>6. CASE c.from = c.to
  <2>1. doing'[q] = "done" /\ result'[q] = <<>>
    BY <1>1, <1>2, <1>6 DEF GraphTypes, Concludes
  <2>2. PICK p : p = <<>>
    OBVIOUS
  <2>3. p \in Seq(Edges) /\ Len(p) = 0
    BY <2>2
  <2>4. p # Nil
    BY <2>3, KnowledgeAssumption
  <2>5. DOMAIN p = 1 .. Len(p)
    BY <2>3
  <2>6. \A i \in DOMAIN p : FALSE
    BY <2>3, <2>5
  <2>7. \A n \in 0 .. c.max : p # Nil /\ Len(p) <= n
    BY <2>3, <2>4
  <2>8. IF p = <<>> THEN c.from = c.to ELSE p[Len(p)].target = c.to
    BY <1>6, <2>2
  <2>9. PathAnswer(c, edges, edges, p)
    BY <1>6, <2>6, <2>7, <2>8 DEF PathAnswer
  <2>10. QueryInv(q)'
    BY <1>1, <1>3, <2>1, <2>2, <2>9 DEF QueryInv, Done
  <2> QED BY <1>1, <1>4, <1>5, <2>10, OneQuery
<1>7. CASE c.from # c.to /\ 1 > c.max
  <2>1. doing'[q] = "done" /\ result'[q] = Nil
    BY <1>1, <1>2, <1>3, <1>7 DEF GraphTypes, Concludes, Layer
  <2>2. ASSUME NEW n \in 0 .. c.max, Walk(edges, FALSE, c.from, c.to, n) PROVE FALSE
    <3>1. n = 0
      BY <1>2, <1>7
    <3> QED BY <1>7, <2>2, <3>1 DEF Walk
  <2>3. PathAnswer(c, edges, edges, Nil)
    BY <2>2 DEF PathAnswer
  <2>4. QueryInv(q)'
    BY <1>1, <1>3, <2>1, <2>3 DEF QueryInv, Done
  <2> QED BY <1>1, <1>4, <1>5, <2>4, OneQuery
<1>8. CASE c.from # c.to /\ ~ (1 > c.max)
  <2>1. doing'[q] = "walking" /\ frontier'[q] = {c.from} /\ hops'[q] = 1
    BY <1>1, <1>2, <1>3, <1>8 DEF GraphTypes, Layer
  <2>2. Searches(c, edges, edges, came'[q], 1, {c.from}, {})
    BY <1>1, <1>2, <1>3, <1>8, PathBegins
  <2>3. QueryInv(q)'
    BY <1>1, <1>3, <2>1, <2>2 DEF QueryInv, Done
  <2> QED BY <1>1, <1>4, <1>5, <2>3, OneQuery
<1> QED BY <1>6, <1>7, <1>8

(* The levels of a search by ids. *)
IsLevels(level, seeds, depth, direction, ks) ==
    level = [n \in 0 .. depth |-> IF n = 0 THEN seeds ELSE Across(direction, ks, level[n - 1])]

(* To every depth there is a function of levels: a least depth without     *)
(* one would have one.                                                     *)
LEMMA LevelsExist ==
  ASSUME NEW seeds, NEW depth \in Nat, NEW direction, NEW ks
  PROVE  \E level : IsLevels(level, seeds, depth, direction, ks)
<1> DEFINE bad == {n \in Nat : ~ \E level : IsLevels(level, seeds, n, direction, ks)}
<1>1. SUFFICES ASSUME bad # {} PROVE FALSE
  OBVIOUS
<1>2. PICK n \in bad : \A k \in bad : n <= k
  <2>1. bad \in SUBSET Nat
    OBVIOUS
  <2> QED BY <1>1, <2>1, HasLeast
<1>3. n # 0
  <2> DEFINE one == [m \in 0 .. 0 |-> seeds]
  <2>1. \A m \in 0 .. 0 : m = 0
    OBVIOUS
  <2>2. IsLevels(one, seeds, 0, direction, ks)
    BY <2>1 DEF IsLevels
  <2> QED BY <2>2
<1>4. n \in Nat /\ n - 1 \in Nat
  BY <1>3
<1>5. PICK shorter : IsLevels(shorter, seeds, n - 1, direction, ks)
  <2>1. ~ (n <= n - 1)
    BY <1>4
  <2>2. n - 1 \notin bad
    BY <1>2, <2>1
  <2> QED BY <1>4, <2>2
<1> DEFINE longer == [m \in 0 .. n |-> IF m = n THEN Across(direction, ks, shorter[n - 1])
                                       ELSE shorter[m]]
<1>6. \A m \in 0 .. n - 1 :
        shorter[m] = IF m = 0 THEN seeds ELSE Across(direction, ks, shorter[m - 1])
  BY <1>5 DEF IsLevels
<1>7. ASSUME NEW m \in 0 .. n
      PROVE  longer[m] = IF m = 0 THEN seeds ELSE Across(direction, ks, longer[m - 1])
  <2>1. m # 0 => m - 1 \in 0 .. n /\ m - 1 # n
    BY <1>4
  <2>2. m # 0 => longer[m - 1] = shorter[m - 1]
    BY <2>1
  <2>3. CASE m = n
    BY <1>3, <2>2, <2>3
  <2>4. CASE m # n
    <3>1. m \in 0 .. n - 1
      BY <1>4, <2>4
    <3> QED BY <1>6, <2>2, <2>4, <3>1
  <2> QED BY <2>3, <2>4
<1>8. longer = [m \in 0 .. n |-> longer[m]]
  OBVIOUS
<1> HIDE DEF longer
<1>9. IsLevels(longer, seeds, n, direction, ks)
  BY <1>7, <1>8 DEF IsLevels
<1> QED BY <1>9

ReachedBy(level, seeds, depth, direction, ks) ==
    /\ \A n \in 0 .. depth :
          level[n] = IF n = 0 THEN seeds ELSE Across(direction, ks, level[n - 1])
    /\ Reach(seeds, depth, direction, ks) = UNION {level[n] : n \in 0 .. depth}

(* The entities that Reach gives are those of some level.                  *)
LEMMA ReachIsLevels ==
  ASSUME NEW seeds, NEW depth \in Nat, NEW direction, NEW ks
  PROVE  \E level : ReachedBy(level, seeds, depth, direction, ks)
<1> DEFINE level == CHOOSE f : IsLevels(f, seeds, depth, direction, ks)
<1>1. IsLevels(level, seeds, depth, direction, ks)
  BY LevelsExist
<1>2. Reach(seeds, depth, direction, ks) = UNION {level[n] : n \in 0 .. depth}
  BY DEF Reach, IsLevels
<1>3. \A n \in 0 .. depth :
        level[n] = IF n = 0 THEN seeds ELSE Across(direction, ks, level[n - 1])
  BY <1>1 DEF IsLevels
<1> QED BY <1>2, <1>3 DEF ReachedBy
Joins(e, u, v) == (e.source = u /\ e.target = v) \/ (e.target = u /\ e.source = v)

(* In both directions a step leads along an edge, whichever way it         *)
(* points.                                                                 *)
LEMMA StepsBothWays ==
  ASSUME NEW these, NEW v
  PROVE  v \in Across("both", Nil, these) <=> \E e \in edges : \E u \in these : Joins(e, u, v)
BY DEF Across, Joins

Levelled(level, seeds, depth) ==
    \A n \in 0 .. depth : level[n] = IF n = 0 THEN seeds ELSE Across("both", Nil, level[n - 1])

(* A walk through the levels. *)
Goes(level, seeds, v, n, w) ==
    /\ w \in [0 .. n -> Entities] /\ w[0] \in seeds /\ w[n] = v
    /\ \A i \in 0 .. n : w[i] \in level[i]
    /\ \A i \in 0 .. n - 1 : \E e \in edges : Joins(e, w[i], w[i + 1])

(* Whoever is in a level is joined to a seed by a walk of that many        *)
(* edges.                                                                  *)
LEMMA LevelsAreWalked ==
  ASSUME edges \subseteq Edges, NEW seeds \in SUBSET Entities, NEW depth \in Nat, NEW level,
         Levelled(level, seeds, depth), NEW n \in 0 .. depth, NEW v \in level[n]
  PROVE  \E w : Goes(level, seeds, v, n, w)
<1> DEFINE bad == {m \in 0 .. depth : \E u \in level[m] : ~ \E w : Goes(level, seeds, u, m, w)}
<1>1. SUFFICES ASSUME bad # {} PROVE FALSE
  OBVIOUS
<1>2. PICK m \in bad : \A k \in bad : m <= k
  <2>1. bad \in SUBSET Nat
    OBVIOUS
  <2> QED BY <1>1, <2>1, HasLeast
<1>3. PICK u \in level[m] : ~ \E w : Goes(level, seeds, u, m, w)
  BY <1>2
<1>4. CASE m = 0
  <2> DEFINE w == [i \in 0 .. 0 |-> u]
  <2>1. u \in seeds /\ u \in level[0] /\ u \in Entities
    BY <1>3, <1>4 DEF Levelled
  <2>2. w \in [0 .. 0 -> Entities] /\ w[0] = u /\ \A i \in 0 .. 0 : i = 0
    BY <2>1
  <2>3. \A i \in 0 .. 0 - 1 : FALSE
    OBVIOUS
  <2> HIDE DEF w
  <2>4. Goes(level, seeds, u, 0, w)
    BY <2>1, <2>2, <2>3 DEF Goes
  <2> QED BY <1>3, <1>4, <2>4
<1>5. CASE m # 0
  <2>1. m \in Nat /\ m - 1 \in 0 .. depth /\ m \in 0 .. depth /\ ~ (m <= m - 1)
    BY <1>2, <1>5
  <2>2. u \in Across("both", Nil, level[m - 1])
    BY <1>3, <1>5, <2>1 DEF Levelled
  <2>3. PICK e \in edges : \E t \in level[m - 1] : Joins(e, t, u)
    BY <2>2, StepsBothWays
  <2>4. PICK t \in level[m - 1] : Joins(e, t, u)
    BY <2>3
  <2>5. u \in Entities
    BY <2>3, <2>4, KnowledgeAssumption DEF Joins
  <2>6. PICK w : Goes(level, seeds, t, m - 1, w)
    <3>1. m - 1 \notin bad
      BY <1>2, <2>1
    <3> QED BY <2>1, <3>1
  <2> DEFINE longer == [i \in 0 .. m |-> IF i = m THEN u ELSE w[i]]
  <2>7. \A i \in 0 .. m : i # m => i \in 0 .. m - 1
    BY <2>1
  <2>8. w \in [0 .. m - 1 -> Entities] /\ w[0] \in seeds /\ w[m - 1] = t
    BY <2>6 DEF Goes
  <2>9. longer \in [0 .. m -> Entities]
    BY <2>5, <2>7, <2>8
  <2>10. longer[m] = u /\ \A i \in 0 .. m - 1 : longer[i] = w[i]
    BY <2>1
  <2> HIDE DEF longer
  <2>11. longer[0] = w[0]
    BY <1>5, <2>1, <2>10
  <2>12. ASSUME NEW i \in 0 .. m PROVE longer[i] \in level[i]
    BY <1>3, <2>6, <2>7, <2>10 DEF Goes
  <2>13. ASSUME NEW i \in 0 .. m - 1 PROVE \E x \in edges : Joins(x, longer[i], longer[i + 1])
    <3>1. CASE i = m - 1
      <4>1. longer[i] = t /\ longer[i + 1] = u
        <5>1. i + 1 = m
          BY <2>1, <3>1
        <5> QED BY <2>8, <2>10, <3>1, <5>1
      <4> QED BY <2>4, <4>1
    <3>2. CASE i # m - 1
      <4>1. i \in 0 .. (m - 1) - 1 /\ i + 1 \in 0 .. m - 1
        BY <2>1, <3>2
      <4>2. \E x \in edges : Joins(x, w[i], w[i + 1])
        BY <2>6, <4>1 DEF Goes
      <4> QED BY <2>10, <4>1, <4>2
    <3> QED BY <3>1, <3>2
  <2>14. Goes(level, seeds, u, m, longer)
    BY <2>8, <2>9, <2>10, <2>11, <2>12, <2>13 DEF Goes
  <2> QED BY <1>3, <2>14
<1> QED BY <1>4, <1>5

(* Whoever is joined to a seed by a walk of so many edges is in that       *)
(* level.                                                                  *)
LEMMA WalksAreLevels ==
  ASSUME NEW seeds, NEW depth \in Nat, NEW level, Levelled(level, seeds, depth),
         NEW n \in 0 .. depth, NEW s \in seeds, NEW v, Walk(edges, TRUE, s, v, n)
  PROVE  v \in level[n]
<1>1. PICK w \in [0 .. n -> Entities] :
        /\ w[0] = s /\ w[n] = v
        /\ \A i \in 0 .. n - 1 : \E e \in edges : Joins(e, w[i], w[i + 1])
  BY DEF Walk, Joins
<1> DEFINE bad == {i \in 0 .. n : w[i] \notin level[i]}
<1>2. SUFFICES ASSUME bad # {} PROVE FALSE
  BY <1>1
<1>3. PICK i \in bad : \A k \in bad : i <= k
  <2>1. bad \in SUBSET Nat
    OBVIOUS
  <2> QED BY <1>2, <2>1, HasLeast
<1>4. i # 0
  <2>1. level[0] = seeds
    BY DEF Levelled
  <2> QED BY <1>1, <1>3, <2>1
<1>5. i \in 0 .. depth /\ i - 1 \in 0 .. n /\ i - 1 \in 0 .. n - 1 /\ (i - 1) + 1 = i /\ ~ (i <= i - 1)
  BY <1>3, <1>4
<1>6. w[i - 1] \in level[i - 1]
  BY <1>3, <1>5
<1>7. \E e \in edges : Joins(e, w[i - 1], w[i])
  BY <1>1, <1>5
<1>8. w[i] \in Across("both", Nil, level[i - 1])
  BY <1>6, <1>7, StepsBothWays
<1>9. w[i] \in level[i]
  BY <1>4, <1>5, <1>8 DEF Levelled
<1> QED BY <1>3, <1>9
(* What Reach gives hangs together with the seeds, and leaves out nobody   *)
(* so near to them.                                                        *)
LEMMA ReachSurrounds ==
  ASSUME edges \subseteq Edges, NEW c \in Questions, c.what = "subgraph", NEW within,
         within = Reach(c.seeds, c.max, "both", Nil)
  PROVE  Surrounds(c, edges, edges, within)
<1>1. c.seeds \in SUBSET Entities /\ c.max \in Nat
  BY KnowledgeAssumption
<1>2. PICK level :
        /\ Levelled(level, c.seeds, c.max)
        /\ within = UNION {level[n] : n \in 0 .. c.max}
  <2>1. PICK level : ReachedBy(level, c.seeds, c.max, "both", Nil)
    BY <1>1, ReachIsLevels
  <2> QED BY <2>1 DEF Levelled, ReachedBy
<1>3. ASSUME NEW v \in within PROVE NearWithin(c, edges, v, within)
  <2>1. PICK n \in 0 .. c.max : v \in level[n]
    BY <1>2
  <2>2. PICK w : Goes(level, c.seeds, v, n, w)
    BY <1>1, <1>2, <2>1, LevelsAreWalked
  <2>3. /\ w \in [0 .. n -> Entities] /\ w[0] \in c.seeds /\ w[n] = v
        /\ \A i \in 0 .. n - 1 : \E e \in edges : Joins(e, w[i], w[i + 1])
        /\ \A i \in 0 .. n : w[i] \in level[i]
    BY <2>2 DEF Goes
  <2>4. \A i \in 0 .. n : i \in 0 .. c.max
    BY <1>1, <2>1
  <2>5. \A i \in 0 .. n : w[i] \in within
    BY <1>2, <2>3, <2>4
  <2> QED BY <2>1, <2>3, <2>5 DEF NearWithin, Joins
<1>4. ASSUME NEW v \in Entities, NearBy(c, edges, v) PROVE v \in within
  <2>1. PICK s \in c.seeds, n \in 0 .. c.max : Walk(edges, TRUE, s, v, n)
    BY <1>4 DEF NearBy
  <2>2. v \in level[n]
    BY <1>1, <1>2, <2>1, WalksAreLevels
  <2> QED BY <1>2, <2>2
<1> QED BY <1>3, <1>4 DEF Surrounds

(* A call of neighbors, related_files or subgraph keeps the invariant.     *)
LEMMA NearKeeps ==
  ASSUME GraphInv, NEW q \in Queries, NEW c \in Questions, Near(q, c)
  PROVE  GraphInv'
<1>1. /\ c.what # "path" /\ doing[q] = "idle" /\ search' = [search EXCEPT ![q] = c]
      /\ first' = [first EXCEPT ![q] = edges] /\ doing' = [doing EXCEPT ![q] = "nodes"]
      /\ UNCHANGED <<nodes, edges, frontier, ahead, came, hops, result>>
      /\ ids' = [ids EXCEPT ![q] =
            Reach(c.seeds, c.max, c.direction, IF c.ks = {} THEN Nil ELSE c.ks)
                \ (IF c.what = "subgraph" THEN {} ELSE c.seeds)]
  BY DEF Near, Begins, walkVars
<1>2. GraphTypes /\ edges \subseteq Edges
  BY DEF GraphInv, GraphTypes
<1>3. search'[q] = c /\ first'[q] = edges /\ doing'[q] = "nodes"
  BY <1>1, <1>2 DEF GraphTypes
<1>4. \A p \in Queries \ {q} : Unmoved(p)
  BY <1>1, <1>2 DEF Unmoved, GraphTypes
<1>5. GraphTypes'
  <2>1. /\ doing' \in [Queries -> {"idle", "walking", "nodes", "edges", "done"}]
        /\ \A f \in {search', first', ids'} : DOMAIN f = Queries
    BY <1>1, <1>2 DEF GraphTypes
  <2> QED BY <1>1, <1>2, <1>3, <1>4, <2>1 DEF GraphTypes, Unmoved
<1>6. c.what = "subgraph" => Surrounds(c, edges, edges, ids'[q])
  <2> SUFFICES ASSUME c.what = "subgraph" PROVE Surrounds(c, edges, edges, ids'[q])
    OBVIOUS
  <2>1. c.direction = "both" /\ c.ks = {}
    BY KnowledgeAssumption
  <2>2. ids'[q] = Reach(c.seeds, c.max, "both", Nil)
    BY <1>1, <1>2, <2>1 DEF GraphTypes
  <2> QED BY <1>2, <2>2, ReachSurrounds
<1>7. QueryInv(q)'
  BY <1>1, <1>3, <1>6 DEF QueryInv, Done
<1> QED BY <1>1, <1>4, <1>5, <1>7, OneQuery

(* Reading the nodes of what was found keeps the invariant.                *)
LEMMA NodesKeep ==
  ASSUME GraphInv, NEW q \in Queries, ReadNodes(q)
  PROVE  GraphInv'
<1>1. /\ doing[q] = "nodes" /\ UNCHANGED <<nodes, edges, search, frontier, ahead, came, hops, ids, first>>
      /\ result' = [result EXCEPT ![q] = [nodes |-> nodes \cap ids[q], edges |-> {}]]
      /\ doing' = [doing EXCEPT ![q] = IF search[q].what = "subgraph" THEN "edges" ELSE "done"]
  BY DEF ReadNodes, walkVars
<1>2. GraphTypes /\ QueryInv(q)
  BY DEF GraphInv
<1>3. /\ result'[q] = [nodes |-> nodes \cap ids[q], edges |-> {}]
      /\ doing'[q] = IF search[q].what = "subgraph" THEN "edges" ELSE "done"
  BY <1>1, <1>2 DEF GraphTypes
<1>4. \A p \in Queries \ {q} : Unmoved(p)
  BY <1>1, <1>2 DEF Unmoved, GraphTypes
<1>5. GraphTypes'
  <2>1. /\ doing' \in [Queries -> {"idle", "walking", "nodes", "edges", "done"}]
        /\ DOMAIN result' = Queries
    BY <1>1, <1>2 DEF GraphTypes
  <2> QED BY <1>1, <1>2, <1>3, <1>4, <2>1 DEF GraphTypes, Unmoved
<1>6. search[q].what # "path" /\ (search[q].what = "subgraph" => Surrounds(search[q], edges, first[q], ids[q]))
  BY <1>1, <1>2 DEF QueryInv
<1>7. \E n \in SUBSET ids[q] : result'[q] = [nodes |-> n, edges |-> {}]
  BY <1>3
<1>8. doing'[q] \in {"edges", "done"} /\ (doing'[q] = "done" => search[q].what # "subgraph")
  BY <1>3
<1>9. search' = search /\ edges' = edges /\ first' = first /\ ids' = ids
  BY <1>1
<1>10. QueryInv(q)'
  BY <1>6, <1>7, <1>8, <1>9 DEF QueryInv, Done
<1> QED BY <1>1, <1>4, <1>5, <1>10, OneQuery

(* Reading the edges between them keeps the invariant.                     *)
LEMMA EdgesKeep ==
  ASSUME GraphInv, NEW q \in Queries, ReadEdges(q)
  PROVE  GraphInv'
<1> DEFINE c == search[q]
           within == ids[q]
           among == {e \in edges : e.source \in within /\ e.target \in within}
<1>1. /\ doing[q] = "edges" /\ UNCHANGED <<nodes, edges, search, frontier, ahead, came, hops, ids, first>>
      /\ result' = [result EXCEPT ![q] = [result[q] EXCEPT !.edges = among]]
      /\ doing' = [doing EXCEPT ![q] = "done"]
  BY DEF ReadEdges, walkVars, Concludes
<1>2. GraphTypes /\ QueryInv(q)
  BY DEF GraphInv
<1>3. PICK n \in SUBSET within : result[q] = [nodes |-> n, edges |-> {}]
  BY <1>1, <1>2 DEF QueryInv
<1>4. result'[q] = [nodes |-> n, edges |-> among] /\ doing'[q] = "done"
  <2> HIDE DEF among
  <2>1. result'[q] = [result[q] EXCEPT !.edges = among] /\ doing'[q] = "done"
    BY <1>1, <1>2 DEF GraphTypes
  <2> QED BY <1>3, <2>1
<1>5. \A p \in Queries \ {q} : Unmoved(p)
  BY <1>1, <1>2 DEF Unmoved, GraphTypes
<1>6. GraphTypes'
  <2>1. /\ doing' \in [Queries -> {"idle", "walking", "nodes", "edges", "done"}]
        /\ DOMAIN result' = Queries
    BY <1>1, <1>2 DEF GraphTypes
  <2> QED BY <1>1, <1>2, <1>4, <1>5, <2>1 DEF GraphTypes, Unmoved
<1>7. c.what # "path"
  BY <1>1, <1>2 DEF QueryInv
<1>8. ASSUME c.what = "subgraph" PROVE SubgraphAnswer(c, first[q], within, result'[q])
  <2>1. Surrounds(c, edges, first[q], within)
    BY <1>1, <1>2, <1>8 DEF QueryInv
  <2>2. ASSUME NEW v \in n PROVE NearBy(c, among, v)
    <3>1. PICK s \in c.seeds, k \in 0 .. c.max : \E w \in [0 .. k -> Entities] :
            /\ w[0] = s /\ w[k] = v
            /\ \A i \in 0 .. k : w[i] \in within
            /\ \A i \in 0 .. k - 1 : \E e \in edges : Joins(e, w[i], w[i + 1])
      BY <2>1, <2>2 DEF Surrounds, NearWithin, Joins
    <3>2. PICK w \in [0 .. k -> Entities] :
            /\ w[0] = s /\ w[k] = v
            /\ \A i \in 0 .. k : w[i] \in within
            /\ \A i \in 0 .. k - 1 : \E e \in edges : Joins(e, w[i], w[i + 1])
      BY <3>1
    <3>3. ASSUME NEW i \in 0 .. k - 1 PROVE \E e \in among : Joins(e, w[i], w[i + 1])
      <4>1. i \in 0 .. k /\ i + 1 \in 0 .. k
        BY <1>2, KnowledgeAssumption
      <4> QED BY <3>2, <4>1 DEF Joins
    <3>4. Walk(among, TRUE, s, v, k)
      BY <3>2, <3>3 DEF Walk, Joins
    <3> QED BY <3>4 DEF NearBy
  <2> QED BY <1>4, <2>1, <2>2 DEF SubgraphAnswer, Surrounds
<1>9. QueryInv(q)'
  BY <1>1, <1>4, <1>7, <1>8 DEF QueryInv, Done
<1> QED BY <1>1, <1>5, <1>6, <1>9, OneQuery

(* What find_path and get_subgraph answer is true of a graph that others   *)
(* insert into between their reads: a path is one of stored edges, from    *)
(* the one to the other, and no path through edges that were there all     *)
(* along is shorter; a subgraph hangs together with its seeds and leaves   *)
(* out nothing that was so near all along. For any entities, edges,        *)
(* questions and number of queries.                                        *)
THEOREM AnswersAlwaysTrue == GraphInit /\ [][GraphStep]_graphVars => []GraphAnswers
<1>1. GraphInv /\ [GraphStep]_graphVars => GraphInv'
  <2> SUFFICES ASSUME GraphInv, [GraphStep]_graphVars PROVE GraphInv'
    OBVIOUS
  <2>1. CASE UNCHANGED graphVars
    <3>1. GraphTypes'
      BY <2>1 DEF graphVars, GraphInv, GraphTypes
    <3>2. \A q \in Queries : QueryInv(q)'
      BY <2>1 DEF graphVars, GraphInv, QueryInv, Done
    <3> QED BY <3>1, <3>2 DEF GraphInv
  <2>2. CASE (\E n \in Entities : UpsertNode(n)) \/ (\E e \in Edges : UpsertEdge(e))
    BY <2>2, UpsertsKeep
  <2>3. ASSUME NEW q \in Queries, ReadOutgoing(q) \/ ReadNodes(q) \/ ReadEdges(q) PROVE GraphInv'
    BY <2>3, ReadKeeps, NodesKeep, EdgesKeep
  <2>4. ASSUME NEW q \in Queries, NEW c \in Questions, Path(q, c) \/ Near(q, c) PROVE GraphInv'
    BY <2>4, PathKeeps, NearKeeps
  <2> QED BY <2>1, <2>2, <2>3, <2>4 DEF GraphStep
<1> QED BY <1>1, GraphStarts, AnswersFollow, PTL
============================================================================
