------------------------------ MODULE Indexes ------------------------------
(***************************************************************************)
(* The chunk indexes of a workspace (depo/fts, depo/vec): words and        *)
(* vectors by chunk id, each upsert a delete and an insert in one unit.    *)
(* The vector table is made by whoever first opens it, with that caller's  *)
(* dimension; a later open with another dimension is not refused, and it   *)
(* is then the extension that refuses the vectors.                         *)
(***************************************************************************)
EXTENDS Naturals, FiniteSets

CONSTANTS
    Chunks,         \* chunk ids
    Words,          \* what a chunk's text is made of
    Dims,           \* vector dimensions in use
    Handles,        \* openings of the vector index
    VectorReady,    \* whether the extension was loaded
    Missing

ASSUME IndexesAssumption ==
    /\ Dims \subseteq Nat \ {0} /\ VectorReady \in BOOLEAN
    /\ Missing \notin Dims

VARIABLES
    words,          \* the words indexed under each chunk
    vectors,        \* the dimension of the vector under each chunk
    tableDim,       \* the vector table's dimension
    handleDim,      \* each handle's
    found           \* the last search's answer: what it asked, and the chunks

indexVars == <<words, vectors, tableDim, handleDim, found>>

IndexesInit ==
    /\ words = [c \in Chunks |-> Missing]
    /\ vectors = [c \in Chunks |-> Missing]
    /\ tableDim = Missing
    /\ handleDim = [h \in Handles |-> Missing]
    /\ found = Missing

UpsertWords(c, text) ==
    /\ words' = [words EXCEPT ![c] = text]
    /\ UNCHANGED <<vectors, tableDim, handleDim, found>>

Best(hits, k) ==
    {some \in SUBSET hits : Cardinality(some) = IF Cardinality(hits) < k THEN Cardinality(hits) ELSE k}

(* The tokens are phrases joined by OR; of no tokens nothing is asked. *)
SearchWords(text, k) ==
    LET hits == {c \in Chunks : words[c] # Missing /\ words[c] \cap text # {}}
    IN  /\ \E some \in Best(hits, k) : found' = [words |-> text, chunks |-> some]
        /\ UNCHANGED <<words, vectors, tableDim, handleDim>>

OpenVector(h, dim) ==
    /\ VectorReady
    /\ handleDim' = [handleDim EXCEPT ![h] = dim]
    /\ tableDim' = IF tableDim = Missing THEN dim ELSE tableDim
    /\ UNCHANGED <<words, vectors, found>>

(* Mutant: what was deleted for the insert that fails is not brought back. *)
UpsertVectorBare(h, c, dim) ==
    /\ handleDim[h] = dim
    /\ vectors' = [vectors EXCEPT ![c] = IF dim = tableDim THEN dim ELSE Missing]
    /\ UNCHANGED <<words, tableDim, handleDim, found>>

(* A vector that is not of the handle's dimension is refused at once, one  *)
(* that is not of the table's by the insert, and the unit rolled back.     *)
UpsertVector(h, c, dim) ==
    /\ handleDim[h] = dim
    /\ vectors' = [vectors EXCEPT ![c] = IF dim = tableDim THEN dim ELSE @]
    /\ UNCHANGED <<words, tableDim, handleDim, found>>

SearchVectors(h, dim, k) ==
    /\ handleDim[h] = dim /\ dim = tableDim
    /\ \E some \in Best({c \in Chunks : vectors[c] # Missing}, k) :
          found' = [dim |-> dim, chunks |-> some]
    /\ UNCHANGED <<words, vectors, tableDim, handleDim>>

IndexesStep ==
    \/ \E c \in Chunks, text \in SUBSET Words : UpsertWords(c, text)
    \/ \E text \in SUBSET Words \ {{}}, k \in 0 .. 2 : SearchWords(text, k)
    \/ \E h \in Handles, dim \in Dims :
          \/ OpenVector(h, dim)
          \/ \E c \in Chunks : UpsertVector(h, c, dim)
          \/ \E k \in 0 .. 2 : SearchVectors(h, dim, k)

----------------------------------------------------------------------------
(* Whichever dimensions the handles were opened with and whatever upsert   *)
(* fails, a chunk that has a vector keeps one, all vectors are comparable, *)
(* and a vector search finds no chunk whose vector is of another dimension *)
(* than the one asked with.                                                *)
StaysIndexed ==
    [][/\ \A c \in Chunks : vectors[c] # Missing => vectors'[c] = tableDim
       /\ \A h \in Handles, dim \in Dims, k \in 0 .. 2 :
             SearchVectors(h, dim, k) => \A c \in found'.chunks : vectors[c] = dim]_indexVars
============================================================================
