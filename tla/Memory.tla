------------------------------- MODULE Memory ------------------------------
(***************************************************************************)
(* The memory repository (depo/repos/bellek): items that editors get,      *)
(* change and save, and that are pinned, forgotten and purged meanwhile;   *)
(* recall answers with the most salient of those it may show.  Each        *)
(* operation is one unit of the database; a get and the save that follows  *)
(* are two.                                                                *)
(***************************************************************************)
EXTENDS Naturals, Sequences, FiniteSets

CONSTANTS
    Ids,            \* memory ids: numbers, whose order is that of the ids
    Drafts,         \* items a caller may save
    Edits,          \* the states an editor may give the item it holds
    Asked,          \* what recall may be asked: [scope, layers, limit]
    Editors,        \* callers that hold an item they got
    Nothing

States == {"candidate", "active", "pinned", "dormant", "superseded", "purged"}

ASSUME MemoryAssumption ==
    /\ Ids \subseteq Nat /\ IsFiniteSet(Ids) /\ Edits \subseteq States
    /\ \A ask \in Asked : ask.limit \in Nat
    /\ \A item \in Drafts \ {Nothing} :
          /\ DOMAIN item = {"scope", "layer", "state", "pinned", "salience"}
          /\ item.salience \in Nat

VARIABLES
    rows,           \* the item under each id, or Nothing
    forgotten,      \* the ids whose row bears the tombstone
    held,           \* what each editor got: an id and its item
    recalled,       \* the last recall: what was asked, and the ids given
    dismissed       \* the ids forgotten and not purged since

memoryVars == <<rows, forgotten, held, recalled, dismissed>>

MemoryInit ==
    /\ rows = [i \in Ids |-> Nothing]
    /\ forgotten = {}
    /\ held = [e \in Editors |-> Nothing]
    /\ recalled = Nothing
    /\ dismissed = {}

(* get sees forgotten items too. *)
Get(e, i) ==
    /\ rows[i] # Nothing
    /\ held' = [held EXCEPT ![e] = [id |-> i, item |-> rows[i]]]
    /\ UNCHANGED <<rows, forgotten, recalled, dismissed>>

(* Mutant: the row is replaced, its tombstone with it. *)
PutWhole(i, item) ==
    /\ rows' = [rows EXCEPT ![i] = item]
    /\ forgotten' = forgotten \ {i}

(* The upsert leaves the tombstone of a row that is there. *)
Put(i, item) ==
    /\ rows' = [rows EXCEPT ![i] = item]
    /\ UNCHANGED forgotten

SaveNew(i, item) ==
    /\ Put(i, item)
    /\ UNCHANGED <<held, recalled, dismissed>>

(* What an editor changes is the item's state. *)
SaveHeld(e, state) ==
    /\ held[e] # Nothing
    /\ Put(held[e].id, [held[e].item EXCEPT !.state = state])
    /\ held' = [held EXCEPT ![e] = Nothing]
    /\ UNCHANGED <<recalled, dismissed>>

SetPinned(i, to) ==
    /\ rows[i] # Nothing
    /\ rows' = [rows EXCEPT ![i].pinned = to]
    /\ UNCHANGED <<forgotten, held, recalled, dismissed>>

Forget(i) ==
    /\ rows[i] # Nothing
    /\ forgotten' = forgotten \cup {i}
    /\ dismissed' = dismissed \cup {i}
    /\ UNCHANGED <<rows, held, recalled>>

Purge(i) ==
    /\ rows' = [rows EXCEPT ![i] = Nothing]
    /\ forgotten' = forgotten \ {i}
    /\ dismissed' = dismissed \ {i}
    /\ UNCHANGED <<held, recalled>>

(* Candidates, dormant and pinned items are shown like active ones; no     *)
(* layers given are all layers.                                            *)
Shown(ask) ==
    {i \in Ids : /\ rows[i] # Nothing
                 /\ rows[i].scope = ask.scope
                 /\ i \notin forgotten
                 /\ rows[i].state # "superseded"
                 /\ ask.layers # Nothing => rows[i].layer \in ask.layers}

Ahead(i, j) ==
    \/ rows[i].salience > rows[j].salience
    \/ rows[i].salience = rows[j].salience /\ i < j

Recall(ask) ==
    LET shown == Shown(ask)
        given == {i \in shown : Cardinality({j \in shown : Ahead(j, i)}) < ask.limit}
    IN  /\ \E q \in [1 .. Cardinality(given) -> given] :
              /\ \A m, n \in DOMAIN q : m < n => Ahead(q[m], q[n])
              /\ recalled' = [ask |-> ask, ids |-> q]
        /\ UNCHANGED <<rows, forgotten, held, dismissed>>

MemoryStep ==
    \/ \E i \in Ids :
          \/ Forget(i) \/ Purge(i)
          \/ \E to \in BOOLEAN : SetPinned(i, to)
          \/ \E item \in Drafts : SaveNew(i, item)
          \/ \E e \in Editors : Get(e, i)
    \/ \E e \in Editors, state \in Edits : SaveHeld(e, state)
    \/ \E ask \in Asked : Recall(ask)

----------------------------------------------------------------------------
(* Once forgotten, an item is in no recall until it has been purged and    *)
(* saved anew, whoever had got it before and saves it after; and what      *)
(* recall leaves out for its limit is not more salient than what it gives. *)
RecallHonest ==
    [][recalled' # recalled =>
          LET given == {recalled'.ids[n] : n \in DOMAIN recalled'.ids}
          IN  /\ given \cap dismissed = {}
              /\ \A i \in given : \A j \in Shown(recalled'.ask) \ given :
                    /\ rows[j].salience <= rows[i].salience
                    /\ Cardinality(given) = recalled'.ask.limit]_memoryVars
============================================================================
