------------------------------ MODULE Catalog ------------------------------
(***************************************************************************)
(* The model catalog (saglayicilar/manager over cache/model_cache): what   *)
(* each provider offers is kept for a day.  A refresh goes through the     *)
(* providers in order, having read the clock once before the first; each   *)
(* list_models is awaited, so refreshes may overlap.                       *)
(***************************************************************************)
EXTENDS Integers, Sequences

CONSTANTS
    Registered,     \* the providers, in the order of their registration
    Refreshers,     \* tasks that call refresh_stale
    Ttl,            \* how long a list is fresh
    LastHour,       \* bound on the clock
    Unlisted

Sources == {Registered[k] : k \in DOMAIN Registered}

ASSUME CatalogAssumption ==
    /\ Registered \in Seq(Sources)
    /\ \A j, k \in DOMAIN Registered : Registered[j] = Registered[k] => j = k
    /\ Ttl \in Nat \ {0} /\ LastHour \in Nat

VARIABLES
    hour,           \* the clock
    entries,        \* per provider: [seen, at], or Unlisted
    turn,           \* which provider each refresher is at, or 0
    began,          \* the time it read
    taken,          \* when the list it awaits was made, or Unlisted
    overtaken       \* history: another list was stored while it waited

catalogVars == <<hour, entries, turn, began, taken, overtaken>>

CatalogInit ==
    /\ hour = 0
    /\ entries = [p \in Sources |-> Unlisted]
    /\ turn = [r \in Refreshers |-> 0]
    /\ began = [r \in Refreshers |-> 0]
    /\ taken = [r \in Refreshers |-> Unlisted]
    /\ overtaken = [r \in Refreshers |-> FALSE]

IsStale(p, now, kept) == kept[p] = Unlisted \/ now - kept[p].at >= Ttl

Tick ==
    /\ hour < LastHour /\ hour' = hour + 1
    /\ UNCHANGED <<entries, turn, began, taken, overtaken>>

(* The next provider whose list is stale, or the end of the refresh. *)
GoOn(r, k, now, kept) ==
    LET stale == {j \in k .. Len(Registered) : IsStale(Registered[j], now, kept)}
    IN /\ turn' = [turn EXCEPT ![r] = IF stale = {} THEN 0
                                      ELSE CHOOSE j \in stale : \A i \in stale : j <= i]
       /\ overtaken' = [q \in Refreshers |->
                            IF q = r THEN FALSE
                            ELSE overtaken[q] \/ (kept # entries /\ turn[q] = turn[r])]
       /\ taken' = [taken EXCEPT ![r] = Unlisted]

RefreshStale(r) ==
    /\ turn[r] = 0
    /\ began' = [began EXCEPT ![r] = hour]
    /\ GoOn(r, 1, hour, entries)
    /\ UNCHANGED <<hour, entries>>

(* The provider makes its list; the answer is on its way. *)
Lists(r) ==
    /\ turn[r] # 0 /\ taken[r] = Unlisted
    /\ taken' = [taken EXCEPT ![r] = hour]
    /\ UNCHANGED <<hour, entries, turn, began, overtaken>>

(* Mutant: the list is stored under the time at which it came. *)
StampOnArrival(r) == hour

Stamp(r) == began[r]

Stored(r) ==
    /\ turn[r] # 0 /\ taken[r] # Unlisted
    /\ entries' = [entries EXCEPT ![Registered[turn[r]]] = [seen |-> taken[r], at |-> Stamp(r)]]
    /\ GoOn(r, turn[r] + 1, began[r], entries')
    /\ UNCHANGED <<hour, began>>

(* A list_models that raises ends the refresh, for the later ones too; the *)
(* list that was kept stays.  So does a cancelled one.                     *)
RefreshFails(r) ==
    /\ turn[r] # 0
    /\ turn' = [turn EXCEPT ![r] = 0]
    /\ taken' = [taken EXCEPT ![r] = Unlisted]
    /\ overtaken' = [overtaken EXCEPT ![r] = FALSE]
    /\ UNCHANGED <<hour, entries, began>>

CatalogStep ==
    \/ Tick
    \/ \E r \in Refreshers : RefreshStale(r) \/ Lists(r) \/ Stored(r) \/ RefreshFails(r)

----------------------------------------------------------------------------
CatalogTypeOK ==
    /\ hour \in 0 .. LastHour
    /\ turn \in [Refreshers -> 0 .. Len(Registered)]
    /\ began \in [Refreshers -> 0 .. LastHour]

(* What is held to be fresh is: a list that is not stale shows what its    *)
(* provider offered less than a lifetime ago, though fetched by a refresh  *)
(* that began before others ended; and a list gives way to one made before *)
(* it only where two refreshes were waiting for that provider at once.     *)
CatalogFresh ==
    \A p \in Sources :
        entries[p] # Unlisted /\ ~IsStale(p, hour, entries) => hour - entries[p].seen < Ttl

NewerStays ==
    \A p \in Sources :
        entries[p] # Unlisted /\ entries'[p] # Unlisted /\ entries'[p].seen < entries[p].seen
        => \E r \in Refreshers : turn[r] # 0 /\ Registered[turn[r]] = p /\ overtaken[r]

CatalogHolds == [][CatalogFresh' /\ NewerStays]_catalogVars
============================================================================
