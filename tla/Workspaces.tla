----------------------------- MODULE Workspaces ----------------------------
(***************************************************************************)
(* The workspace runtime (calisma_alani): a registry of workspaces, the  *)
(* current one, and the services bound to an opened one.  Two interfaces   *)
(* change a workspace's state: the manager, which binds services and sets  *)
(* the state without looking at it, and the lifecycle, which looks at the  *)
(* state and leaves the services and the current workspace alone.          *)
(*                                                                         *)
(* Every operation is synchronous.  Of the bound services only the         *)
(* conversation runtime is the workspace's own: each opening that finds    *)
(* none builds a new one (calisma_alani/kompozisyon.py).                   *)
(***************************************************************************)
EXTENDS Naturals

CONSTANTS
    Spaces,         \* workspace ids
    MaxRuntimes,    \* bound on conversation runtimes built for workspaces
    None            \* no workspace, no runtime, no turn

ASSUME SpacesAssumption == MaxRuntimes \in Nat /\ None \notin Spaces \cup Nat

VARIABLES
    wstate,         \* the state of each workspace
    services,       \* the conversation runtime bound to it
    current,        \* the current workspace
    dropped,        \* auxiliary: it was deleted behind the manager's back
    built           \* how many runtimes have been built

spaceVars == <<wstate, services, current, dropped, built>>

Runtimes == 0 .. MaxRuntimes    \* 0 is the container's own
WorkspaceStates == {"absent", "CREATED", "ACTIVE", "INACTIVE", "ARCHIVED", "SHUTDOWN"}
Present(w) == wstate[w] # "absent"

SpacesInit ==
    /\ wstate = [w \in Spaces |-> "absent"]
    /\ services = [w \in Spaces |-> None]
    /\ current = None /\ dropped = FALSE
    /\ built = 0

SetState(w, target) == wstate' = [wstate EXCEPT ![w] = target]

Create(w) ==
    /\ ~ Present(w)
    /\ SetState(w, "CREATED")
    /\ UNCHANGED <<services, current, dropped, built>>

(* Mutant: the factory hands out the container's own runtime. *)
OpenShared(w) ==
    /\ Present(w)
    /\ services' = [services EXCEPT ![w] = IF @ = None THEN 0 ELSE @]
    /\ SetState(w, "ACTIVE")
    /\ current' = w /\ dropped' = FALSE
    /\ UNCHANGED built

(* open, and switch, which is open. *)
Open(w) ==
    /\ Present(w)
    /\ IF services[w] = None
       THEN /\ built < MaxRuntimes
            /\ built' = built + 1
            /\ services' = [services EXCEPT ![w] = built + 1]
       ELSE UNCHANGED <<services, built>>
    /\ SetState(w, "ACTIVE")
    /\ current' = w /\ dropped' = FALSE

NoLongerCurrent(w) ==
    /\ current' = IF current = w THEN None ELSE current
    /\ dropped' = (dropped /\ current # w)

Close(w) ==
    /\ Present(w)
    /\ services' = [services EXCEPT ![w] = None]
    /\ SetState(w, "INACTIVE")
    /\ NoLongerCurrent(w)
    /\ UNCHANGED built

(* The session object goes, with what was bound to it.  An id that is not  *)
(* registered is refused, when it has ceased to be the current one.        *)
Drop(w) ==
    /\ services' = [services EXCEPT ![w] = None]
    /\ SetState(w, "absent")
    /\ UNCHANGED built
Delete(w) == Drop(w) /\ NoLongerCurrent(w)

(* The registry deletes as well, and knows of no current workspace: the    *)
(* manager's id of it is left, and finds whatever is registered under it.  *)
Unlist(w) ==
    /\ Present(w)
    /\ Drop(w)
    /\ dropped' = (dropped \/ current = w)
    /\ UNCHANGED current

(* The lifecycle's table; archive is also the registry's, from any state.  *)
(* initialize changes nothing.                                             *)
MayBecome(from) ==
    CASE from \in {"CREATED", "INACTIVE"} -> {"ACTIVE", "ARCHIVED", "SHUTDOWN"}
      [] from = "ACTIVE" -> {"INACTIVE", "ARCHIVED", "SHUTDOWN"}
      [] from = "ARCHIVED" -> {"INACTIVE", "SHUTDOWN"}
      [] from = "SHUTDOWN" -> {"ARCHIVED"}

Transition(w, target) ==
    /\ Present(w)
    /\ target \in MayBecome(wstate[w])
    /\ SetState(w, target)
    /\ UNCHANGED <<services, current, dropped, built>>

SpaceStep ==
    \E w \in Spaces :
        \/ Create(w) \/ Open(w) \/ Close(w) \/ Delete(w) \/ Unlist(w)
        \/ \E target \in WorkspaceStates : Transition(w, target)

----------------------------------------------------------------------------
SpacesTypeOK ==
    /\ wstate \in [Spaces -> WorkspaceStates]
    /\ services \in [Spaces -> 1 .. built \cup {None}]
    /\ current \in Spaces \cup {None} /\ dropped \in BOOLEAN
    /\ built \in Runtimes

(* Whatever mixture of the two interfaces was used, archiving, restoring   *)
(* and shutting down included: the current workspace is registered and has *)
(* its services, unless it was deleted through the registry; no two        *)
(* workspaces have the same ones, and none has those of the container.     *)
OwnServices ==
    /\ current # None /\ ~ dropped => Present(current) /\ services[current] # None
    /\ \A w, v \in Spaces : w # v /\ services[w] # None => services[w] # services[v]
    /\ \A w \in Spaces : services[w] # 0
============================================================================
