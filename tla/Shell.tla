------------------------------- MODULE Shell -------------------------------
(***************************************************************************)
(* The supervision of the Core process by the desktop shell: DesktopApp    *)
(* (app.rs) over CoreLifecycle (lifecycle.rs), CoreProcess                 *)
(* (core_process.rs) and CoreBridge (bridge.rs).                           *)
(*                                                                         *)
(* Operations are invoked concurrently, as Tauri commands are.  Each works *)
(* under the one lifecycle lock, and the two that start a Core take it a   *)
(* second time to fetch the event streams of the process they find there,  *)
(* and attach the bridge to them after giving it back.  The channel is     *)
(* abstracted to what the supervisor sees of it: an answer, an error, a    *)
(* deadline, or nothing.  Processes are numbered in the order of their     *)
(* spawning.                                                               *)
(***************************************************************************)
EXTENDS Naturals, FiniteSets

CONSTANTS
    Ops,          \* invocations
    Nobody,
    MaxRestarts,  \* LifecycleConfig.max_restarts
    MaxSpawns     \* a bound on the processes spawned

ASSUME ShellAssumption ==
    /\ Nobody \notin Ops
    /\ MaxRestarts \in Nat /\ MaxSpawns \in Nat \ {0}

VARIABLES
    pc,        \* how far each operation is
    kind,      \* which operation it is
    own,       \* the process it is dealing with
    lock,      \* the holder of Arc<Mutex<CoreLifecycle>>
    status,    \* ShellState.status
    restarts,  \* ShellState.restart_count
    current,   \* CoreLifecycle.current, 0 when None
    taken,     \* the processes whose event streams have been taken
    bridge,    \* the process whose streams the bridge serves, 0 when none
    proc,      \* the processes
    overtaken  \* history: an attach came after the process had been replaced,
               \* or a recovery, which rewires nothing, put another there

opVars == <<pc, kind, own>>
lifeVars == <<lock, status, restarts, current, taken>>
vars == <<opVars, lifeVars, bridge, proc, overtaken>>

Kinds == {"bootstrap", "restart", "shutdown", "recover", "health"}
Processes == 1 .. MaxSpawns
Alive(g) == proc[g] \in {"up", "hung"}

Init ==
    /\ pc = [o \in Ops |-> "idle"] /\ kind = [o \in Ops |-> "none"]
    /\ own = [o \in Ops |-> 0]
    /\ lock = Nobody /\ status = "Stopped" /\ restarts = 0 /\ current = 0 /\ taken = {}
    /\ bridge = 0
    /\ proc = [g \in Processes |-> "none"]
    /\ overtaken = FALSE

Goto(o, where) == pc' = [pc EXCEPT ![o] = where]

(* The operation takes the lock and goes on under it. *)
Locked(o, k) == pc[o] = "called" /\ kind[o] = k /\ lock = Nobody
Enter(o, where) == lock' = o /\ Goto(o, where)

(* It ends and the lock, if it was held, comes back. *)
Leave(o) == Goto(o, "ended") /\ lock' = Nobody

-----------------------------------------------------------------------------
(* DesktopApp::shutdown aborts the bridge before it waits for the lock. *)
Call(o, k) ==
    /\ pc[o] = "idle"
    /\ Goto(o, "called") /\ kind' = [kind EXCEPT ![o] = k]
    /\ bridge' = IF k = "shutdown" THEN 0 ELSE bridge
    /\ UNCHANGED <<own, lifeVars, proc, overtaken>>

(* start: refused while there is a current process, dead or alive. *)
Start(o) ==
    /\ Locked(o, "bootstrap")
    /\ IF current # 0 THEN Leave(o) /\ UNCHANGED status
                      ELSE Enter(o, "spawning") /\ status' = "Starting"
    /\ UNCHANGED <<kind, own, restarts, current, taken, bridge, proc, overtaken>>

(* stop_current up to its await: current is taken, and app.shutdown sent.  *)
StopCurrent(o, otherwise) ==
    /\ Enter(o, IF current = 0 THEN otherwise ELSE "stopping")
    /\ own' = [own EXCEPT ![o] = current]
    /\ current' = 0

(* restart: the budget is checked before anything is touched. *)
Restart(o) ==
    /\ Locked(o, "restart")
    /\ IF restarts >= MaxRestarts
       THEN Leave(o) /\ UNCHANGED <<own, status, current>>
       ELSE status' = "Restarting" /\ StopCurrent(o, "spawning")
    /\ UNCHANGED <<kind, restarts, taken, bridge, proc, overtaken>>

(* recover_if_crashed: only when the Core was meant to run and its process *)
(* has exited.                                                             *)
Recover(o) ==
    /\ Locked(o, "recover")
    /\ IF status # "Running" \/ (current # 0 /\ Alive(current))
       THEN Leave(o) /\ UNCHANGED <<own, status, current>>
       ELSE IF restarts >= MaxRestarts
       THEN Leave(o) /\ status' = "Crashed" /\ UNCHANGED <<own, current>>
       ELSE status' = "Restarting" /\ StopCurrent(o, "spawning")
    /\ UNCHANGED <<kind, restarts, taken, bridge, proc, overtaken>>

Shutdown(o) ==
    /\ Locked(o, "shutdown")
    /\ StopCurrent(o, "stopped")
    /\ UNCHANGED <<kind, status, restarts, taken, bridge, proc, overtaken>>

(* The request app.shutdown, made without a deadline, is answered or fails *)
(* with the channel of a process that has exited.                          *)
ShutdownRequestEnds(o) ==
    /\ pc[o] = "stopping" /\ proc[own[o]] # "hung"
    /\ Goto(o, "grace")
    /\ UNCHANGED <<kind, own, lifeVars, bridge, proc, overtaken>>

(* CoreProcess::shutdown: the process exits, or is killed at the end of    *)
(* the grace period.                                                       *)
ProcessGone(o) ==
    /\ pc[o] = "grace"
    /\ proc' = [proc EXCEPT ![own[o]] = "exited"]
    /\ Goto(o, IF kind[o] = "shutdown" THEN "stopped" ELSE "spawning")
    /\ UNCHANGED <<kind, own, lifeVars, bridge, overtaken>>

(* The last lines of shutdown. *)
ShutdownEnds(o) ==
    /\ pc[o] = "stopped"
    /\ status' = "Stopped" /\ Leave(o)
    /\ UNCHANGED <<kind, own, restarts, current, taken, bridge, proc, overtaken>>

(* A mutant: a failed start leaves the status as it is. *)
FailedKeepingStatus(o) ==
    /\ Leave(o)
    /\ UNCHANGED <<kind, status, restarts, current, taken, bridge, overtaken>>

-----------------------------------------------------------------------------
(* start goes back to Stopped when spawn_running fails; restart passes the *)
(* error on as it is.                                                      *)
Failed(o) ==
    /\ Leave(o)
    /\ status' = IF kind[o] = "bootstrap" THEN "Stopped" ELSE status
    /\ UNCHANGED <<kind, restarts, current, taken, bridge, overtaken>>

SpawnFails(o) == pc[o] = "spawning" /\ Failed(o) /\ UNCHANGED <<own, proc>>

Spawn(o) ==
    /\ pc[o] = "spawning"
    /\ \E g \in Processes :
        /\ proc[g] = "none" /\ \A h \in Processes : h < g => proc[h] # "none"
        /\ proc' = [proc EXCEPT ![g] = "up"]
        /\ own' = [own EXCEPT ![o] = g]
    /\ Goto(o, "gate")
    /\ UNCHANGED <<kind, lifeVars, bridge, overtaken>>

(* The startup heartbeat is answered. *)
GatePassed(o) ==
    /\ pc[o] = "gate" /\ proc[own[o]] = "up"
    /\ current' = own[o] /\ status' = "Running"
    /\ restarts' = IF kind[o] = "bootstrap" THEN restarts ELSE restarts + 1
    /\ lock' = Nobody
    /\ Goto(o, IF kind[o] = "recover" THEN "ended" ELSE "unwired")
    /\ overtaken' = (overtaken \/ kind[o] = "recover")
    /\ UNCHANGED <<kind, own, taken, bridge, proc>>

(* It is answered with an error, meets a closed channel or its deadline:   *)
(* the process is killed and waited for.                                   *)
GateFailed(o) ==
    /\ pc[o] = "gate"
    /\ proc' = [proc EXCEPT ![own[o]] = "exited"]
    /\ Failed(o) /\ UNCHANGED own

-----------------------------------------------------------------------------
(* rewire takes the streams of whatever process is current by now. *)
Rewire(o) ==
    /\ pc[o] = "unwired" /\ lock = Nobody
    /\ IF current = 0 \/ current \in taken
       THEN Goto(o, "ended") /\ UNCHANGED <<own, taken>>
       ELSE /\ Goto(o, "attaching")
            /\ own' = [own EXCEPT ![o] = current]
            /\ taken' = taken \cup {current}
    /\ UNCHANGED <<kind, lock, status, restarts, current, bridge, proc, overtaken>>

(* A mutant: workers already attached are kept. *)
AttachOnce(o) ==
    /\ pc[o] = "attaching"
    /\ bridge' = IF bridge = 0 THEN own[o] ELSE bridge
    /\ overtaken' = (overtaken \/ own[o] # current)
    /\ Goto(o, "ended")
    /\ UNCHANGED <<kind, own, lifeVars, proc>>

(* CoreBridge::attach, without the lock, replaces whatever was attached. *)
Attach(o) ==
    /\ pc[o] = "attaching"
    /\ bridge' = own[o]
    /\ overtaken' = (overtaken \/ own[o] # current)
    /\ Goto(o, "ended")
    /\ UNCHANGED <<kind, own, lifeVars, proc>>

(* ShellApi::health holds the lock during the heartbeat. *)
Health(o) ==
    /\ Locked(o, "health")
    /\ IF current = 0 THEN Leave(o) ELSE Enter(o, "beating")
    /\ UNCHANGED <<kind, own, status, restarts, current, taken, bridge, proc, overtaken>>

(* A mutant: a heartbeat without a deadline. *)
HealthAnswered(o) ==
    /\ pc[o] = "beating" /\ proc[current] # "hung"
    /\ Leave(o)
    /\ UNCHANGED <<kind, own, status, restarts, current, taken, bridge, proc, overtaken>>

(* The heartbeat is answered or meets its deadline. *)
HealthEnds(o) ==
    /\ pc[o] = "beating"
    /\ Leave(o)
    /\ UNCHANGED <<kind, own, status, restarts, current, taken, bridge, proc, overtaken>>

(* A Core exits on its own, or stops answering. *)
Crash(g) ==
    /\ Alive(g)
    /\ proc' = [proc EXCEPT ![g] = "exited"]
    /\ UNCHANGED <<opVars, lifeVars, bridge, overtaken>>

Hang(g) ==
    /\ proc[g] = "up"
    /\ proc' = [proc EXCEPT ![g] = "hung"]
    /\ UNCHANGED <<opVars, lifeVars, bridge, overtaken>>

-----------------------------------------------------------------------------
OpStep(o) ==
    \/ Start(o) \/ Restart(o) \/ Recover(o) \/ Shutdown(o) \/ Health(o)
    \/ ShutdownRequestEnds(o) \/ ProcessGone(o) \/ ShutdownEnds(o)
    \/ SpawnFails(o) \/ Spawn(o) \/ GatePassed(o) \/ GateFailed(o)
    \/ Rewire(o) \/ Attach(o) \/ HealthEnds(o)

Next ==
    \/ \E o \in Ops : OpStep(o) \/ \E k \in Kinds : Call(o, k)
    \/ \E g \in Processes : Crash(g) \/ Hang(g)

Spec == Init /\ [][Next]_vars

(* The runtime runs what is ready, and its lock serves waiters in turn.    *)
Fairness == \A o \in Ops : WF_vars(OpStep(o))

FairSpec == Spec /\ Fairness

-----------------------------------------------------------------------------
(* Properties. *)

(* Every variable keeps its type. *)
TypeOK ==
    /\ pc \in [Ops -> {"idle", "called", "stopping", "grace", "stopped", "spawning", "gate",
                       "unwired", "attaching", "beating", "ended"}]
    /\ kind \in [Ops -> Kinds \cup {"none"}] /\ own \in [Ops -> 0 .. MaxSpawns]
    /\ lock \in Ops \cup {Nobody}
    /\ status \in {"Stopped", "Starting", "Running", "Restarting", "Crashed"}
    /\ restarts \in 0 .. MaxRestarts
    /\ current \in 0 .. MaxSpawns /\ taken \subseteq Processes
    /\ bridge \in 0 .. MaxSpawns
    /\ proc \in [Processes -> {"none", "up", "hung", "exited"}]
    /\ overtaken \in BOOLEAN

(* There are never two Core processes, whatever is started, restarted and  *)
(* recovered at once: the Core is the single writer of its store.          *)
OneCore == \A g, h \in Processes : Alive(g) /\ Alive(h) => g = h

(* Two are never alive, and what the shell reports, whenever a command can *)
(* read it, is what is there: a Core that is Running or Crashed can be     *)
(* stopped, Crashed means the restart budget is spent, and without a       *)
(* current process none is alive.                                          *)
StatusHonest ==
    /\ OneCore
    /\ lock = Nobody =>
        /\ status \in {"Running", "Crashed"} <=> current # 0
        /\ status \in {"Stopped", "Restarting"} <=> current = 0
        /\ status = "Crashed" => restarts = MaxRestarts /\ ~Alive(current)
        /\ \A g \in Processes : Alive(g) => g = current

Idle == \A o \in Ops : pc[o] \in {"idle", "ended"}

(* Once every operation has ended the bridge serves the Core that runs,    *)
(* unless an attach was overtaken by another restart or a recovery put the *)
(* Core there.                                                             *)
BridgedUnlessOvertaken ==
    Idle /\ current # 0 => bridge = current \/ overtaken

(* An operation ends, unless one waits for a hung Core to acknowledge      *)
(* app.shutdown: heartbeats have a deadline.                               *)
Stuck == \E o \in Ops : pc[o] = "stopping" /\ proc[own[o]] = "hung"
OpsEnd == \A o \in Ops : pc[o] = "called" ~> pc[o] = "ended" \/ Stuck

(* "`bootstrap` and `restart` drive the lifecycle and then (re-)attach the *)
(* bridge to the freshly minted Core streams, so notifications and         *)
(* permission requests keep flowing across a restart" (app.rs:12-15).      *)
BridgeFollowsCore ==
    Idle /\ current # 0 /\ (\A o \in Ops : kind[o] \in {"none", "bootstrap", "restart"})
        => bridge = current
=============================================================================
