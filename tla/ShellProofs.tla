---------------------------- MODULE ShellProofs ----------------------------
(***************************************************************************)
(* Proofs about Shell, for any number of operations and processes and any  *)
(* restart budget: its types, that there is never a second Core, that the  *)
(* status is honest, and that the bridge is on the Core that runs unless   *)
(* an attach was overtaken.                                                *)
(*                                                                         *)
(* The inductive invariant says who holds the lock (LockInv), what the     *)
(* operation under the lock has found and set by then (WorkInv), what the  *)
(* status says of the current process (StatusInv), that a process alive is *)
(* the current one or in the hands of the operation under the lock         *)
(* (AliveInv), that streams are taken from spawned processes only          *)
(* (TakenInv), and that somebody is about to serve the streams of the      *)
(* current process as long as the bridge does not (WiredInv).              *)
(***************************************************************************)
EXTENDS Shell, TLAPS

Under == {"stopping", "grace", "stopped", "spawning", "gate", "beating"}

LockInv == \A o \in Ops : pc[o] \in Under <=> lock = o

Restarting(o) ==
    pc[o] \in {"stopping", "grace", "spawning", "gate"} /\ kind[o] \in {"restart", "recover"}

(* What the operation o knows, by where it is. *)
Knows(o) ==
    /\ pc[o] \in {"stopping", "grace", "stopped", "spawning", "gate"} => current = 0
    /\ pc[o] = "beating" => current # 0
    /\ pc[o] \in {"stopping", "grace"} =>
         kind[o] \in {"restart", "recover", "shutdown"} /\ own[o] \in Processes
    /\ pc[o] = "stopped" => kind[o] = "shutdown"
    /\ pc[o] \in {"spawning", "gate"} => kind[o] \in {"bootstrap", "restart", "recover"}
    /\ pc[o] = "gate" => own[o] \in Processes /\ proc[own[o]] # "none" /\ own[o] \notin taken
    /\ Restarting(o) => status = "Restarting" /\ restarts < MaxRestarts
    /\ pc[o] \in {"spawning", "gate"} /\ kind[o] = "bootstrap" => status = "Starting"

WorkInv == \A o \in Ops : Knows(o)

StatusInv ==
    /\ current # 0 => status \in {"Running", "Crashed"} /\ proc[current] # "none"
    /\ current = 0 /\ lock = Nobody => status \in {"Stopped", "Restarting"}
    /\ status = "Crashed" => restarts = MaxRestarts
    /\ status = "Crashed" /\ current # 0 => ~Alive(current)

InHand(g) == \E o \in Ops : pc[o] \in {"stopping", "grace", "gate"} /\ own[o] = g
AliveInv == \A g \in Processes : Alive(g) => g = current \/ InHand(g)

TakenInv == \A g \in taken : proc[g] # "none"

WillBeWired ==
    \/ bridge = current
    \/ current \notin taken /\ \E o \in Ops : pc[o] = "unwired"
    \/ \E o \in Ops : pc[o] = "attaching" /\ own[o] = current
    \/ \E o \in Ops : pc[o] = "called" /\ kind[o] = "shutdown"
WiredInv == current # 0 /\ ~overtaken => WillBeWired

Inv == TypeOK /\ LockInv /\ WorkInv /\ StatusInv /\ AliveInv /\ TakenInv /\ WiredInv

(* Every step keeps the types.                                             *)
LEMMA TypeNext ==
    ASSUME Inv, Next
    PROVE  TypeOK'
<1> USE ShellAssumption DEF Inv, vars, opVars, lifeVars
<1>1. ASSUME NEW o \in Ops, NEW k \in Kinds, Call(o, k) PROVE TypeOK'
  BY <1>1 DEF Call, Goto, TypeOK
<1>2. ASSUME NEW o \in Ops, Start(o) PROVE TypeOK'
  BY <1>2 DEF Start, Locked, Enter, Leave, Goto, TypeOK
<1>3. ASSUME NEW o \in Ops, Restart(o) PROVE TypeOK'
  <2>1. own' \in [Ops -> 0 .. MaxSpawns]
    <3>1. own' \in {own, [own EXCEPT ![o] = current]}  BY <1>3 DEF Restart, StopCurrent
    <3>. QED  BY <3>1 DEF TypeOK
  <2>2. /\ pc' \in {[pc EXCEPT ![o] = w] : w \in {"ended", "spawning", "stopping"}}
        /\ lock' \in {o, Nobody} /\ status' \in {status, "Restarting"}
        /\ current' \in {current, 0}
    BY <1>3 DEF Restart, Leave, Enter, Goto, StopCurrent
  <2>. QED  BY <1>3, <2>1, <2>2 DEF Restart, TypeOK
<1>4. ASSUME NEW o \in Ops, Recover(o) PROVE TypeOK'
  <2>1. own' \in [Ops -> 0 .. MaxSpawns]
    <3>1. own' \in {own, [own EXCEPT ![o] = current]}  BY <1>4 DEF Recover, StopCurrent
    <3>. QED  BY <3>1 DEF TypeOK
  <2>2. /\ pc' \in {[pc EXCEPT ![o] = w] : w \in {"ended", "spawning", "stopping"}}
        /\ lock' \in {o, Nobody} /\ status' \in {status, "Crashed", "Restarting"}
        /\ current' \in {current, 0}
    BY <1>4 DEF Recover, Leave, Enter, Goto, StopCurrent
  <2>. QED  BY <1>4, <2>1, <2>2 DEF Recover, TypeOK
<1>5. ASSUME NEW o \in Ops, Shutdown(o) PROVE TypeOK'
  BY <1>5 DEF Shutdown, Locked, Enter, Leave, Goto, StopCurrent, TypeOK
<1>6. ASSUME NEW o \in Ops, Health(o) PROVE TypeOK'
  BY <1>6 DEF Health, Locked, Enter, Leave, Goto, TypeOK
<1>7. ASSUME NEW o \in Ops, ShutdownRequestEnds(o) PROVE TypeOK'
  BY <1>7 DEF ShutdownRequestEnds, Goto, TypeOK
<1>8. ASSUME NEW o \in Ops, ProcessGone(o) PROVE TypeOK'
  BY <1>8 DEF ProcessGone, Goto, TypeOK
<1>9. ASSUME NEW o \in Ops, ShutdownEnds(o) PROVE TypeOK'
  BY <1>9 DEF ShutdownEnds, Leave, Goto, TypeOK
<1>10. ASSUME NEW o \in Ops, SpawnFails(o) PROVE TypeOK'
  BY <1>10 DEF SpawnFails, Failed, Leave, Goto, TypeOK
<1>11. ASSUME NEW o \in Ops, Spawn(o) PROVE TypeOK'
  BY <1>11 DEF Spawn, Goto, TypeOK, Processes
<1>12. ASSUME NEW o \in Ops, GatePassed(o) PROVE TypeOK'
  BY <1>12 DEF GatePassed, Goto, TypeOK, WorkInv, Knows, Restarting, Processes
<1>13. ASSUME NEW o \in Ops, GateFailed(o) PROVE TypeOK'
  BY <1>13 DEF GateFailed, Failed, Leave, Goto, TypeOK
<1>14. ASSUME NEW o \in Ops, Rewire(o) PROVE TypeOK'
  <2>1. CASE current = 0 \/ current \in taken  BY <1>14, <2>1 DEF Rewire, Goto, TypeOK
  <2>2. CASE ~(current = 0 \/ current \in taken)
    <3>1. own' = [own EXCEPT ![o] = current] /\ taken' = taken \cup {current}
      BY <1>14, <2>2 DEF Rewire
    <3>2. current \in Processes  BY <2>2 DEF TypeOK, Processes
    <3>3. own' \in [Ops -> 0 .. MaxSpawns] /\ taken' \subseteq Processes
      BY <3>1, <3>2 DEF TypeOK
    <3>. QED  BY <1>14, <2>2, <3>3 DEF Rewire, Goto, TypeOK
  <2>. QED  BY <2>1, <2>2
<1>15. ASSUME NEW o \in Ops, Attach(o) PROVE TypeOK'
  BY <1>15 DEF Attach, Goto, TypeOK
<1>16. ASSUME NEW o \in Ops, HealthEnds(o) PROVE TypeOK'
  BY <1>16 DEF HealthEnds, Leave, Goto, TypeOK
<1>17. ASSUME NEW g \in Processes, Crash(g) PROVE TypeOK'
  BY <1>17 DEF Crash, TypeOK
<1>18. ASSUME NEW g \in Processes, Hang(g) PROVE TypeOK'
  BY <1>18 DEF Hang, TypeOK
<1>. QED  BY <1>1, <1>2, <1>3, <1>4, <1>5, <1>6, <1>7, <1>8, <1>9, <1>10, <1>11, <1>12, <1>13, <1>14, <1>15, <1>16, <1>17, <1>18 DEF Next, OpStep

(* Every step keeps who holds the lock.                                    *)
LEMMA LockNext ==
    ASSUME Inv, Next
    PROVE  LockInv'
<1> USE ShellAssumption DEF Inv, vars, opVars, lifeVars
<1>1. ASSUME NEW o \in Ops, NEW k \in Kinds, Call(o, k) PROVE LockInv'
  BY <1>1 DEF Call, Goto, LockInv, Under, TypeOK
<1>2. ASSUME NEW o \in Ops, Start(o) PROVE LockInv'
  BY <1>2 DEF Start, Locked, Enter, Leave, Goto, LockInv, Under, TypeOK
<1>3. ASSUME NEW o \in Ops, Restart(o) PROVE LockInv'
  BY <1>3 DEF Restart, Locked, Enter, Leave, Goto, StopCurrent, LockInv, Under, TypeOK
<1>4. ASSUME NEW o \in Ops, Recover(o) PROVE LockInv'
  BY <1>4 DEF Recover, Locked, Enter, Leave, Goto, StopCurrent, LockInv, Under, TypeOK
<1>5. ASSUME NEW o \in Ops, Shutdown(o) PROVE LockInv'
  BY <1>5 DEF Shutdown, Locked, Enter, Leave, Goto, StopCurrent, LockInv, Under, TypeOK
<1>6. ASSUME NEW o \in Ops, Health(o) PROVE LockInv'
  BY <1>6 DEF Health, Locked, Enter, Leave, Goto, LockInv, Under, TypeOK
<1>7. ASSUME NEW o \in Ops, ShutdownRequestEnds(o) PROVE LockInv'
  BY <1>7 DEF ShutdownRequestEnds, Goto, LockInv, Under, TypeOK
<1>8. ASSUME NEW o \in Ops, ProcessGone(o) PROVE LockInv'
  BY <1>8 DEF ProcessGone, Goto, LockInv, Under, TypeOK
<1>9. ASSUME NEW o \in Ops, ShutdownEnds(o) PROVE LockInv'
  BY <1>9 DEF ShutdownEnds, Leave, Goto, LockInv, Under, TypeOK
<1>10. ASSUME NEW o \in Ops, SpawnFails(o) PROVE LockInv'
  BY <1>10 DEF SpawnFails, Failed, Leave, Goto, LockInv, Under, TypeOK
<1>11. ASSUME NEW o \in Ops, Spawn(o) PROVE LockInv'
  BY <1>11 DEF Spawn, Goto, LockInv, Under, TypeOK
<1>12. ASSUME NEW o \in Ops, GatePassed(o) PROVE LockInv'
  BY <1>12 DEF GatePassed, Goto, LockInv, Under, TypeOK
<1>13. ASSUME NEW o \in Ops, GateFailed(o) PROVE LockInv'
  BY <1>13 DEF GateFailed, Failed, Leave, Goto, LockInv, Under, TypeOK
<1>14. ASSUME NEW o \in Ops, Rewire(o) PROVE LockInv'
  BY <1>14 DEF Rewire, Goto, LockInv, Under, TypeOK
<1>15. ASSUME NEW o \in Ops, Attach(o) PROVE LockInv'
  BY <1>15 DEF Attach, Goto, LockInv, Under, TypeOK
<1>16. ASSUME NEW o \in Ops, HealthEnds(o) PROVE LockInv'
  BY <1>16 DEF HealthEnds, Leave, Goto, LockInv, Under, TypeOK
<1>17. ASSUME NEW g \in Processes, Crash(g) PROVE LockInv'
  BY <1>17 DEF Crash, LockInv, TypeOK
<1>18. ASSUME NEW g \in Processes, Hang(g) PROVE LockInv'
  BY <1>18 DEF Hang, LockInv, TypeOK
<1>. QED  BY <1>1, <1>2, <1>3, <1>4, <1>5, <1>6, <1>7, <1>8, <1>9, <1>10, <1>11, <1>12, <1>13, <1>14, <1>15, <1>16, <1>17, <1>18 DEF Next, OpStep

(* Every step keeps what is under way.                                     *)
LEMMA WorkNext ==
    ASSUME Inv, Next
    PROVE  WorkInv'
<1> USE ShellAssumption DEF Inv, vars, opVars, lifeVars
<1>1. ASSUME NEW o \in Ops, NEW k \in Kinds, Call(o, k) PROVE WorkInv'
  BY <1>1 DEF Call, Goto, WorkInv, Knows, Restarting, TypeOK
<1>2. ASSUME NEW o \in Ops, Start(o) PROVE WorkInv'
  BY <1>2 DEF Start, Locked, Enter, Leave, Goto, WorkInv, Knows, Restarting, TypeOK,
    LockInv, Under
<1>3. ASSUME NEW o \in Ops, Restart(o) PROVE WorkInv'
  BY <1>3 DEF Restart, Locked, Enter, Leave, Goto, StopCurrent, WorkInv, Knows,
    Restarting, TypeOK, LockInv, Under, TakenInv, Processes
<1>4. ASSUME NEW o \in Ops, Recover(o) PROVE WorkInv'
  BY <1>4 DEF Recover, Locked, Enter, Leave, Goto, StopCurrent, WorkInv, Knows,
    Restarting, TypeOK, LockInv, Under, TakenInv, Processes
<1>5. ASSUME NEW o \in Ops, Shutdown(o) PROVE WorkInv'
  BY <1>5 DEF Shutdown, Locked, Enter, Leave, Goto, StopCurrent, WorkInv, Knows,
    Restarting, TypeOK, LockInv, Under, TakenInv, Processes
<1>6. ASSUME NEW o \in Ops, Health(o) PROVE WorkInv'
  BY <1>6 DEF Health, Locked, Enter, Leave, Goto, WorkInv, Knows, Restarting, TypeOK
<1>7. ASSUME NEW o \in Ops, ShutdownRequestEnds(o) PROVE WorkInv'
  BY <1>7 DEF ShutdownRequestEnds, Goto, WorkInv, Knows, Restarting, TypeOK
<1>8. ASSUME NEW o \in Ops, ProcessGone(o) PROVE WorkInv'
  BY <1>8 DEF ProcessGone, Goto, WorkInv, Knows, Restarting, TypeOK
<1>9. ASSUME NEW o \in Ops, ShutdownEnds(o) PROVE WorkInv'
  BY <1>9 DEF ShutdownEnds, Leave, Goto, WorkInv, Knows, Restarting, TypeOK, LockInv, Under
<1>10. ASSUME NEW o \in Ops, SpawnFails(o) PROVE WorkInv'
  BY <1>10 DEF SpawnFails, Failed, Leave, Goto, WorkInv, Knows, Restarting, TypeOK,
    LockInv, Under
<1>11. ASSUME NEW o \in Ops, Spawn(o) PROVE WorkInv'
  BY <1>11 DEF Spawn, Goto, WorkInv, Knows, Restarting, TypeOK, LockInv, Under, TakenInv,
    Processes
<1>12. ASSUME NEW o \in Ops, GatePassed(o) PROVE WorkInv'
  BY <1>12 DEF GatePassed, Goto, WorkInv, Knows, Restarting, TypeOK, LockInv, Under
<1>13. ASSUME NEW o \in Ops, GateFailed(o) PROVE WorkInv'
  BY <1>13 DEF GateFailed, Failed, Leave, Goto, WorkInv, Knows, Restarting, TypeOK,
    LockInv, Under
<1>14. ASSUME NEW o \in Ops, Rewire(o) PROVE WorkInv'
  BY <1>14 DEF Rewire, Goto, WorkInv, Knows, Restarting, TypeOK
<1>15. ASSUME NEW o \in Ops, Attach(o) PROVE WorkInv'
  BY <1>15 DEF Attach, Goto, WorkInv, Knows, Restarting, TypeOK
<1>16. ASSUME NEW o \in Ops, HealthEnds(o) PROVE WorkInv'
  BY <1>16 DEF HealthEnds, Leave, Goto, WorkInv, Knows, Restarting, TypeOK
<1>17. ASSUME NEW g \in Processes, Crash(g) PROVE WorkInv'
  BY <1>17 DEF Crash, WorkInv, Knows, Restarting, TypeOK
<1>18. ASSUME NEW g \in Processes, Hang(g) PROVE WorkInv'
  BY <1>18 DEF Hang, WorkInv, Knows, Restarting, TypeOK
<1>. QED  BY <1>1, <1>2, <1>3, <1>4, <1>5, <1>6, <1>7, <1>8, <1>9, <1>10, <1>11, <1>12, <1>13, <1>14, <1>15, <1>16, <1>17, <1>18 DEF Next, OpStep

(* Every step keeps that the status tells of the Core.                     *)
LEMMA StatusNext ==
    ASSUME Inv, Next
    PROVE  StatusInv'
<1> USE ShellAssumption DEF Inv, vars, opVars, lifeVars
<1>1. ASSUME NEW o \in Ops, NEW k \in Kinds, Call(o, k) PROVE StatusInv'
  BY <1>1 DEF Call, Goto, StatusInv, Alive
<1>2. ASSUME NEW o \in Ops, Start(o) PROVE StatusInv'
  BY <1>2 DEF Start, Locked, Enter, Leave, Goto, StatusInv, Alive
<1>3. ASSUME NEW o \in Ops, Restart(o) PROVE StatusInv'
  BY <1>3 DEF Restart, Locked, Enter, Leave, Goto, StopCurrent, StatusInv, Alive
<1>4. ASSUME NEW o \in Ops, Recover(o) PROVE StatusInv'
  BY <1>4 DEF Recover, Locked, Enter, Leave, Goto, StopCurrent, StatusInv, TypeOK, Alive,
    Processes
<1>5. ASSUME NEW o \in Ops, Shutdown(o) PROVE StatusInv'
  BY <1>5 DEF Shutdown, Locked, Enter, Leave, Goto, StopCurrent, StatusInv, Alive
<1>6. ASSUME NEW o \in Ops, Health(o) PROVE StatusInv'
  BY <1>6 DEF Health, Locked, Enter, Leave, Goto, StatusInv, Alive
<1>7. ASSUME NEW o \in Ops, ShutdownRequestEnds(o) PROVE StatusInv'
  BY <1>7 DEF ShutdownRequestEnds, Goto, StatusInv, Alive
<1>8. ASSUME NEW o \in Ops, ProcessGone(o) PROVE StatusInv'
  BY <1>8 DEF ProcessGone, Goto, StatusInv, Alive
<1>9. ASSUME NEW o \in Ops, ShutdownEnds(o) PROVE StatusInv'
  BY <1>9 DEF ShutdownEnds, Leave, Goto, StatusInv, TypeOK, Alive, WorkInv, Knows, Restarting
<1>10. ASSUME NEW o \in Ops, SpawnFails(o) PROVE StatusInv'
  BY <1>10 DEF SpawnFails, Failed, Leave, Goto, StatusInv, TypeOK, Alive, WorkInv, Knows,
    Restarting
<1>11. ASSUME NEW o \in Ops, Spawn(o) PROVE StatusInv'
  BY <1>11 DEF Spawn, Goto, StatusInv, Alive
<1>12. ASSUME NEW o \in Ops, GatePassed(o) PROVE StatusInv'
  BY <1>12 DEF GatePassed, Goto, StatusInv, WorkInv, Knows, Restarting, LockInv, Under,
    TypeOK, Processes, Alive
<1>13. ASSUME NEW o \in Ops, GateFailed(o) PROVE StatusInv'
  BY <1>13 DEF GateFailed, Failed, Leave, Goto, StatusInv, TypeOK, Alive, WorkInv, Knows,
    Restarting
<1>14. ASSUME NEW o \in Ops, Rewire(o) PROVE StatusInv'
  BY <1>14 DEF Rewire, Goto, StatusInv, Alive
<1>15. ASSUME NEW o \in Ops, Attach(o) PROVE StatusInv'
  BY <1>15 DEF Attach, Goto, StatusInv, Alive
<1>16. ASSUME NEW o \in Ops, HealthEnds(o) PROVE StatusInv'
  BY <1>16 DEF HealthEnds, Leave, Goto, StatusInv, TypeOK, Alive, WorkInv, Knows, Restarting
<1>17. ASSUME NEW g \in Processes, Crash(g) PROVE StatusInv'
  BY <1>17 DEF Crash, StatusInv, Alive
<1>18. ASSUME NEW g \in Processes, Hang(g) PROVE StatusInv'
  BY <1>18 DEF Hang, StatusInv, Alive
<1>. QED  BY <1>1, <1>2, <1>3, <1>4, <1>5, <1>6, <1>7, <1>8, <1>9, <1>10, <1>11, <1>12, <1>13, <1>14, <1>15, <1>16, <1>17, <1>18 DEF Next, OpStep

(* Every step keeps which Cores are alive.                                 *)
LEMMA AliveNext ==
    ASSUME Inv, Next
    PROVE  AliveInv'
<1> USE ShellAssumption DEF Inv, vars, opVars, lifeVars
<1>1. ASSUME NEW o \in Ops, NEW k \in Kinds, Call(o, k) PROVE AliveInv'
  BY <1>1 DEF Call, Goto, AliveInv, InHand, Alive
<1>2. ASSUME NEW o \in Ops, Start(o) PROVE AliveInv'
  <2>1. /\ proc' = proc /\ own' = own /\ current' = current
        /\ \A p \in Ops : p # o => pc'[p] = pc[p]
    BY <1>2 DEF Start, Enter, Leave, Goto, TypeOK
  <2>2. pc[o] = "called"  BY <1>2 DEF Start, Locked
  <2>3. ASSUME NEW g \in Processes, InHand(g) PROVE InHand(g)'
    BY <2>1, <2>2, <2>3 DEF InHand
  <2>4. ASSUME NEW g \in Processes, Alive(g)' PROVE g = current' \/ InHand(g)'
    BY <2>1, <2>3, <2>4 DEF AliveInv, Alive
  <2>. QED  BY <2>4 DEF AliveInv
<1>3. ASSUME NEW o \in Ops, Restart(o) PROVE AliveInv'
  BY <1>3 DEF Restart, Locked, Enter, Leave, Goto, StopCurrent, AliveInv, InHand, Alive, TypeOK
<1>4. ASSUME NEW o \in Ops, Recover(o) PROVE AliveInv'
  BY <1>4 DEF Recover, Locked, Enter, Leave, Goto, StopCurrent, AliveInv, InHand, Alive, TypeOK
<1>5. ASSUME NEW o \in Ops, Shutdown(o) PROVE AliveInv'
  BY <1>5 DEF Shutdown, Locked, Enter, Leave, Goto, StopCurrent, AliveInv, InHand, Alive,
    TypeOK
<1>6. ASSUME NEW o \in Ops, Health(o) PROVE AliveInv'
  BY <1>6 DEF Health, Locked, Enter, Leave, Goto, AliveInv, InHand, Alive, TypeOK
<1>7. ASSUME NEW o \in Ops, ShutdownRequestEnds(o) PROVE AliveInv'
  BY <1>7 DEF ShutdownRequestEnds, Goto, AliveInv, InHand, Alive
<1>8. ASSUME NEW o \in Ops, ProcessGone(o) PROVE AliveInv'
  BY <1>8 DEF ProcessGone, Goto, AliveInv, InHand, Alive, TypeOK
<1>9. ASSUME NEW o \in Ops, ShutdownEnds(o) PROVE AliveInv'
  BY <1>9 DEF ShutdownEnds, Leave, Goto, AliveInv, InHand, Alive
<1>10. ASSUME NEW o \in Ops, SpawnFails(o) PROVE AliveInv'
  BY <1>10 DEF SpawnFails, Failed, Leave, Goto, AliveInv, InHand, Alive
<1>11. ASSUME NEW o \in Ops, Spawn(o) PROVE AliveInv'
  BY <1>11 DEF Spawn, Goto, AliveInv, InHand, Alive, TypeOK
<1>12. ASSUME NEW o \in Ops, GatePassed(o) PROVE AliveInv'
  BY <1>12 DEF GatePassed, Goto, AliveInv, InHand, WorkInv, Knows, LockInv, Under,
    TypeOK, Processes, Alive
<1>13. ASSUME NEW o \in Ops, GateFailed(o) PROVE AliveInv'
  BY <1>13 DEF GateFailed, Failed, Leave, Goto, AliveInv, InHand, Alive, TypeOK
<1>14. ASSUME NEW o \in Ops, Rewire(o) PROVE AliveInv'
  BY <1>14 DEF Rewire, Goto, AliveInv, InHand, Alive, TypeOK
<1>15. ASSUME NEW o \in Ops, Attach(o) PROVE AliveInv'
  BY <1>15 DEF Attach, Goto, AliveInv, InHand, Alive
<1>16. ASSUME NEW o \in Ops, HealthEnds(o) PROVE AliveInv'
  BY <1>16 DEF HealthEnds, Leave, Goto, AliveInv, InHand, Alive
<1>17. ASSUME NEW g \in Processes, Crash(g) PROVE AliveInv'
  BY <1>17 DEF Crash, AliveInv, InHand, Alive
<1>18. ASSUME NEW g \in Processes, Hang(g) PROVE AliveInv'
  BY <1>18 DEF Hang, AliveInv, InHand, Alive
<1>. QED  BY <1>1, <1>2, <1>3, <1>4, <1>5, <1>6, <1>7, <1>8, <1>9, <1>10, <1>11, <1>12, <1>13, <1>14, <1>15, <1>16, <1>17, <1>18 DEF Next, OpStep

(* Every step keeps which Core was taken down.                             *)
LEMMA TakenNext ==
    ASSUME Inv, Next
    PROVE  TakenInv'
<1> USE ShellAssumption DEF Inv, vars, opVars, lifeVars
<1>1. ASSUME NEW o \in Ops, NEW k \in Kinds, Call(o, k) PROVE TakenInv'
  BY <1>1 DEF Call, Goto, TakenInv
<1>2. ASSUME NEW o \in Ops, Start(o) PROVE TakenInv'
  BY <1>2 DEF Start, Locked, Enter, Leave, Goto, TakenInv
<1>3. ASSUME NEW o \in Ops, Restart(o) PROVE TakenInv'
  BY <1>3 DEF Restart, Locked, Enter, Leave, Goto, StopCurrent, TakenInv
<1>4. ASSUME NEW o \in Ops, Recover(o) PROVE TakenInv'
  BY <1>4 DEF Recover, Locked, Enter, Leave, Goto, StopCurrent, TakenInv
<1>5. ASSUME NEW o \in Ops, Shutdown(o) PROVE TakenInv'
  BY <1>5 DEF Shutdown, Locked, Enter, Leave, Goto, StopCurrent, TakenInv
<1>6. ASSUME NEW o \in Ops, Health(o) PROVE TakenInv'
  BY <1>6 DEF Health, Locked, Enter, Leave, Goto, TakenInv
<1>7. ASSUME NEW o \in Ops, ShutdownRequestEnds(o) PROVE TakenInv'
  BY <1>7 DEF ShutdownRequestEnds, Goto, TakenInv
<1>8. ASSUME NEW o \in Ops, ProcessGone(o) PROVE TakenInv'
  BY <1>8 DEF ProcessGone, Goto, TakenInv
<1>9. ASSUME NEW o \in Ops, ShutdownEnds(o) PROVE TakenInv'
  BY <1>9 DEF ShutdownEnds, Leave, Goto, TakenInv
<1>10. ASSUME NEW o \in Ops, SpawnFails(o) PROVE TakenInv'
  BY <1>10 DEF SpawnFails, Failed, Leave, Goto, TakenInv
<1>11. ASSUME NEW o \in Ops, Spawn(o) PROVE TakenInv'
  BY <1>11 DEF Spawn, Goto, TakenInv
<1>12. ASSUME NEW o \in Ops, GatePassed(o) PROVE TakenInv'
  BY <1>12 DEF GatePassed, Goto, TakenInv
<1>13. ASSUME NEW o \in Ops, GateFailed(o) PROVE TakenInv'
  BY <1>13 DEF GateFailed, Failed, Leave, Goto, TakenInv
<1>14. ASSUME NEW o \in Ops, Rewire(o) PROVE TakenInv'
  BY <1>14 DEF Rewire, Goto, TakenInv, TypeOK, StatusInv
<1>15. ASSUME NEW o \in Ops, Attach(o) PROVE TakenInv'
  BY <1>15 DEF Attach, Goto, TakenInv
<1>16. ASSUME NEW o \in Ops, HealthEnds(o) PROVE TakenInv'
  BY <1>16 DEF HealthEnds, Leave, Goto, TakenInv
<1>17. ASSUME NEW g \in Processes, Crash(g) PROVE TakenInv'
  BY <1>17 DEF Crash, TakenInv
<1>18. ASSUME NEW g \in Processes, Hang(g) PROVE TakenInv'
  BY <1>18 DEF Hang, TakenInv
<1>. QED  BY <1>1, <1>2, <1>3, <1>4, <1>5, <1>6, <1>7, <1>8, <1>9, <1>10, <1>11, <1>12, <1>13, <1>14, <1>15, <1>16, <1>17, <1>18 DEF Next, OpStep

(* Every step keeps which Core the bridge is wired to.                     *)
LEMMA WiredNext ==
    ASSUME Inv, Next
    PROVE  WiredInv'
<1> USE ShellAssumption DEF Inv, vars, opVars, lifeVars
<1>1. ASSUME NEW o \in Ops, NEW k \in Kinds, Call(o, k) PROVE WiredInv'
  BY <1>1 DEF Call, Goto, WiredInv, WillBeWired, TypeOK
<1>2. ASSUME NEW o \in Ops, Start(o) PROVE WiredInv'
  BY <1>2 DEF Start, Locked, Enter, Leave, Goto, WiredInv, WillBeWired, TypeOK
<1>3. ASSUME NEW o \in Ops, Restart(o) PROVE WiredInv'
  BY <1>3 DEF Restart, Locked, Enter, Leave, Goto, StopCurrent, WiredInv, WillBeWired, TypeOK
<1>4. ASSUME NEW o \in Ops, Recover(o) PROVE WiredInv'
  BY <1>4 DEF Recover, Locked, Enter, Leave, Goto, StopCurrent, WiredInv, WillBeWired, TypeOK
<1>5. ASSUME NEW o \in Ops, Shutdown(o) PROVE WiredInv'
  BY <1>5 DEF Shutdown, Locked, Enter, Leave, Goto, StopCurrent, WiredInv, WillBeWired, TypeOK
<1>6. ASSUME NEW o \in Ops, Health(o) PROVE WiredInv'
  BY <1>6 DEF Health, Locked, Enter, Leave, Goto, WiredInv, WillBeWired, TypeOK
<1>7. ASSUME NEW o \in Ops, ShutdownRequestEnds(o) PROVE WiredInv'
  BY <1>7 DEF ShutdownRequestEnds, Goto, WiredInv, WillBeWired, TypeOK
<1>8. ASSUME NEW o \in Ops, ProcessGone(o) PROVE WiredInv'
  BY <1>8 DEF ProcessGone, Goto, WiredInv, WillBeWired, TypeOK
<1>9. ASSUME NEW o \in Ops, ShutdownEnds(o) PROVE WiredInv'
  BY <1>9 DEF ShutdownEnds, Leave, Goto, WiredInv, WillBeWired, TypeOK
<1>10. ASSUME NEW o \in Ops, SpawnFails(o) PROVE WiredInv'
  BY <1>10 DEF SpawnFails, Failed, Leave, Goto, WiredInv, WillBeWired, TypeOK
<1>11. ASSUME NEW o \in Ops, Spawn(o) PROVE WiredInv'
  BY <1>11 DEF Spawn, Goto, WiredInv, WillBeWired, TypeOK
<1>12. ASSUME NEW o \in Ops, GatePassed(o) PROVE WiredInv'
  BY <1>12 DEF GatePassed, Goto, WiredInv, WillBeWired, TypeOK, WorkInv, Knows
<1>13. ASSUME NEW o \in Ops, GateFailed(o) PROVE WiredInv'
  BY <1>13 DEF GateFailed, Failed, Leave, Goto, WiredInv, WillBeWired, TypeOK
<1>14. ASSUME NEW o \in Ops, Rewire(o) PROVE WiredInv'
  BY <1>14 DEF Rewire, Goto, WiredInv, WillBeWired, TypeOK
<1>15. ASSUME NEW o \in Ops, Attach(o) PROVE WiredInv'
  BY <1>15 DEF Attach, Goto, WiredInv, WillBeWired, TypeOK
<1>16. ASSUME NEW o \in Ops, HealthEnds(o) PROVE WiredInv'
  BY <1>16 DEF HealthEnds, Leave, Goto, WiredInv, WillBeWired, TypeOK
<1>17. ASSUME NEW g \in Processes, Crash(g) PROVE WiredInv'
  BY <1>17 DEF Crash, WiredInv, WillBeWired, TypeOK
<1>18. ASSUME NEW g \in Processes, Hang(g) PROVE WiredInv'
  BY <1>18 DEF Hang, WiredInv, WillBeWired, TypeOK
<1>. QED  BY <1>1, <1>2, <1>3, <1>4, <1>5, <1>6, <1>7, <1>8, <1>9, <1>10, <1>11, <1>12, <1>13, <1>14, <1>15, <1>16, <1>17, <1>18 DEF Next, OpStep

-----------------------------------------------------------------------------
(* The inductive invariant holds in every state of the supervision         *)
(* (lifecycle.rs, app.rs).                                                 *)
THEOREM Inductive == Spec => []Inv
<1>1. Init => Inv
  <2>. SUFFICES ASSUME Init PROVE Inv
    OBVIOUS
  <2>. USE ShellAssumption DEF Init, Processes, Kinds
  <2>1. TypeOK
    <3>1. pc \in [Ops -> {"idle"}] /\ kind \in [Ops -> {"none"}] /\ own \in [Ops -> {0}]
      OBVIOUS
    <3>2. proc \in [Processes -> {"none"}]  OBVIOUS
    <3>3. 0 \in 0 .. MaxSpawns /\ 0 \in 0 .. MaxRestarts  OBVIOUS
    <3>. QED  BY <3>1, <3>2, <3>3 DEF TypeOK
  <2>2. LockInv /\ WorkInv /\ StatusInv
    BY DEF LockInv, Under, WorkInv, Knows, Restarting, StatusInv
  <2>3. AliveInv /\ TakenInv /\ WiredInv  BY DEF AliveInv, Alive, TakenInv, WiredInv
  <2>. QED  BY <2>1, <2>2, <2>3 DEF Inv
<1>2. Inv /\ [Next]_vars => Inv'
  <2>1. ASSUME Inv, Next PROVE Inv'
    BY <2>1, TypeNext, LockNext, WorkNext, StatusNext, AliveNext, TakenNext, WiredNext DEF Inv
  <2>2. ASSUME Inv, UNCHANGED vars PROVE Inv'
    <3>. USE <2>2 DEF Inv, vars, opVars, lifeVars
    <3>1. TypeOK' /\ LockInv' /\ TakenInv'  BY DEF TypeOK, LockInv, TakenInv
    <3>2. WorkInv' /\ StatusInv'  BY DEF WorkInv, Knows, Restarting, StatusInv, Alive
    <3>3. AliveInv'  BY DEF AliveInv, Alive, InHand
    <3>4. WiredInv'  BY DEF WiredInv, WillBeWired
    <3>. QED  BY <3>1, <3>2, <3>3, <3>4
  <2>. QED  BY <2>1, <2>2
<1>. QED  BY <1>1, <1>2, PTL DEF Spec

(* Every variable keeps its type; restarts never exceed the budget. *)
THEOREM TypeCorrect == Spec => []TypeOK
<1>1. Inv => TypeOK  BY DEF Inv
<1>. QED  BY <1>1, Inductive, PTL

(* No two Core processes are alive at once: one alive is the current one,  *)
(* or in the hands of the only operation under the lock, and then there is *)
(* no current one (lifecycle.rs:199-213 stops before it spawns).           *)
THEOREM SingleCore == Spec => []OneCore
<1>1. Inv => OneCore
  <2>. SUFFICES ASSUME Inv, NEW g \in Processes, NEW h \in Processes, Alive(g), Alive(h)
                PROVE  g = h
    BY DEF OneCore
  <2>1. ASSUME NEW p \in Processes, InHand(p)
        PROVE  /\ current = 0
               /\ \E o \in Ops : lock = o /\ own[o] = p
    BY <2>1 DEF InHand, Inv, LockInv, Under, WorkInv, Knows
  <2>2. g = current \/ InHand(g)  BY DEF Inv, AliveInv
  <2>3. h = current \/ InHand(h)  BY DEF Inv, AliveInv
  <2>4. g # 0 /\ h # 0  BY DEF Processes
  <2>. QED  BY <2>1, <2>2, <2>3, <2>4
<1>. QED  BY <1>1, Inductive, PTL

(* One Core at most, and what a command reads when it has the lock is what *)
(* there is.                                                               *)
THEOREM HonestStatus == Spec => []StatusHonest
<1>1. Inv => (OneCore => StatusHonest)
  <2>. SUFFICES ASSUME Inv, OneCore, lock = Nobody PROVE StatusHonest
    BY DEF StatusHonest
  <2>1. \A g \in Processes : ~InHand(g)
    BY ShellAssumption DEF InHand, Inv, LockInv, Under
  <2>2. \A g \in Processes : Alive(g) => g = current  BY <2>1 DEF Inv, AliveInv
  <2>. QED  BY <2>2 DEF StatusHonest, Inv, StatusInv
<1>. QED  BY <1>1, Inductive, SingleCore, PTL

(* When all operations have ended the bridge serves the Core that runs,    *)
(* unless an attach was overtaken.                                         *)
THEOREM Bridged == Spec => []BridgedUnlessOvertaken
<1>1. Inv => BridgedUnlessOvertaken
  BY DEF Inv, WiredInv, WillBeWired, BridgedUnlessOvertaken, Idle
<1>. QED  BY <1>1, Inductive, PTL
=============================================================================
