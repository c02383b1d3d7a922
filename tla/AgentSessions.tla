--------------------------- MODULE AgentSessions ---------------------------
(***************************************************************************)
(* An agent session (ajanlar/oturum, durum) under its lifecycle            *)
(* (ajanlar/yasam): runs are opened in it, started, completed, failed and  *)
(* cancelled, and the session is stopped or shut down around them.  The    *)
(* session takes these calls in any order, from anybody who has a run's    *)
(* id: nothing ties them to the task that awaits the run's dispatch, which *)
(* is module Dispatch.  Every call is synchronous.                         *)
(***************************************************************************)
EXTENDS Naturals, Sequences

CONSTANTS
    Runs,
    MaxTurns        \* bound on the turns of the conversation

ASSUME AgentSessionsAssumption == MaxTurns \in Nat

VARIABLES
    session,        \* the session's state
    runs,           \* the state of each run, "unknown" before it is opened
    turns           \* the conversation: who spoke, in which run

sessionVars == <<session, runs, turns>>

SessionStates == {"created", "running", "suspended", "stopped", "shutdown"}
RunStates == {"unknown", "pending", "running", "completed", "cancelled", "failed"}
IsOpened(r) == runs[r] # "unknown"
IsActive(r) == runs[r] \in {"pending", "running"}
IsTerminal(r) == runs[r] \in {"completed", "cancelled", "failed"}
Enter(s) == session' = s

AgentSessionsInit ==
    /\ session = "created" /\ turns = <<>>
    /\ runs = [r \in Runs |-> "unknown"]

Says(who, r) ==
    /\ Len(turns) < MaxTurns
    /\ turns' = Append(turns, <<who, r>>)
Record(r, state) == runs' = [runs EXCEPT ![r] = state]

(* No run is refused for the state its session is in; a second of its id is. *)
OpenRun(r) ==
    /\ ~ IsOpened(r)
    /\ Record(r, "pending") /\ Says("user", r)
    /\ UNCHANGED session

(* These three look for the run, not at what has become of it. *)
StartRun(r) ==
    /\ IsOpened(r)
    /\ Record(r, "running")
    /\ UNCHANGED <<session, turns>>

CompleteRun(r) ==
    /\ IsOpened(r)
    /\ Record(r, "completed") /\ Says("agent", r)
    /\ UNCHANGED session

FailRun(r) ==
    /\ IsOpened(r)
    /\ Record(r, "failed")
    /\ UNCHANGED <<session, turns>>

(* Mutant: a run is cancelled whatever has become of it. *)
CancelledAnyway(r) == IF IsOpened(r) THEN "cancelled" ELSE runs[r]

Cancelled(r) == IF IsActive(r) THEN "cancelled" ELSE runs[r]

CancelRun(r) ==
    /\ IsOpened(r)
    /\ Record(r, Cancelled(r))
    /\ UNCHANGED <<session, turns>>

CancelActiveRuns == runs' = [r \in Runs |-> Cancelled(r)]

StartSession ==
    /\ session \in {"created", "stopped"} /\ Enter("running")
    /\ UNCHANGED <<runs, turns>>
Suspend ==
    /\ session = "running" /\ Enter("suspended")
    /\ UNCHANGED <<runs, turns>>
Resume ==
    /\ session = "suspended" /\ Enter("running")
    /\ UNCHANGED <<runs, turns>>
StopSession ==
    /\ session \in {"running", "suspended"} /\ Enter("stopped")
    /\ CancelActiveRuns
    /\ UNCHANGED turns
Shutdown ==
    /\ session # "shutdown" /\ Enter("shutdown")
    /\ CancelActiveRuns
    /\ UNCHANGED turns

AgentSessionsStep ==
    \/ \E r \in Runs :
          OpenRun(r) \/ StartRun(r) \/ CompleteRun(r) \/ FailRun(r) \/ CancelRun(r)
    \/ StartSession \/ Suspend \/ Resume \/ StopSession \/ Shutdown

----------------------------------------------------------------------------
AgentSessionsTypeOK ==
    /\ session \in SessionStates
    /\ runs \in [Runs -> RunStates]
    /\ turns \in Seq({"user", "agent"} \X Runs)

Spoke(who, r, places) == \E k \in places : turns[k] = <<who, r>>

(* The conversation is the runs' own: each run asked once, when it was     *)
(* opened, is answered only after that, and has an answer if it completed. *)
TurnsMatch ==
    /\ \A r \in Runs :
           /\ IsOpened(r) <=> Spoke("user", r, DOMAIN turns)
           /\ runs[r] = "completed" => Spoke("agent", r, DOMAIN turns)
    /\ \A j, k \in DOMAIN turns :
           turns[j] = turns[k] /\ turns[j][1] = "user" => j = k
    /\ \A k \in DOMAIN turns :
           turns[k][1] = "agent" => Spoke("user", turns[k][2], 1 .. (k - 1))

(* However the calls are mixed, the conversation stays the runs' own, and  *)
(* a run's outcome stands against every cancellation: that of the run,     *)
(* which may come when it has just completed, and that of all active runs  *)
(* when the session stops or shuts down.  A session that stops leaves no   *)
(* run to resume, and one shut down stays so.                              *)
OutcomeStands ==
    [][/\ TurnsMatch'
       /\ \A r \in Runs :
             IsTerminal(r) /\ runs'[r] # runs[r]
             => runs'[r] # "cancelled" /\ session' = session
       /\ session' # session /\ session' \in {"stopped", "shutdown"}
             => \A r \in Runs : ~ IsActive(r)'
       /\ session = "shutdown" => session' = "shutdown"]_sessionVars
============================================================================
