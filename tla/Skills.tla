------------------------------- MODULE Skills ------------------------------
(***************************************************************************)
(* The skill lifecycle (yetenekler/yasam.py) over the registry the skill   *)
(* dispatcher looks skills up in (yetenekler/kayit.py).  The lifecycle     *)
(* keeps the states, the registry what can be invoked.  A refused          *)
(* operation raises and changes nothing.                                   *)
(***************************************************************************)
CONSTANT Skill          \* skill ids

VARIABLES
    standing,       \* the state of each loaded skill
    invocable       \* the ids the registry finds

skillVars == <<standing, invocable>>

SkillStates == {"absent", "disabled", "enabled", "failed"}

SkillsInit ==
    /\ standing = [s \in Skill |-> "absent"]
    /\ invocable = {}

Stands(s, how) == standing' = [standing EXCEPT ![s] = how]

(* A registry that finds the skill refuses to register it again, one that  *)
(* does not refuses to take it out.                                        *)
LoadSkill(s) ==
    /\ standing[s] = "absent"
    /\ Stands(s, "disabled")
    /\ UNCHANGED invocable

EnableSkill(s) ==
    /\ standing[s] \in {"disabled", "failed"}
    /\ s \notin invocable
    /\ invocable' = invocable \cup {s}
    /\ Stands(s, "enabled")

Withdraw(s) ==
    /\ standing[s] # "absent"
    /\ standing[s] = "enabled" => s \in invocable
    /\ invocable' = IF standing[s] = "enabled" THEN invocable \ {s} ELSE invocable

DisableSkill(s) == Withdraw(s) /\ Stands(s, "disabled")
MarkFailed(s) == Withdraw(s) /\ Stands(s, "failed")
UnloadSkill(s) == Withdraw(s) /\ Stands(s, "absent")

RecoverSkill(s) ==
    /\ standing[s] = "failed"
    /\ Stands(s, "disabled")
    /\ UNCHANGED invocable

SkillStep ==
    \E s \in Skill :
        \/ LoadSkill(s) \/ EnableSkill(s) \/ DisableSkill(s)
        \/ MarkFailed(s) \/ RecoverSkill(s) \/ UnloadSkill(s)

(* What can be invoked is what is enabled. *)
OnlyEnabled == invocable = {s \in Skill : standing[s] = "enabled"}
============================================================================
