----------------------------- MODULE AtomicUnits -----------------------------
(***************************************************************************)
(* What the storage layer promises of a unit of work, apart from how it is *)
(* carried out: the writes of a unit reach the disk together and once, and *)
(* what its caller is told agrees with what is on the disk.                *)
(*                                                                         *)
(* Two escapes are part of the promise as the code keeps it.  A caller     *)
(* that was cancelled is told nothing about its writes, which may land     *)
(* before or after it hears of the cancellation.  And a script that runs   *)
(* while a unit is open forces the unit's transaction to commit: the unit  *)
(* is then breached, and never counts as landed.                           *)
(***************************************************************************)

CONSTANT Units      \* the units of work

VARIABLES
    landed,         \* the units all of whose writes are on the disk
    breached,       \* the units a script cut in two
    told            \* what the caller of each unit has been told

vars == <<landed, breached, told>>

Answers == {"nothing", "committed", "failed", "cancelled"}

Init ==
    /\ landed = {}
    /\ breached = {}
    /\ told = [u \in Units |-> "nothing"]

(* The writes of u reach the disk: never after its caller heard of         *)
(* failure.                                                                *)
Land(u) ==
    /\ u \notin landed \cup breached
    /\ told[u] \in {"nothing", "cancelled"}
    /\ landed' = landed \cup {u}
    /\ UNCHANGED <<breached, told>>

Breach(u) ==
    /\ u \notin landed
    /\ breached' = breached \cup {u}
    /\ UNCHANGED <<landed, told>>

Tell(u, answer) ==
    /\ told[u] = "nothing"
    /\ answer = "committed" => u \in landed
    /\ answer = "failed" => u \notin landed
    /\ told' = [told EXCEPT ![u] = answer]
    /\ UNCHANGED <<landed, breached>>

Next ==
    \E u \in Units :
        \/ Land(u)
        \/ Breach(u)
        \/ \E answer \in Answers \ {"nothing"} : Tell(u, answer)

Spec == Init /\ [][Next]_vars
=============================================================================
