------------------------------- MODULE Nesting -----------------------------
(***************************************************************************)
(* Calls made by calls.  A skill runs tools and agents, an agent runs      *)
(* tools, each within its scope (SkillExecutionContext.invoke_tool,        *)
(* ExecutionContext.invoke_tool): the inner dispatcher runs in the task of *)
(* the outer one's work.  A cancellation of that task is therefore raised  *)
(* where the inner dispatcher waits, and is to go from there through the   *)
(* whole run.                                                              *)
(*                                                                         *)
(* The code of a skill, an agent or a tool is not modelled: it makes calls *)
(* and ends as it likes, but once it has met its cancellation it makes no  *)
(* more.  A client cancels the task that dispatches its call at most once. *)
(***************************************************************************)
EXTENDS Dispatch

CONSTANTS
    KindOf,         \* the dispatcher of each call
    Scope           \* the calls each call, and a client, may make

ASSUME NestingAssumption ==
    /\ KindOf \in [Calls -> Kinds]
    /\ Scope \in [Calls \cup {Nobody} -> SUBSET Calls]

VARIABLES
    maker,          \* the call each call was made by
    heard           \* whether the work has met its cancellation

nestVars == <<callVars, maker, heard>>

(* The calls a call waits for. *)
Awaited(c) == {d \in Calls : maker[d] = c /\ pc[d] \in InFlight}

(* The next thing this work meets is its cancellation. *)
Due(c) == work[c] = "cancelling" /\ heard[c] = "no"
Held(d) == maker[d] # Nobody /\ Due(maker[d])

(* The code of the call itself runs. *)
Acts(c) == work[c] \in Running /\ ~ Due(c) /\ Awaited(c) = {}

NestedInit ==
    /\ CallInit
    /\ maker = [c \in Calls |-> Nobody]
    /\ heard = [c \in Calls |-> "no"]

----------------------------------------------------------------------------
Begins(d) ==
    \/ NotFound(d)
    \/ \E i \in Ids :
          \/ BeginRun(d, <<KindOf[d], i>>)
          \/ KindOf[d] = "tool" /\ (BeginAsking(d, i) \/ DeniedAtOnce(d, i))

(* Outside its scope a run is refused before any dispatcher is reached. *)
Makes(c, d) ==
    /\ c # Nobody => Acts(c) /\ heard[c] # "yes"
    /\ d \in Scope[c]
    /\ Begins(d)
    /\ maker' = [maker EXCEPT ![d] = c]
    /\ UNCHANGED heard

(* The dispatcher of d goes on, unless a cancellation comes first: with    *)
(* what is there, or with the answer of the gate.                          *)
GoesOn(d) ==
    /\ ~ Held(d)
    /\ \/ \E what \in {"work", "token", "deadline"} : Wake(d, what)
       \/ Settle(d)
    /\ UNCHANGED <<maker, heard>>
IsAnswered(d) ==
    /\ ~ Held(d)
    /\ \E allow \in BOOLEAN : GateAnswers(d, allow)
    /\ UNCHANGED <<maker, heard>>
Proceeds(d) == GoesOn(d) \/ IsAnswered(d)

CodeEnds(c) ==
    /\ Acts(c)
    /\ \E how \in Ended : WorkEnds(c, how)
    /\ UNCHANGED <<maker, heard>>

(* A dispatcher that is cancelled while it awaits a loser goes on; if the  *)
(* loser is the work, awaiting it passes the cancellation on to it.        *)
Swallows(d) ==
    /\ Swallow(d)
    /\ \E again \in {heard[d], "no"} : heard' = [heard EXCEPT ![d] = again]

(* The cancellation of a work is raised in its own code, or where the call *)
(* it awaits waits: that call gives up, and the work's code is told; or    *)
(* swallows the cancellation, and the work's code never learns of it.      *)
Reach(c) ==
    /\ Due(c)
    /\ \/ /\ Awaited(c) = {}
          /\ heard' = [heard EXCEPT ![c] = "yes"]
          /\ UNCHANGED callVars
       \/ \E d \in Awaited(c) :
             /\ GiveUp(d)
             /\ heard' = [heard EXCEPT ![c] = "yes"]
       \/ \E d \in Awaited(c) :
             /\ Swallow(d)
             /\ \E again \in {heard[d], "no"} :
                   heard' = [heard EXCEPT ![c] = "missed", ![d] = again]
    /\ UNCHANGED maker

(* The task of a client's call is cancelled. *)
ClientCancels(d) ==
    /\ maker[d] = Nobody /\ d \notin swallowed
    /\ \/ GiveUp(d) /\ UNCHANGED heard
       \/ Swallows(d)
    /\ UNCHANGED maker

NestedNext ==
    \/ \E d \in Calls :
          \/ \E c \in Calls \cup {Nobody} : Makes(c, d)
          \/ Proceeds(d) \/ CodeEnds(d) \/ Reach(d) \/ ClientCancels(d)
    \/ \E k \in Keys : CancelKey(k) /\ UNCHANGED <<maker, heard>>

(* The event loop runs what is ready, and code that has met its            *)
(* cancellation ends.  Nobody need answer the gate: the question to the    *)
(* shell has no timeout.  Nor need code end whose cancellation was         *)
(* swallowed, or that was never cancelled.  No such step can be made for   *)
(* ever, so it is enough that one is made as long as one can be.           *)
ToldEnds(c) == work[c] = "cancelling" /\ heard[c] = "yes" /\ CodeEnds(c)
NestedFairness ==
    WF_nestVars(\E c \in Calls : GoesOn(c) \/ Reach(c) \/ ToldEnds(c))

NestedSpec == NestedInit /\ [][NestedNext]_nestVars /\ NestedFairness

----------------------------------------------------------------------------
(* Every variable keeps its type. *)
NestedTypeOK ==
    /\ CallTypeOK
    /\ maker \in [Calls -> Calls \cup {Nobody}]
    /\ heard \in [Calls -> {"no", "yes", "missed"}]

(* A run waits for one call at a time, within its scope, and only while it *)
(* works; one that has met its cancellation waits for nothing, and of what *)
(* it asked for nothing works on without being told: nor does anything of  *)
(* what a run asked for that has ended.                                    *)
CancelsWhatItMade ==
    \A c \in Calls :
        /\ \A d, e \in Awaited(c) : d = e
        /\ Awaited(c) # {} => work[c] \in Running /\ heard[c] # "yes"
        /\ \A d \in Calls : maker[d] = c =>
               /\ d \in Scope[c]
               /\ heard[c] = "yes" \/ work[c] \in Ended => work[d] # "running"

(* A run whose caller has its answer makes no more calls, unless its       *)
(* cancellation was swallowed.                                             *)
QuietAfterwards ==
    [][\A d \in Calls, c \in Calls :
          pc[d] = "idle" /\ pc'[d] # "idle" /\ maker'[d] = c /\ pc[c] = "done" =>
              heard[c] = "missed"]_nestVars

(* Cancelling a run cancels all of it. *)
Propagates == []CancelsWhatItMade /\ QuietAfterwards

(* Every call ends, at whatever depth its work calls others, except one    *)
(* that asks and is never answered, or whose work was never told of its    *)
(* cancellation, since a dispatcher in it swallowed it.  A run that waits  *)
(* for such a call is not excused: its own deadline ends both.             *)
Excused(c) == pc[c] = "asking" \/ (work[c] \in Running /\ heard[c] = "missed")
EveryCallEnds ==
    \A c \in Calls : <>[](pc[c] \in InFlight) => <>[]Excused(c)

(* As the code says of cancelling a run: the whole run hears of it. *)
WholeRunHears == \A c \in Calls : heard[c] # "missed"
============================================================================
