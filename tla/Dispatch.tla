------------------------------ MODULE Dispatch -----------------------------
(***************************************************************************)
(* The bounded call (araclar/dagitici.py with araclar/iptal.py; the same   *)
(* code again in ajanlar/dagitici.py and yetenekler/dagitici.py): a tool   *)
(* call, an agent run or a skill invocation registers a cancellation token *)
(* under the id its caller gave it, a tool call asks for permission, and   *)
(* then the work races the token and a deadline.                           *)
(*                                                                         *)
(* Each dispatcher has a token table of its own: a key pairs an id with    *)
(* the table.  A step runs to the next await.  What a tool call runs, and  *)
(* under whose permission, is module Tools.                                *)
(***************************************************************************)
CONSTANTS
    Calls,          \* each dispatched once
    Ids,            \* ids callers choose; two calls may have the same
    Nobody          \* no call, no key

Kinds == {"tool", "agent", "skill"}
Keys == Kinds \X Ids

ASSUME DispatchAssumption == Nobody \notin Calls \cup Keys

VARIABLES
    key,            \* the key of each call
    pc,             \* where its dispatch stands
    tracked,        \* the call whose token each key finds
    fired,          \* whether its token is cancelled
    work,           \* what became of the task it races
    seen,           \* what the dispatch found done when it woke
    outcome,        \* what its caller got
    swallowed       \* calls that were interrupted and went on as if not

callVars == <<key, pc, tracked, fired, work, seen, outcome, swallowed>>

Running == {"running", "cancelling"}
Ended == {"returned", "raised", "stopped"}
InFlight == {"asking", "racing", "settling"}

(* Every variable keeps its type. *)
CallTypeOK ==
    /\ key \in [Calls -> Keys \cup {Nobody}]
    /\ pc \in [Calls -> {"idle", "done"} \cup InFlight]
    /\ tracked \in [Keys -> Calls \cup {Nobody}]
    /\ fired \in [Calls -> BOOLEAN]
    /\ work \in [Calls -> {"none"} \cup Running \cup Ended]
    /\ seen \in [Calls -> {"nothing", "work", "token", "deadline"}]
    /\ outcome \in [Calls -> {"none", "not found", "result", "failed", "denied",
                              "cancelled", "timeout", "interrupted"}]
    /\ swallowed \subseteq Calls

CallInit ==
    /\ key = [c \in Calls |-> Nobody]
    /\ pc = [c \in Calls |-> "idle"]
    /\ tracked = [k \in Keys |-> Nobody]
    /\ fired = [c \in Calls |-> FALSE]
    /\ work = [c \in Calls |-> "none"]
    /\ seen = [c \in Calls |-> "nothing"]
    /\ outcome = [c \in Calls |-> "none"]
    /\ swallowed = {}

----------------------------------------------------------------------------
(* Into the table and out of it.                                           *)

(* register replaces the token of an earlier call with that key. *)
Register(c, k) ==
    /\ pc[c] = "idle"
    /\ key' = [key EXCEPT ![c] = k]
    /\ tracked' = [tracked EXCEPT ![k] = c]

(* The finally clause takes out whichever token is there now. *)
Unregister(c) == tracked' = [tracked EXCEPT ![key[c]] = Nobody]

Goto(c, where) == pc' = [pc EXCEPT ![c] = where]
Leave(c, how) ==
    /\ Goto(c, "done")
    /\ outcome' = [outcome EXCEPT ![c] = how]
    /\ Unregister(c)
    /\ UNCHANGED <<key, fired, seen>>

(* cancel(id): nothing happens unless the key is tracked. *)
CancelKey(k) ==
    /\ tracked[k] # Nobody
    /\ fired' = [fired EXCEPT ![tracked[k]] = TRUE]
    /\ UNCHANGED <<key, pc, tracked, work, seen, outcome, swallowed>>

----------------------------------------------------------------------------
(* The beginning of a call.                                                *)

(* Neither a tool nor an agent of that name. *)
NotFound(c) ==
    /\ pc[c] = "idle"
    /\ Goto(c, "done")
    /\ outcome' = [outcome EXCEPT ![c] = "not found"]
    /\ UNCHANGED <<key, tracked, fired, work, seen, swallowed>>

Race(c) == Goto(c, "racing") /\ work' = [work EXCEPT ![c] = "running"]

(* An agent run or a skill invocation asks no permission. *)
BeginRun(c, k) ==
    /\ k[1] # "tool"
    /\ Register(c, k)
    /\ Race(c)
    /\ UNCHANGED <<fired, seen, outcome, swallowed>>

(* A tool call the gate denies without awaiting anything. *)
DeniedAtOnce(c, i) ==
    /\ pc[c] = "idle"
    /\ key' = [key EXCEPT ![c] = <<"tool", i>>]
    /\ tracked' = [tracked EXCEPT ![<<"tool", i>>] = Nobody]
    /\ Goto(c, "done")
    /\ outcome' = [outcome EXCEPT ![c] = "denied"]
    /\ UNCHANGED <<fired, work, seen, swallowed>>

BeginAsking(c, i) ==
    /\ Register(c, <<"tool", i>>)
    /\ Goto(c, "asking")
    /\ UNCHANGED <<fired, work, seen, outcome, swallowed>>

(* Mutant: the token is not looked at when the answer comes. *)
AllowedUnheeded(c) ==
    /\ pc[c] = "asking"
    /\ Race(c)
    /\ UNCHANGED <<key, tracked, fired, seen, outcome, swallowed>>
(* The gate's answer.  A call cancelled meanwhile is not started. *)
GateDenies(c) ==
    /\ pc[c] = "asking"
    /\ Leave(c, "denied")
    /\ UNCHANGED <<work, swallowed>>
AllowedTooLate(c) ==
    /\ pc[c] = "asking" /\ fired[c]
    /\ Leave(c, "cancelled")
    /\ UNCHANGED <<work, swallowed>>
Allowed(c) ==
    /\ pc[c] = "asking" /\ ~ fired[c]
    /\ Race(c)
    /\ UNCHANGED <<key, tracked, fired, seen, outcome, swallowed>>
GateAnswers(c, allow) ==
    IF allow THEN Allowed(c) \/ AllowedTooLate(c) ELSE GateDenies(c)

----------------------------------------------------------------------------
(* The race: _guarded.                                                     *)

(* The work returns, raises, or ends by CancelledError; when cancelled it  *)
(* may do any of these, or nothing for ever.                               *)
WorkEnds(c, how) ==
    /\ work[c] \in Running
    /\ work' = [work EXCEPT ![c] = how]
    /\ UNCHANGED <<key, pc, tracked, fired, seen, outcome, swallowed>>

(* Mutant: the wait has no timeout. *)
WakeWithoutDeadline(c, what) ==
    /\ pc[c] = "racing"
    /\ what # "deadline"
    /\ what = "work" <=> work[c] \in Ended
    /\ what = "token" => fired[c]
    /\ seen' = [seen EXCEPT ![c] = what]
    /\ work' = [work EXCEPT ![c] = IF @ = "running" THEN "cancelling" ELSE @]
    /\ Goto(c, "settling")
    /\ UNCHANGED <<key, tracked, fired, outcome, swallowed>>

(* asyncio.wait looks at what is done as it resumes: the work's end counts *)
(* before the token and the deadline.  What is not done is cancelled.      *)
Wake(c, what) ==
    /\ pc[c] = "racing"
    /\ what = "work" <=> work[c] \in Ended
    /\ what = "token" => fired[c]
    /\ seen' = [seen EXCEPT ![c] = what]
    /\ work' = [work EXCEPT ![c] = IF @ = "running" THEN "cancelling" ELSE @]
    /\ Goto(c, "settling")
    /\ UNCHANGED <<key, tracked, fired, outcome, swallowed>>

(* Mutant: the losers are cancelled, not awaited. *)
SettleAtOnce(c) ==
    /\ pc[c] = "settling"
    /\ Leave(c, CASE seen[c] = "token" -> "cancelled"
                  [] seen[c] = "deadline" -> "timeout"
                  [] work[c] = "raised" /\ seen[c] = "work" -> "failed"
                  [] work[c] = "returned" /\ seen[c] = "work" -> "result"
                  [] work[c] = "stopped" /\ seen[c] = "work" -> "interrupted")
    /\ UNCHANGED <<work, swallowed>>
(* Mutant: the awaited losers' exceptions are all suppressed. *)
SettleSuppressing(c) ==
    /\ work[c] \notin Running
    /\ SettleAtOnce(c)

(* The losers have been awaited; an exception of the work, other than that *)
(* of being cancelled, goes to the caller even if the work lost.           *)
Settle(c) ==
    /\ pc[c] = "settling"
    /\ work[c] \notin Running
    /\ Leave(c, CASE work[c] = "raised" -> "failed"
                  [] work[c] # "raised" /\ seen[c] = "token" -> "cancelled"
                  [] work[c] # "raised" /\ seen[c] = "deadline" -> "timeout"
                  [] work[c] = "returned" /\ seen[c] = "work" -> "result"
                  [] work[c] = "stopped" /\ seen[c] = "work" -> "interrupted")
    /\ UNCHANGED <<work, swallowed>>

(* Mutant: the tasks of a race that is given up are left to run. *)
GiveUpAlone(c) ==
    /\ pc[c] \in {"asking", "racing"}
    /\ Leave(c, "interrupted")
    /\ UNCHANGED <<work, swallowed>>
(* The task that dispatches is itself cancelled.  The question or the race *)
(* is given up, and work told but not awaited; but while a loser is        *)
(* awaited, the suppress clause meant for the loser takes the exception.   *)
GiveUp(c) ==
    /\ pc[c] \in {"asking", "racing"}
    /\ work' = [work EXCEPT ![c] = IF @ = "running" THEN "cancelling" ELSE @]
    /\ Leave(c, "interrupted")
    /\ UNCHANGED swallowed
Swallow(c) ==
    /\ pc[c] = "settling"
    /\ swallowed' = swallowed \cup {c}
    /\ UNCHANGED <<key, pc, tracked, fired, work, seen, outcome>>

RaceStep ==
    \/ \E c \in Calls :
          \/ \E how \in Ended : WorkEnds(c, how)
          \/ \E what \in {"work", "token", "deadline"} : Wake(c, what)
          \/ Settle(c)
          \/ GiveUp(c) \/ Swallow(c)
    \/ \E k \in Keys : CancelKey(k)

(* Any call may be unknown, denied, or allowed; Tools says which are. *)
CallStep ==
    \/ \E c \in Calls :
          \/ NotFound(c)
          \/ \E k \in Keys : BeginRun(c, k)
          \/ \E i \in Ids : DeniedAtOnce(c, i) \/ BeginAsking(c, i)
          \/ \E allow \in BOOLEAN : GateAnswers(c, allow)
    \/ RaceStep

(* A dispatch whose deadline has passed, or whose losers are done, runs    *)
(* on.                                                                     *)
CallFairness ==
    \A c \in Calls :
        /\ WF_callVars(\E what \in {"work", "token", "deadline"} : Wake(c, what))
        /\ WF_callVars(Settle(c))

CallSpec == CallInit /\ [][CallStep]_callVars /\ CallFairness

----------------------------------------------------------------------------
(* What is expected of it.                                                 *)

(* What the caller is told is what happened to the work: a result only of  *)
(* work that returned, a failure only of work that raised, a cancellation  *)
(* or a denial without work only if it never ran, and no exception of the  *)
(* work is lost behind a timeout.                                          *)
Truthful ==
    \A c \in Calls :
        /\ outcome[c] = "result" => work[c] = "returned" /\ seen[c] = "work"
        /\ outcome[c] = "failed" => work[c] = "raised"
        /\ outcome[c] \in {"denied", "not found"} => work[c] = "none"
        /\ outcome[c] = "cancelled" => fired[c] /\ work[c] # "raised"
        /\ outcome[c] = "timeout" => work[c] \in {"returned", "stopped"}

(* The losing task is always cancelled and awaited: once the caller has    *)
(* its answer nothing of the call still runs, unless the caller itself was *)
(* cancelled while the work raced.                                         *)
NoOrphan ==
    \A c \in Calls :
        work[c] \in Running =>
            \/ pc[c] \in {"racing", "settling"}
            \/ outcome[c] = "interrupted" /\ work[c] = "cancelling"

(* The answer tells the end of the work: it is true, and the work is over. *)
AnsweredTruly == Truthful /\ NoOrphan

(* A call in flight can be cancelled by its key, unless another call was   *)
(* given the same key; and a key never finds a call that has ended.        *)
Cancellable ==
    /\ \A c \in Calls :
           /\ pc[c] \in InFlight
           /\ \A d \in Calls \ {c} : key[d] # key[c]
           => tracked[key[c]] = c
    /\ \A k \in Keys : tracked[k] # Nobody => pc[tracked[k]] \in InFlight

(* A cancellation that arrives while the permission is asked aborts the    *)
(* call before it ever executes.                                           *)
CancelHeeded ==
    [][\A c \in Calls : fired[c] /\ work[c] = "none" => work'[c] = "none"]_callVars

(* What cancel is for: it finds the call, and what it finds heeds it. *)
CancelWorks == []Cancellable /\ CancelHeeded

(* As the code says of an outer cancellation: never swallowed. *)
NeverSwallowed == swallowed = {}
============================================================================
