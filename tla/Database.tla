------------------------------ MODULE Database ------------------------------
(***************************************************************************)
(* One open Database (depo/db.py): asyncio tasks hand their calls to a     *)
(* single writer thread that owns the one SQLite connection.               *)
(*                                                                         *)
(* A unit is one `async with db.transaction()` block, a script one         *)
(* executescript; each is a task of its own and runs once.  (A query       *)
(* outside a transaction changes nothing here: see BlobStore for what it   *)
(* reads.)  A call is a job in the thread's queue; the task waits for its  *)
(* reply, and a cancellation makes it stop waiting: a job still in the     *)
(* queue is then skipped, one the thread has started is finished and its   *)
(* reply thrown away.                                                      *)
(***************************************************************************)
EXTENDS Naturals, Sequences, FiniteSets

CONSTANTS
    Units,          \* tasks that run one transaction block
    Scripts,        \* tasks that run one executescript
    Closer,         \* the task that calls aclose
    Nobody,         \* no task
    MaxStatements,  \* bound: statements in one block
    MaxCancels      \* bound: cancellations, over all tasks

Tasks == Units \cup Scripts \cup {Closer}

ASSUME DatabaseAssumption ==
    /\ Units \cap Scripts = {}
    /\ Closer \notin Units \cup Scripts /\ Nobody \notin Tasks
    /\ MaxStatements \in Nat \ {0} /\ MaxCancels \in Nat

VARIABLES
    (* the event loop *)
    pc,             \* where each task stands
    exit,           \* how each task leaves, or is about to leave, its call
    lock,           \* _txn_lock: its holder, or Nobody
    waiters,        \* the units waiting for it, in order
    issued,         \* statements of each unit that succeeded
    cancels,        \* cancellations so far
    closed,         \* Database._closed
    (* the writer thread *)
    accepting,      \* the executor takes new jobs
    queue,          \* its jobs
    running,        \* the job it has started
    reply,          \* what each task finds when it resumes
    (* the connection *)
    connected,      \* not closed
    txn,            \* the unit whose transaction is open, or Nobody
    pending,        \* its writes, per unit, not committed
    disk,           \* committed writes, per unit
    breached        \* history: units whose open transaction a script committed

loopVars == <<pc, exit, lock, waiters, issued, cancels>>
threadVars == <<accepting, queue, running, reply>>
connVars == <<connected, txn, pending, disk>>
vars == <<loopVars, closed, threadVars, connVars, breached>>

-----------------------------------------------------------------------------
(* Jobs.  A live job has a task waiting for it. *)

Job(t, op) == [task |-> t, op |-> op, live |-> TRUE]
NoJob == [task |-> Nobody, op |-> "none", live |-> FALSE]

Abandon(job, t) == IF job.task = t THEN [job EXCEPT !.live = FALSE] ELSE job

(* t's awaited future is cancelled: its queued job will be skipped, its    *)
(* started job goes on with nobody to answer to, a reply not yet read is   *)
(* lost.                                                                   *)
Dropped(q, t) == [i \in DOMAIN q |-> Abandon(q[i], t)]
StopWaiting(t) ==
    /\ running' = Abandon(running, t)
    /\ reply' = [reply EXCEPT ![t] = "none"]

(* executor.shutdown(wait=True) blocks the event loop until the queue is   *)
(* empty.                                                                  *)
LoopRuns == pc[Closer] # "draining"

Goto(t, where) == pc' = [pc EXCEPT ![t] = where]
Leave(t, how) == Goto(t, "done") /\ exit' = [exit EXCEPT ![t] = how]

(* submit raises once the executor is shut down: the caller's branch Else. *)
Ask(q, t, op) == queue' = Append(q, Job(t, op)) /\ Goto(t, op)

-----------------------------------------------------------------------------
(* A unit of work. *)

HoldLock(u) == lock' = u
ReleaseLock == lock' = Nobody

(* __aenter__ once it has the lock: BEGIN is submitted; should that raise, *)
(* the lock is given back.                                                 *)
Begin(u) ==
    \/ /\ accepting
       /\ HoldLock(u) /\ Ask(queue, u, "begin")
       /\ UNCHANGED exit
    \/ /\ ~accepting
       /\ ReleaseLock /\ Leave(u, "failed")
       /\ UNCHANGED queue

(* __aexit__: COMMIT on a clean exit, ROLLBACK on an exception; should the *)
(* submission raise, the lock is released all the same.                    *)
Aexit(u, how, q) ==
    \/ /\ accepting
       /\ Ask(q, u, IF how = "ok" THEN "commit" ELSE "rollback")
       /\ exit' = [exit EXCEPT ![u] = how]
       /\ UNCHANGED lock
    \/ /\ ~accepting
       /\ ReleaseLock /\ Leave(u, "failed")
       /\ queue' = q

Transaction(u) ==
    /\ LoopRuns /\ pc[u] = "start"
    /\ \/ /\ closed                                    \* _ensure_open raises
          /\ Leave(u, "failed")
          /\ UNCHANGED <<lock, waiters, queue>>
       \/ /\ ~closed /\ lock = Nobody /\ waiters = <<>>
          /\ Begin(u)
          /\ UNCHANGED waiters
       \/ /\ ~closed /\ (lock # Nobody \/ waiters # <<>>)
          /\ waiters' = Append(waiters, u) /\ Goto(u, "waiting")
          /\ UNCHANGED <<exit, lock, queue>>
    /\ UNCHANGED <<issued, cancels, closed, accepting, running, reply>>
    /\ UNCHANGED <<connVars, breached>>

(* The lock is free and u is the first waiter. *)
Acquire(u) ==
    /\ LoopRuns /\ pc[u] = "waiting"
    /\ lock = Nobody /\ waiters # <<>> /\ Head(waiters) = u
    /\ waiters' = Tail(waiters)
    /\ Begin(u)
    /\ UNCHANGED <<issued, cancels, closed, accepting, running, reply>>
    /\ UNCHANGED <<connVars, breached>>

(* The task reads its reply. *)
Resume(t, where) ==
    /\ LoopRuns /\ pc[t] = where /\ reply[t] # "none"
    /\ reply' = [reply EXCEPT ![t] = "none"]

(* Mutant: a failing BEGIN leaves the lock taken. *)
BeginReturnsKeepingLock(u) ==
    /\ Resume(u, "begin")
    /\ \/ reply[u] = "ok" /\ Goto(u, "body") /\ UNCHANGED exit
       \/ reply[u] = "error" /\ Leave(u, "failed")
    /\ UNCHANGED <<lock, waiters, issued, cancels, closed, accepting, queue, running>>
    /\ UNCHANGED <<connVars, breached>>

BeginReturns(u) ==
    /\ Resume(u, "begin")
    /\ \/ /\ reply[u] = "ok"
          /\ Goto(u, "body")
          /\ UNCHANGED <<lock, exit>>
       \/ /\ reply[u] = "error"
          /\ ReleaseLock /\ Leave(u, "failed")
    /\ UNCHANGED <<waiters, issued, cancels, closed, accepting, queue, running>>
    /\ UNCHANGED <<connVars, breached>>

(* The body issues a statement (Transaction.execute, executemany,          *)
(* fetchall).                                                              *)
Execute(u) ==
    /\ LoopRuns /\ pc[u] = "body" /\ issued[u] < MaxStatements
    /\ \/ /\ accepting
          /\ Ask(queue, u, "execute")
          /\ UNCHANGED <<lock, exit>>
       \/ /\ ~accepting
          /\ Aexit(u, "failed", queue)
    /\ UNCHANGED <<waiters, issued, cancels, closed, accepting, running, reply>>
    /\ UNCHANGED <<connVars, breached>>

ExecuteReturns(u) ==
    /\ Resume(u, "execute")
    /\ \/ /\ reply[u] = "ok"
          /\ issued' = [issued EXCEPT ![u] = @ + 1]
          /\ Goto(u, "body")
          /\ UNCHANGED <<lock, exit, queue>>
       \/ /\ reply[u] = "error"
          /\ Aexit(u, "failed", queue)
          /\ UNCHANGED issued
    /\ UNCHANGED <<waiters, cancels, closed, accepting, running>>
    /\ UNCHANGED <<connVars, breached>>

(* Mutant: an exception in the block only releases the lock. *)
LeaveBodyWithoutRollback(u) ==
    /\ LoopRuns /\ pc[u] = "body"
    /\ \/ issued[u] > 0 /\ Aexit(u, "ok", queue)
       \/ ReleaseLock /\ Leave(u, "failed") /\ UNCHANGED queue
    /\ UNCHANGED <<waiters, issued, cancels, closed, accepting, running, reply>>
    /\ UNCHANGED <<connVars, breached>>

(* The block ends, after a statement, or raises of itself. *)
LeaveBody(u) ==
    /\ LoopRuns /\ pc[u] = "body"
    /\ \/ issued[u] > 0 /\ Aexit(u, "ok", queue)
       \/ Aexit(u, "failed", queue)
    /\ UNCHANGED <<waiters, issued, cancels, closed, accepting, running, reply>>
    /\ UNCHANGED <<connVars, breached>>

(* Mutant: the outcome of COMMIT is not looked at. *)
CommitReturnsRegardless(u) ==
    /\ Resume(u, "commit")
    /\ ReleaseLock /\ Leave(u, "ok")
    /\ UNCHANGED <<waiters, issued, cancels, closed, accepting, queue, running>>
    /\ UNCHANGED <<connVars, breached>>

CommitReturns(u) ==
    /\ Resume(u, "commit")
    /\ ReleaseLock /\ Leave(u, IF reply[u] = "ok" THEN "ok" ELSE "unsettled")
    /\ UNCHANGED <<waiters, issued, cancels, closed, accepting, queue, running>>
    /\ UNCHANGED <<connVars, breached>>

(* A failing ROLLBACK replaces the exception that caused it. *)
RollbackReturns(u) ==
    /\ Resume(u, "rollback")
    /\ ReleaseLock /\ Leave(u, IF reply[u] = "ok" THEN exit[u] ELSE "failed")
    /\ UNCHANGED <<waiters, issued, cancels, closed, accepting, queue, running>>
    /\ UNCHANGED <<connVars, breached>>

-----------------------------------------------------------------------------
(* A script outside any transaction: it does not take the lock. *)

ExecuteScript(s) ==
    /\ LoopRuns /\ pc[s] = "start"
    /\ \/ closed /\ Leave(s, "failed") /\ UNCHANGED queue
       \/ ~closed /\ Ask(queue, s, "script") /\ UNCHANGED exit
    /\ UNCHANGED <<lock, waiters, issued, cancels, closed>>
    /\ UNCHANGED <<accepting, running, reply, connVars, breached>>

ScriptReturns(s) ==
    /\ Resume(s, "script")
    /\ Leave(s, IF reply[s] = "ok" THEN "ok" ELSE "failed")
    /\ UNCHANGED <<lock, waiters, issued, cancels, closed>>
    /\ UNCHANGED <<accepting, queue, running, connVars, breached>>

-----------------------------------------------------------------------------
(* task.cancel() reaches t while it waits. *)

CancelWaiter(u) ==
    /\ pc[u] = "waiting"
    /\ \E i \in DOMAIN waiters :
        /\ waiters[i] = u
        /\ waiters' = SubSeq(waiters, 1, i - 1) \o SubSeq(waiters, i + 1, Len(waiters))
    /\ Leave(u, "cancelled")
    /\ UNCHANGED <<lock, queue, running, reply>>

(* In BEGIN, COMMIT or ROLLBACK: the lock is released and nothing undoes   *)
(* what the thread may still do.                                           *)
CancelBoundary(u) ==
    /\ pc[u] \in {"begin", "commit", "rollback"}
    /\ queue' = Dropped(queue, u) /\ StopWaiting(u)
    /\ ReleaseLock /\ Leave(u, "cancelled")
    /\ UNCHANGED waiters

CancelStatement(u) ==
    /\ pc[u] = "execute"
    /\ StopWaiting(u) /\ Aexit(u, "cancelled", Dropped(queue, u))
    /\ UNCHANGED waiters

CancelScript(t) ==
    /\ pc[t] = "script"
    /\ queue' = Dropped(queue, t) /\ StopWaiting(t)
    /\ Leave(t, "cancelled")
    /\ UNCHANGED <<lock, waiters>>

Cancel(t) ==
    /\ LoopRuns /\ cancels < MaxCancels
    /\ cancels' = cancels + 1
    /\ \/ t \in Units
          /\ (CancelWaiter(t) \/ CancelBoundary(t) \/ CancelStatement(t))
       \/ t \in Scripts /\ CancelScript(t)
    /\ UNCHANGED <<issued, closed, accepting, connVars, breached>>

-----------------------------------------------------------------------------
(* aclose *)

Aclose ==
    /\ pc[Closer] = "start"
    /\ closed' = TRUE
    /\ Ask(queue, Closer, "close")
    /\ UNCHANGED <<exit, lock, waiters, issued, cancels>>
    /\ UNCHANGED <<accepting, running, reply, connVars, breached>>

ShutDownExecutor ==
    /\ Resume(Closer, "close")
    /\ accepting' = FALSE
    /\ Goto(Closer, "draining")
    /\ UNCHANGED <<exit, lock, waiters, issued, cancels>>
    /\ UNCHANGED <<closed, queue, running, connVars, breached>>

Drained ==
    /\ pc[Closer] = "draining" /\ queue = <<>> /\ running = NoJob
    /\ Leave(Closer, "ok")
    /\ UNCHANGED <<lock, waiters, issued, cancels>>
    /\ UNCHANGED <<closed, threadVars, connVars, breached>>

-----------------------------------------------------------------------------
(* The writer thread and the connection. *)

Take ==
    /\ running = NoJob /\ queue # <<>>
    /\ queue' = Tail(queue)
    /\ running' = IF Head(queue).live THEN Head(queue) ELSE NoJob
    /\ UNCHANGED <<loopVars, closed, accepting, reply, connVars, breached>>

Serve(op, answer) ==
    /\ running.op = op
    /\ running' = NoJob
    /\ reply' = IF running.live THEN [reply EXCEPT ![running.task] = answer] ELSE reply
    /\ UNCHANGED <<loopVars, closed, accepting, queue, connected>>

NoWrites == [u \in Units |-> 0]
InTransaction == connected /\ txn # Nobody
CommitPending == disk' = [u \in Units |-> disk[u] + pending[u]]
Untouched == UNCHANGED <<txn, pending, disk>>
EndTransaction == txn' = Nobody /\ pending' = NoWrites
RolledBack == EndTransaction /\ UNCHANGED disk

(* BEGIN IMMEDIATE fails inside a transaction, and when another process    *)
(* holds the file past the busy timeout.                                   *)
RunBegin ==
    /\ \/ Serve("begin", "ok") /\ connected /\ txn = Nobody
          /\ txn' = running.task /\ UNCHANGED <<pending, disk>>
       \/ Serve("begin", "error") /\ Untouched
    /\ UNCHANGED breached

(* Outside a transaction the connection commits each statement by itself.  *)
(* A failing statement may make SQLite roll the transaction back.          *)
RunExecute ==
    /\ \/ Serve("execute", "ok") /\ InTransaction
          /\ pending' = [pending EXCEPT ![running.task] = @ + 1]
          /\ UNCHANGED <<txn, disk>>
       \/ Serve("execute", "ok") /\ connected /\ txn = Nobody
          /\ disk' = [disk EXCEPT ![running.task] = @ + 1]
          /\ UNCHANGED <<txn, pending>>
       \/ Serve("execute", "error") /\ (Untouched \/ RolledBack)
    /\ UNCHANGED breached

(* A failing COMMIT may leave the transaction open. *)
RunCommit ==
    /\ \/ Serve("commit", "ok") /\ InTransaction
          /\ CommitPending /\ EndTransaction
       \/ Serve("commit", "error") /\ (Untouched \/ RolledBack)
    /\ UNCHANGED breached

RunRollback ==
    /\ \/ Serve("rollback", "ok") /\ InTransaction /\ RolledBack
       \/ Serve("rollback", "error") /\ ~InTransaction /\ Untouched
    /\ UNCHANGED breached

(* sqlite3's executescript first commits an open transaction. *)
RunScript ==
    /\ \/ /\ InTransaction
          /\ Serve("script", "ok") \/ Serve("script", "error")
          /\ CommitPending /\ EndTransaction
          /\ breached' = breached \cup {txn}
       \/ Serve("script", "ok") /\ connected /\ txn = Nobody
          /\ Untouched /\ UNCHANGED breached
       \/ Serve("script", "error") /\ Untouched /\ UNCHANGED breached

(* Closing the connection rolls an open transaction back. *)
RunClose ==
    /\ running.op = "close"
    /\ running' = NoJob
    /\ reply' = [reply EXCEPT ![running.task] = "ok"]
    /\ connected' = FALSE
    /\ RolledBack
    /\ UNCHANGED <<loopVars, closed, accepting, queue, breached>>

-----------------------------------------------------------------------------

Init ==
    /\ pc = [t \in Tasks |-> "start"]
    /\ exit = [t \in Tasks |-> "none"]
    /\ lock = Nobody
    /\ waiters = <<>>
    /\ issued = NoWrites
    /\ cancels = 0
    /\ closed = FALSE
    /\ accepting = TRUE
    /\ queue = <<>>
    /\ running = NoJob
    /\ reply = [t \in Tasks |-> "none"]
    /\ connected = TRUE
    /\ txn = Nobody
    /\ pending = NoWrites
    /\ disk = NoWrites
    /\ breached = {}

(* What a unit's task does once the event loop resumes it. *)
UnitStep(u) ==
    \/ Acquire(u)
    \/ BeginReturns(u)
    \/ Execute(u)
    \/ ExecuteReturns(u)
    \/ LeaveBody(u)
    \/ CommitReturns(u)
    \/ RollbackReturns(u)

Thread ==
    \/ Take
    \/ RunBegin
    \/ RunExecute
    \/ RunCommit
    \/ RunRollback
    \/ RunScript
    \/ RunClose

CloserStep == ShutDownExecutor \/ Drained

Next ==
    \/ \E u \in Units : Transaction(u) \/ UnitStep(u)
    \/ \E s \in Scripts : ExecuteScript(s) \/ ScriptReturns(s)
    \/ \E t \in Units \cup Scripts : Cancel(t)
    \/ Aclose
    \/ CloserStep
    \/ Thread

Spec == Init /\ [][Next]_vars

(* The event loop resumes a task whose reply has come, a block ends, and   *)
(* the thread works off its queue.                                         *)
Fairness ==
    /\ WF_vars(Thread)
    /\ WF_vars(CloserStep)
    /\ \A u \in Units : WF_vars(UnitStep(u))
    /\ \A s \in Scripts : WF_vars(ScriptReturns(s))

FairSpec == Spec /\ Fairness

-----------------------------------------------------------------------------
(* Properties. *)

Count == 0 .. MaxStatements
JobOps == {"begin", "execute", "commit", "rollback", "script", "close"}
JobType == [task : Tasks, op : JobOps, live : BOOLEAN]
Places == JobOps \cup {"start", "waiting", "body", "draining", "done"}
Exits == {"none", "ok", "failed", "unsettled", "cancelled"}
Replies == {"none", "ok", "error"}

(* Every variable keeps its type. *)
TypeOK ==
    /\ pc \in [Tasks -> Places]
    /\ exit \in [Tasks -> Exits]
    /\ lock \in Units \cup {Nobody}
    /\ waiters \in Seq(Units)
    /\ issued \in [Units -> Count]
    /\ cancels \in 0 .. MaxCancels
    /\ closed \in BOOLEAN /\ accepting \in BOOLEAN /\ connected \in BOOLEAN
    /\ queue \in Seq(JobType)
    /\ running \in JobType \cup {NoJob}
    /\ reply \in [Tasks -> Replies]
    /\ txn \in Units \cup {Nobody}
    /\ pending \in [Units -> Count] /\ disk \in [Units -> Count]
    /\ breached \subseteq Units

(* The open transaction holds the writes of its own unit only, whatever    *)
(* other tasks were cancelled or failed (doc 29 par. 14, one unit at a     *)
(* time).                                                                  *)
Isolation == \A u \in Units : pending[u] > 0 => txn = u

(* All or nothing: unless a script cut the unit in two, nothing of it      *)
(* reaches the disk before its block has ended cleanly, and then every     *)
(* write it was told had succeeded does.                                   *)
AllOrNothing ==
    \A u \in Units \ breached :
        disk[u] > 0 => /\ disk[u] = issued[u] /\ pending[u] = 0
                       /\ pc[u] \in {"commit", "done"}
                       /\ exit[u] \in {"ok", "cancelled"}

(* Who was told "committed" finds every write on the disk; who was told of *)
(* a failure finds none, then or later.                                    *)
HonestAnswer ==
    \A u \in Units :
        /\ pc[u] = "done" /\ exit[u] = "ok" => u \notin breached /\ disk[u] > 0
        /\ pc[u] = "done" /\ exit[u] \in {"failed", "unsettled"} /\ u \notin breached
           => disk[u] = 0

(* A transaction is never left open behind a unit that simply failed: if   *)
(* its unit no longer holds the lock, the unit was cancelled inside BEGIN, *)
(* COMMIT or ROLLBACK, or its COMMIT failed.                               *)
AbandonedOnlyByInterruption ==
    txn # Nobody /\ lock # txn => exit[txn] \in {"cancelled", "unsettled"}

(* A unit keeps its bargain: no transaction ever holds the writes of two,  *)
(* it lands whole or not at all, its caller is told which, and only an     *)
(* interruption leaves its transaction behind.                             *)
UnitsHonest ==
    /\ TypeOK /\ Isolation /\ AllOrNothing /\ HonestAnswer
    /\ AbandonedOnlyByInterruption

(* Whatever is cancelled, fails or closes, every block that was entered is *)
(* left and every call returns: nobody keeps the lock, nobody waits for it *)
(* for ever, and aclose drains the thread.                                 *)
EveryCallEnds == \A t \in Tasks : (pc[t] # "start") ~> (pc[t] = "done")

(* The promise of AtomicUnits, implemented. *)
Answer(u) ==
    IF pc[u] # "done" THEN "nothing"
    ELSE IF exit[u] = "ok" THEN "committed"
    ELSE IF exit[u] = "cancelled" THEN "cancelled" ELSE "failed"

Promise == INSTANCE AtomicUnits WITH
    landed <- {u \in Units \ breached : disk[u] > 0},
    told <- [u \in Units |-> Answer(u)]

KeepsPromise == Promise!Spec

(* The wedge: with nobody inside a block and the thread idle, no           *)
(* transaction is open (db.py:10, the block rolls back on any exception).  *)
Quiet == lock = Nobody /\ queue = <<>> /\ running = NoJob
NoTransactionLeftOpen == Quiet => txn = Nobody
=============================================================================
