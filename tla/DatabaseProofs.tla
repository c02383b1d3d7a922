--------------------------- MODULE DatabaseProofs ---------------------------
(***************************************************************************)
(* Database's safety for every set of units and scripts and every bound.   *)
(*                                                                         *)
(* The invariant follows one unit through its life: Fresh until the thread *)
(* has served its BEGIN, Intact while its writes are exactly the           *)
(* statements it knows to have succeeded, and then landed or gone.  The    *)
(* jobs are needed beside it: a job somebody waits for agrees with that    *)
(* task's place, and one nobody waits for, still running, keeps every      *)
(* other unit from passing its own BEGIN.                                  *)
(***************************************************************************)
EXTENDS Database, SequenceTheorems, TLAPS

Holding == {"begin", "body", "execute", "commit", "rollback"}
UnitOps == {"begin", "execute", "commit", "rollback"}

(* The holder of the lock is the unit between BEGIN and its release. *)
LockInv == \A u \in Units : lock = u <=> pc[u] \in Holding

Matches(job) ==
    job.live => pc[job.task] = job.op /\ reply[job.task] = "none"

OwnOp(job) ==
    /\ job.op \in UnitOps <=> job.task \in Units
    /\ job.op = "script" <=> job.task \in Scripts
    /\ job.task = Closer => job.live

QueueInv ==
    /\ \A i \in 1 .. Len(queue) :
        /\ Matches(queue[i]) /\ OwnOp(queue[i])
        /\ queue[i].live => ~(running.live /\ running.task = queue[i].task)
    /\ \A i, j \in 1 .. Len(queue) :
        queue[i].live /\ queue[j].live /\ queue[i].task = queue[j].task => i = j

(* A started unit job without a waiter belongs to a unit on its way out,   *)
(* or gone, and no other unit has got past its own BEGIN meanwhile.        *)
RunningInv ==
    running # NoJob =>
        /\ Matches(running) /\ OwnOp(running)
        /\ ~running.live => reply[running.task] = "none"
        /\ running.op \in UnitOps =>
            /\ \A u \in Units \ {running.task} :
                   pc[u] \in Holding => pc[u] = "begin" /\ reply[u] = "none"
            /\ ~running.live =>
                \/ running.op = "execute" /\ pc[running.task] = "rollback"
                \/ pc[running.task] = "done" /\ exit[running.task] = "cancelled"
                \/ pc[running.task] = "done" /\ ~connected

ReplyInv == \A t \in Tasks : reply[t] # "none" => pc[t] \in JobOps

JobInv == QueueInv /\ RunningInv /\ ReplyInv

-----------------------------------------------------------------------------

Fresh(u) ==
    /\ txn # u /\ u \notin breached
    /\ issued[u] = 0 /\ pending[u] = 0 /\ disk[u] = 0

(* Of the n statements u has issued every write is in its open             *)
(* transaction, or a script has spilled them, or the connection is closed. *)
Holds(u, n) ==
    \/ txn = u /\ u \notin breached /\ pending[u] = n /\ disk[u] = 0
    \/ txn = Nobody /\ u \in breached /\ pending[u] = 0 /\ disk[u] <= n
    \/ txn = Nobody /\ u \notin breached /\ ~connected /\ pending[u] = 0 /\ disk[u] = 0

Intact(u) == Holds(u, issued[u])
Unwritten(u) == u \notin breached => disk[u] = 0
Landed(u) ==
    /\ u \notin breached /\ txn # u
    /\ disk[u] > 0 /\ disk[u] = issued[u] /\ pending[u] = 0

RunningOf(u, op) == running.task = u /\ running.op = op

UnitInv(u) ==
    /\ pc[u] \in {"start", "waiting", "done"} \cup Holding
    /\ u \in breached => txn # u
    /\ pending[u] > 0 => txn = u
    /\ pending[u] + disk[u] <= MaxStatements
    /\ pc[u] \in {"start", "waiting"} => Fresh(u)
    /\ pc[u] \in {"start", "waiting", "begin", "body", "execute"} => exit[u] = "none"
    /\ (pc[u] = "begin" /\ reply[u] # "ok") \/ RunningOf(u, "begin") => Fresh(u)
    /\ pc[u] = "begin" => issued[u] = 0
    /\ pc[u] = "begin" /\ reply[u] = "ok" => Intact(u)
    /\ pc[u] = "body" => Intact(u)
    /\ pc[u] = "execute" \/ RunningOf(u, "execute") => issued[u] < MaxStatements
    /\ (pc[u] = "execute" /\ reply[u] = "none") \/ RunningOf(u, "execute") => Intact(u)
    /\ pc[u] = "execute" /\ reply[u] = "ok" => Holds(u, issued[u] + 1)
    /\ pc[u] = "execute" /\ reply[u] = "error" => Unwritten(u)
    /\ pc[u] = "commit" => exit[u] = "ok"
    /\ pc[u] = "commit" \/ RunningOf(u, "commit") => issued[u] > 0
    /\ (pc[u] = "commit" /\ reply[u] = "none") \/ RunningOf(u, "commit") => Intact(u)
    /\ pc[u] = "commit" /\ reply[u] = "ok" => Landed(u)
    /\ pc[u] = "commit" /\ reply[u] = "error" => Unwritten(u)
    /\ pc[u] = "rollback" => exit[u] \in {"failed", "cancelled"} /\ Unwritten(u)
    /\ pc[u] = "rollback" /\ reply[u] # "none" => txn # u
    /\ pc[u] = "done" /\ exit[u] = "ok" => Landed(u)
    /\ pc[u] = "done" /\ exit[u] = "failed" => Unwritten(u) /\ txn # u
    /\ pc[u] = "done" /\ exit[u] = "unsettled" => Unwritten(u)
    /\ pc[u] = "done" /\ exit[u] = "cancelled" => Unwritten(u) \/ Landed(u)
    /\ pc[u] = "done" => exit[u] # "none"

ConnInv ==
    /\ ~accepting => ~connected
    /\ txn # Nobody => connected
    /\ pc[Closer] = "close" /\ reply[Closer] # "none" => ~connected

(* A statement being served still fits the bound. *)
Room ==
    /\ running # NoJob => OwnOp(running)
    /\ \A u \in Units :
        /\ pending[u] + disk[u] <= MaxStatements
        /\ RunningOf(u, "execute") => pending[u] + disk[u] < MaxStatements
        /\ pc[u] = "execute" => issued[u] < MaxStatements

IInv == TypeOK /\ LockInv /\ JobInv /\ ConnInv /\ \A u \in Units : UnitInv(u)

-----------------------------------------------------------------------------
(* Types. *)

(* Who the tasks are, and that nobody and no job are none of them.         *)
LEMMA TaskFacts ==
    /\ Units \subseteq Tasks /\ Scripts \subseteq Tasks /\ Closer \in Tasks
    /\ Units \cap Scripts = {} /\ Closer \notin Units /\ Closer \notin Scripts
    /\ Nobody \notin Units /\ Nobody \notin Tasks /\ NoJob \notin JobType
    /\ MaxStatements \in Nat /\ MaxStatements > 0 /\ MaxCancels \in Nat
BY DatabaseAssumption DEF Tasks, NoJob, JobType

(* What the thread's actions have in common. *)
LEMMA Serving ==
    ASSUME TypeOK, NEW op \in JobOps, NEW answer \in {"ok", "error"}, Serve(op, answer)
    PROVE  /\ running \in JobType /\ running.task \in Tasks /\ running.op = op
           /\ running' = NoJob
           /\ reply' \in [Tasks -> Replies]
           /\ \A t \in Tasks :
                  reply'[t] = IF running.live /\ t = running.task THEN answer ELSE reply[t]
           /\ UNCHANGED <<pc, exit, lock, waiters, issued, cancels, closed>>
           /\ UNCHANGED <<accepting, queue, connected>>
<1>1. running \in JobType
  BY DEF TypeOK, Serve, NoJob, JobOps
<1> QED
  BY <1>1 DEF TypeOK, Serve, JobType, Replies, loopVars

(* What taking a job off the queue does.                                   *)
LEMMA Taking ==
    ASSUME TypeOK, Take
    PROVE  /\ Head(queue) \in JobType /\ queue' \in Seq(JobType)
           /\ Len(queue') = Len(queue) - 1
           /\ \A i \in 1 .. Len(queue') : queue'[i] = queue[i + 1]
           /\ running = NoJob
           /\ running' = IF Head(queue).live THEN Head(queue) ELSE NoJob
           /\ UNCHANGED <<pc, exit, lock, waiters, issued, cancels, closed>>
           /\ UNCHANGED <<accepting, reply, connected, txn, pending, disk, breached>>
<1>1. queue \in Seq(JobType) /\ queue # <<>> /\ queue' = Tail(queue)
  BY DEF TypeOK, Take
<1>2. /\ Head(queue) \in JobType /\ queue' \in Seq(JobType)
      /\ Len(queue') = Len(queue) - 1
      /\ \A i \in 1 .. Len(queue') : queue'[i] = queue[i + 1]
  BY <1>1, HeadTailProperties
<1> QED
  BY <1>2 DEF Take, loopVars, connVars

(* The invariant leaves room for one more job and one more statement.      *)
LEMMA RoomThere == IInv => Room
<1> SUFFICES ASSUME IInv PROVE Room
  OBVIOUS
<1>1. running # NoJob => OwnOp(running)
  BY DEF IInv, JobInv, RunningInv
<1>2. ASSUME NEW u \in Units
      PROVE  /\ pending[u] + disk[u] <= MaxStatements
             /\ RunningOf(u, "execute") => pending[u] + disk[u] < MaxStatements
             /\ pc[u] = "execute" => issued[u] < MaxStatements
  <2>1. UnitInv(u) /\ issued[u] \in Nat /\ pending[u] \in Nat /\ disk[u] \in Nat
    BY TaskFacts DEF IInv, TypeOK, Count
  <2> QED
    BY <2>1, TaskFacts DEF UnitInv, Intact, Holds
<1> QED
  BY <1>1, <1>2 DEF Room

(* Shapes: what an operator of the loop leaves, element by element. *)
LEMMA GotoShape ==
    ASSUME TypeOK, NEW t \in Tasks, NEW where \in Places, Goto(t, where)
    PROVE  /\ pc' \in [Tasks -> Places] /\ pc'[t] = where
           /\ \A x \in Tasks : x # t => pc'[x] = pc[x]
BY DEF TypeOK, Goto

(* What leaving does to a task.                                            *)
LEMMA LeaveShape ==
    ASSUME TypeOK, NEW t \in Tasks, NEW how \in Exits, Leave(t, how)
    PROVE  /\ pc' \in [Tasks -> Places] /\ pc'[t] = "done"
           /\ exit' \in [Tasks -> Exits] /\ exit'[t] = how
           /\ \A x \in Tasks : x # t => pc'[x] = pc[x] /\ exit'[x] = exit[x]
<1>1. "done" \in Places
  BY DEF Places
<1> QED
  BY <1>1 DEF TypeOK, Leave, Goto

(* What asking does to a task and to the queue.                            *)
LEMMA AskShape ==
    ASSUME TypeOK, NEW q \in Seq(JobType), NEW t \in Tasks, NEW op \in JobOps, Ask(q, t, op)
    PROVE  /\ pc' \in [Tasks -> Places] /\ pc'[t] = op
           /\ \A x \in Tasks : x # t => pc'[x] = pc[x]
           /\ queue' \in Seq(JobType) /\ Len(queue') = Len(q) + 1
           /\ \A i \in 1 .. Len(q) : queue'[i] = q[i]
           /\ queue'[Len(q) + 1] = Job(t, op)
<1>1. op \in Places /\ Goto(t, op) /\ queue' = Append(q, Job(t, op))
  BY DEF Ask, Places
<1>2. Job(t, op) \in JobType
  BY DEF Job, JobType
<1>3. /\ queue' \in Seq(JobType) /\ Len(queue') = Len(q) + 1
      /\ \A i \in 1 .. Len(q) : queue'[i] = q[i]
      /\ queue'[Len(q) + 1] = Job(t, op)
  BY <1>1, <1>2, AppendProperties
<1> QED
  BY <1>1, <1>3, GotoShape

(* What resuming does to a reply.                                          *)
LEMMA ResumeShape ==
    ASSUME TypeOK, NEW t \in Tasks, NEW where, Resume(t, where)
    PROVE  /\ pc[t] = where /\ reply[t] \in {"ok", "error"}
           /\ reply' \in [Tasks -> Replies] /\ reply'[t] = "none"
           /\ \A x \in Tasks : x # t => reply'[x] = reply[x]
BY DEF TypeOK, Resume, Replies

(* The queue with a task's jobs given up is as long, with each of them     *)
(* marked.                                                                 *)
LEMMA DroppedShape ==
    ASSUME TypeOK, NEW t \in Tasks
    PROVE  /\ Dropped(queue, t) \in Seq(JobType)
           /\ Len(Dropped(queue, t)) = Len(queue)
           /\ \A i \in 1 .. Len(queue) : Dropped(queue, t)[i] = Abandon(queue[i], t)
           /\ Abandon(running, t) \in JobType \cup {NoJob}
<1>1. queue \in Seq(JobType) /\ running \in JobType \cup {NoJob}
  BY DEF TypeOK
<1>2. \A job \in JobType : Abandon(job, t) \in JobType
  BY DEF JobType, Abandon
<1>3. Abandon(NoJob, t) = NoJob
  BY TaskFacts DEF NoJob, Abandon
<1>4. DOMAIN queue = 1 .. Len(queue) /\ Len(queue) \in Nat
  BY <1>1
<1>5. \A i \in 1 .. Len(queue) : queue[i] \in JobType
  BY <1>1
<1>6. Dropped(queue, t) = [i \in 1 .. Len(queue) |-> Abandon(queue[i], t)]
  BY <1>4 DEF Dropped
<1>7. Dropped(queue, t) \in [1 .. Len(queue) -> JobType]
  BY <1>2, <1>5, <1>6
<1>8. Dropped(queue, t) \in Seq(JobType) /\ Len(Dropped(queue, t)) = Len(queue)
  BY <1>4, <1>7
<1> QED
  BY <1>1, <1>2, <1>3, <1>6, <1>8

(* What no longer waiting does to a task's jobs and reply.                 *)
LEMMA StopShape ==
    ASSUME TypeOK, NEW t \in Tasks, StopWaiting(t)
    PROVE  /\ running' = Abandon(running, t) /\ running' \in JobType \cup {NoJob}
           /\ reply' \in [Tasks -> Replies] /\ reply'[t] = "none"
           /\ \A x \in Tasks : x # t => reply'[x] = reply[x]
BY DroppedShape DEF TypeOK, StopWaiting, Replies

(* The two ends of a block. *)
LEMMA BeginShape ==
    ASSUME TypeOK, NEW u \in Units, Begin(u)
    PROVE  \/ /\ accepting /\ lock' = u /\ exit' = exit
              /\ Ask(queue, u, "begin")
           \/ /\ ~accepting /\ lock' = Nobody /\ queue' = queue
              /\ Leave(u, "failed")
BY DEF Begin, HoldLock, ReleaseLock

(* A block that is left asks to commit or roll back, or fails if the       *)
(* store is closed.                                                        *)
LEMMA AexitShape ==
    ASSUME TypeOK, NEW u \in Units, NEW how, NEW q, Aexit(u, how, q)
    PROVE  \/ /\ accepting /\ lock' = lock /\ exit' = [exit EXCEPT ![u] = how]
              /\ IF how = "ok" THEN Ask(q, u, "commit") ELSE Ask(q, u, "rollback")
           \/ /\ ~accepting /\ lock' = Nobody /\ queue' = q
              /\ Leave(u, "failed")
BY DEF Aexit, ReleaseLock

(* Beginning a unit keeps the types.                                       *)
LEMMA BeginTypes ==
    ASSUME TypeOK, NEW u \in Units, Begin(u)
    PROVE  /\ pc' \in [Tasks -> Places] /\ exit' \in [Tasks -> Exits]
           /\ lock' \in Units \cup {Nobody} /\ queue' \in Seq(JobType)
<1>1. "begin" \in JobOps /\ "failed" \in Exits /\ u \in Tasks
  BY TaskFacts DEF JobOps, Exits
<1> QED
  BY <1>1, BeginShape, AskShape, LeaveShape DEF TypeOK

(* Leaving a block keeps the types.                                        *)
LEMMA AexitTypes ==
    ASSUME TypeOK, NEW u \in Units, NEW how \in Exits, NEW q \in Seq(JobType),
           Aexit(u, how, q)
    PROVE  /\ pc' \in [Tasks -> Places] /\ exit' \in [Tasks -> Exits]
           /\ lock' \in Units \cup {Nobody} /\ queue' \in Seq(JobType)
<1>1. {"commit", "rollback"} \subseteq JobOps /\ "failed" \in Exits /\ u \in Tasks
  BY TaskFacts DEF JobOps, Exits
<1>2. CASE accepting
  <2>1. lock' = lock /\ exit' = [exit EXCEPT ![u] = how]
    BY <1>2 DEF Aexit
  <2>2. \E op \in {"commit", "rollback"} : Ask(q, u, op)
    BY <1>2 DEF Aexit
  <2>3. pc' \in [Tasks -> Places] /\ queue' \in Seq(JobType)
    BY <1>1, <2>2, AskShape DEF TypeOK
  <2> QED
    BY <1>1, <2>1, <2>3 DEF TypeOK
<1>3. CASE ~accepting
  <2>1. lock' = Nobody /\ Leave(u, "failed") /\ queue' = q
    BY <1>3 DEF Aexit, ReleaseLock
  <2>2. pc' \in [Tasks -> Places] /\ exit' \in [Tasks -> Exits]
    BY <1>1, <2>1, LeaveShape DEF TypeOK
  <2> QED
    BY <2>1, <2>2
<1> QED
  BY <1>2, <1>3

-----------------------------------------------------------------------------

(* The types hold at the start.                                            *)
LEMMA TypeInit == Init => TypeOK
<1> SUFFICES ASSUME Init PROVE TypeOK
  OBVIOUS
<1>1. 0 \in Count /\ 0 \in 0 .. MaxCancels
  BY TaskFacts DEF Count
<1>2. waiters \in Seq(Units) /\ queue \in Seq(JobType)
  BY DEF Init
<1> QED
  BY <1>1, <1>2 DEF Init, TypeOK, NoWrites, Places, Exits, Replies

(* Every step keeps the types.                                             *)
LEMMA TypeNext == TypeOK /\ Room /\ [Next]_vars => TypeOK'
<1> SUFFICES ASSUME TypeOK, Room, [Next]_vars PROVE TypeOK'
  OBVIOUS
<1> USE TaskFacts
<1>a. Exits = {"none", "ok", "failed", "unsettled", "cancelled"} /\ JobOps \subseteq Places
  BY DEF Exits, Places
<1>b. {"waiting", "body", "draining", "done"} \subseteq Places
  BY DEF Places
<1>c. JobOps = {"begin", "execute", "commit", "rollback", "script", "close"}
  BY DEF JobOps
<1>1. ASSUME NEW u \in Units, Transaction(u) PROVE TypeOK'
  <2>1. /\ pc' \in [Tasks -> Places] /\ exit' \in [Tasks -> Exits]
        /\ lock' \in Units \cup {Nobody} /\ queue' \in Seq(JobType)
        /\ waiters' \in Seq(Units)
    <3>1. CASE Leave(u, "failed") /\ UNCHANGED <<lock, waiters, queue>>
      BY <3>1, <1>a, LeaveShape DEF TypeOK
    <3>2. CASE Begin(u) /\ UNCHANGED waiters
      BY <3>2, BeginTypes DEF TypeOK
    <3>3. CASE waiters' = Append(waiters, u) /\ Goto(u, "waiting") /\ UNCHANGED <<exit, lock, queue>>
      BY <3>3, <1>b, GotoShape, AppendProperties DEF TypeOK
    <3> QED
      BY <1>1, <3>1, <3>2, <3>3 DEF Transaction
  <2> QED
    BY <1>1, <2>1 DEF Transaction, TypeOK, connVars
<1>2. ASSUME NEW u \in Units, Acquire(u) PROVE TypeOK'
  <2>1. waiters' \in Seq(Units)
    BY <1>2, HeadTailProperties DEF Acquire, TypeOK
  <2> QED
    BY <1>2, <2>1, BeginTypes DEF Acquire, TypeOK, connVars
<1>3. ASSUME NEW u \in Units, BeginReturns(u) PROVE TypeOK'
  BY <1>3, <1>a, <1>b, ResumeShape, GotoShape, LeaveShape DEF BeginReturns, ReleaseLock, TypeOK, connVars
<1>4. ASSUME NEW u \in Units, Execute(u) PROVE TypeOK'
  <2>1. CASE Ask(queue, u, "execute") /\ UNCHANGED <<lock, exit>>
    BY <1>4, <2>1, <1>c, AskShape DEF Execute, TypeOK, connVars
  <2>2. CASE Aexit(u, "failed", queue)
    BY <1>4, <2>2, <1>a, AexitTypes DEF Execute, TypeOK, connVars
  <2> QED
    BY <1>4, <2>1, <2>2 DEF Execute
<1>5. ASSUME NEW u \in Units, ExecuteReturns(u) PROVE TypeOK'
  <2>1. CASE reply[u] = "ok"
    <3>1. /\ issued \in [Units -> Count] /\ issued[u] < MaxStatements
          /\ issued' = [issued EXCEPT ![u] = issued[u] + 1]
      BY <1>5, <2>1 DEF ExecuteReturns, Resume, Room, TypeOK
    <3>2. issued[u] + 1 \in Count
      BY <3>1 DEF Count
    <3>3. issued' \in [Units -> Count]
      BY <3>1, <3>2
    <3> QED
      BY <1>5, <2>1, <3>3, <1>b, ResumeShape, GotoShape DEF ExecuteReturns, TypeOK, connVars
  <2>2. CASE reply[u] = "error"
    BY <1>5, <2>2, <1>a, ResumeShape, AexitTypes DEF ExecuteReturns, TypeOK, connVars
  <2> QED
    BY <1>5, <2>1, <2>2, ResumeShape DEF ExecuteReturns
<1>6. ASSUME NEW u \in Units, LeaveBody(u) PROVE TypeOK'
  BY <1>6, <1>a, AexitTypes DEF LeaveBody, TypeOK, connVars
<1>7. ASSUME NEW u \in Units, CommitReturns(u) PROVE TypeOK'
  BY <1>7, <1>a, ResumeShape, LeaveShape DEF CommitReturns, ReleaseLock, TypeOK, connVars
<1>8. ASSUME NEW u \in Units, RollbackReturns(u) PROVE TypeOK'
  <2>1. exit[u] \in Exits
    BY DEF TypeOK
  <2> QED
    BY <1>8, <2>1, <1>a, ResumeShape, LeaveShape DEF RollbackReturns, ReleaseLock, TypeOK, connVars
<1>9. ASSUME NEW s \in Scripts, ExecuteScript(s) PROVE TypeOK'
  BY <1>9, <1>a, <1>c, AskShape, LeaveShape DEF ExecuteScript, TypeOK, connVars
<1>10. ASSUME NEW s \in Scripts, ScriptReturns(s) PROVE TypeOK'
  BY <1>10, <1>a, ResumeShape, LeaveShape DEF ScriptReturns, TypeOK, connVars
<1>11. ASSUME Aclose PROVE TypeOK'
  BY <1>11, <1>c, AskShape DEF Aclose, TypeOK, connVars
<1>12. ASSUME ShutDownExecutor PROVE TypeOK'
  BY <1>12, <1>b, ResumeShape, GotoShape DEF ShutDownExecutor, TypeOK, connVars
<1>13. ASSUME Drained PROVE TypeOK'
  BY <1>13, <1>a, LeaveShape DEF Drained, TypeOK, connVars, threadVars
<1>14. ASSUME Take PROVE TypeOK'
  BY <1>14, Taking DEF TypeOK
<1>15. ASSUME RunBegin PROVE TypeOK'
  <2>1. PICK answer \in {"ok", "error"} : Serve("begin", answer)
    BY <1>15 DEF RunBegin
  <2>2. /\ running \in JobType /\ running.op = "begin" /\ running' = NoJob
        /\ reply' \in [Tasks -> Replies]
        /\ UNCHANGED <<pc, exit, lock, waiters, issued, cancels, closed>>
        /\ UNCHANGED <<accepting, queue, connected>>
    BY <2>1, <1>c, Serving
  <2>3. running # NoJob
    BY <2>2
  <2>4. running.task \in Units
    BY <2>2, <2>3 DEF Room, OwnOp, UnitOps
  <2>5. txn' \in Units \cup {Nobody} /\ breached' \subseteq Units
    BY <1>15, <2>4 DEF RunBegin, Untouched, RolledBack, EndTransaction, InTransaction, TypeOK
  <2>6. pending' \in [Units -> Count] /\ disk' \in [Units -> Count]
    <3>1. 0 \in Count
      BY DEF Count
    <3> QED
      BY <1>15, <3>1 DEF RunBegin, Untouched, RolledBack, EndTransaction, NoWrites, TypeOK
  <2> QED
    BY <2>2, <2>5, <2>6 DEF TypeOK
<1>16. ASSUME RunExecute PROVE TypeOK'
  <2>1. PICK answer \in {"ok", "error"} : Serve("execute", answer)
    BY <1>16 DEF RunExecute
  <2>2. /\ running \in JobType /\ running.op = "execute" /\ running' = NoJob
        /\ reply' \in [Tasks -> Replies]
        /\ UNCHANGED <<pc, exit, lock, waiters, issued, cancels, closed>>
        /\ UNCHANGED <<accepting, queue, connected>>
    BY <2>1, <1>c, Serving
  <2>3. running # NoJob
    BY <2>2
  <2>4. running.task \in Units
    BY <2>2, <2>3 DEF Room, OwnOp, UnitOps
  <2>5. txn' \in Units \cup {Nobody} /\ breached' \subseteq Units
    BY <1>16, <2>4 DEF RunExecute, Untouched, RolledBack, EndTransaction, InTransaction, TypeOK
  <2>6. pending' \in [Units -> Count] /\ disk' \in [Units -> Count]
    <3>1. pending[running.task] + disk[running.task] < MaxStatements
      BY <2>2, <2>4 DEF Room, RunningOf
    <3>2. pending[running.task] \in Count /\ disk[running.task] \in Count
      BY <2>4 DEF TypeOK
    <3>3. pending[running.task] + 1 \in Count /\ disk[running.task] + 1 \in Count /\ 0 \in Count
      BY <3>1, <3>2 DEF Count
    <3>4. UNCHANGED <<pending, disk>> \/ (pending' = NoWrites /\ UNCHANGED disk)
          \/ (pending' = [pending EXCEPT ![running.task] = @ + 1] /\ UNCHANGED disk)
          \/ (disk' = [disk EXCEPT ![running.task] = @ + 1] /\ UNCHANGED pending)
      BY <1>16 DEF RunExecute, Untouched, RolledBack, EndTransaction
    <3>5. NoWrites \in [Units -> Count]
      BY <3>3 DEF NoWrites
    <3>6. pending \in [Units -> Count] /\ disk \in [Units -> Count]
      BY DEF TypeOK
    <3> QED
      BY <2>4, <3>3, <3>4, <3>5, <3>6
  <2> QED
    BY <2>2, <2>5, <2>6 DEF TypeOK
<1>17. ASSUME RunCommit PROVE TypeOK'
  <2>1. PICK answer \in {"ok", "error"} : Serve("commit", answer)
    BY <1>17 DEF RunCommit
  <2>2. /\ running \in JobType /\ running.op = "commit" /\ running' = NoJob
        /\ reply' \in [Tasks -> Replies]
        /\ UNCHANGED <<pc, exit, lock, waiters, issued, cancels, closed>>
        /\ UNCHANGED <<accepting, queue, connected>>
    BY <2>1, <1>c, Serving
  <2>3. running # NoJob
    BY <2>2
  <2>4. TRUE
    OBVIOUS
  <2>5. txn' \in Units \cup {Nobody} /\ breached' \subseteq Units
    BY <1>17, <2>4 DEF RunCommit, Untouched, RolledBack, EndTransaction, InTransaction, TypeOK
  <2>6. pending' \in [Units -> Count] /\ disk' \in [Units -> Count]
    <3>1. 0 \in Count /\ \A u \in Units : disk[u] + pending[u] \in Count
      BY DEF TypeOK, Count, Room
    <3> QED
      BY <1>17, <3>1 DEF RunCommit, Untouched, RolledBack, EndTransaction, CommitPending, NoWrites, TypeOK
  <2> QED
    BY <2>2, <2>5, <2>6 DEF TypeOK
<1>18. ASSUME RunRollback PROVE TypeOK'
  <2>1. PICK answer \in {"ok", "error"} : Serve("rollback", answer)
    BY <1>18 DEF RunRollback
  <2>2. /\ running \in JobType /\ running.op = "rollback" /\ running' = NoJob
        /\ reply' \in [Tasks -> Replies]
        /\ UNCHANGED <<pc, exit, lock, waiters, issued, cancels, closed>>
        /\ UNCHANGED <<accepting, queue, connected>>
    BY <2>1, <1>c, Serving
  <2>3. running # NoJob
    BY <2>2
  <2>4. TRUE
    OBVIOUS
  <2>5. txn' \in Units \cup {Nobody} /\ breached' \subseteq Units
    BY <1>18, <2>4 DEF RunRollback, Untouched, RolledBack, EndTransaction, InTransaction, TypeOK
  <2>6. pending' \in [Units -> Count] /\ disk' \in [Units -> Count]
    <3>1. 0 \in Count
      BY DEF Count
    <3> QED
      BY <1>18, <3>1 DEF RunRollback, Untouched, RolledBack, EndTransaction, NoWrites, TypeOK
  <2> QED
    BY <2>2, <2>5, <2>6 DEF TypeOK
<1>19. ASSUME RunScript PROVE TypeOK'
  <2>1. PICK answer \in {"ok", "error"} : Serve("script", answer)
    BY <1>19 DEF RunScript
  <2>2. /\ running \in JobType /\ running.op = "script" /\ running' = NoJob
        /\ reply' \in [Tasks -> Replies]
        /\ UNCHANGED <<pc, exit, lock, waiters, issued, cancels, closed>>
        /\ UNCHANGED <<accepting, queue, connected>>
    BY <2>1, <1>c, Serving
  <2>3. running # NoJob
    BY <2>2
  <2>4. TRUE
    OBVIOUS
  <2>5. txn' \in Units \cup {Nobody} /\ breached' \subseteq Units
    BY <1>19, <2>4 DEF RunScript, Untouched, RolledBack, EndTransaction, InTransaction, TypeOK
  <2>6. pending' \in [Units -> Count] /\ disk' \in [Units -> Count]
    <3>1. 0 \in Count /\ \A u \in Units : disk[u] + pending[u] \in Count
      BY DEF TypeOK, Count, Room
    <3> QED
      BY <1>19, <3>1 DEF RunScript, Untouched, RolledBack, EndTransaction, CommitPending, NoWrites, TypeOK
  <2> QED
    BY <2>2, <2>5, <2>6 DEF TypeOK
<1>20. ASSUME RunClose PROVE TypeOK'
  <2>1. running \in JobType
    BY <1>20 DEF RunClose, NoJob, TypeOK
  <2>2. reply' \in [Tasks -> Replies]
    BY <1>20, <2>1 DEF RunClose, JobType, Replies, TypeOK
  <2>3. pending' \in [Units -> Count]
    BY <1>20 DEF RunClose, RolledBack, EndTransaction, NoWrites, Count
  <2> QED
    BY <1>20, <2>2, <2>3 DEF RunClose, RolledBack, EndTransaction, loopVars, TypeOK
<1>21. ASSUME NEW t \in Units \cup Scripts, Cancel(t) PROVE TypeOK'
  <2>a. t \in Tasks /\ cancels' \in 0 .. MaxCancels
    BY <1>21 DEF Cancel, TypeOK
  <2>1. CASE t \in Units /\ CancelWaiter(t)
    <3>1. PICK i \in DOMAIN waiters :
            waiters' = SubSeq(waiters, 1, i - 1) \o SubSeq(waiters, i + 1, Len(waiters))
      BY <2>1 DEF CancelWaiter
    <3>2. waiters \in Seq(Units) /\ i \in 1 .. Len(waiters) /\ Len(waiters) \in Nat
      BY DEF TypeOK
    <3>3. SubSeq(waiters, 1, i - 1) \in Seq(Units) /\ SubSeq(waiters, i + 1, Len(waiters)) \in Seq(Units)
      BY <3>2, SubSeqProperties
    <3>4. waiters' \in Seq(Units)
      BY <3>1, <3>3, ConcatProperties
    <3> QED
      BY <1>21, <2>a, <2>1, <3>4, <1>a, LeaveShape DEF Cancel, CancelWaiter, TypeOK, connVars
  <2>2. CASE t \in Units /\ CancelBoundary(t)
    BY <1>21, <2>a, <2>2, <1>a, DroppedShape, StopShape, LeaveShape
    DEF Cancel, CancelBoundary, ReleaseLock, TypeOK, connVars
  <2>3. CASE t \in Units /\ CancelStatement(t)
    BY <1>21, <2>a, <2>3, <1>a, DroppedShape, StopShape, AexitTypes DEF Cancel, CancelStatement, TypeOK, connVars
  <2>4. CASE t \in Scripts /\ CancelScript(t)
    BY <1>21, <2>a, <2>4, <1>a, DroppedShape, StopShape, LeaveShape DEF Cancel, CancelScript, TypeOK, connVars
  <2> QED
    BY <1>21, <2>1, <2>2, <2>3, <2>4 DEF Cancel
<1>22. CASE UNCHANGED vars
  BY <1>22 DEF vars, loopVars, threadVars, connVars, TypeOK
<1> QED
  BY <1>1, <1>2, <1>3, <1>4, <1>5, <1>6, <1>7, <1>8, <1>9, <1>10, <1>11, <1>12, <1>13, <1>14, <1>15, <1>16, <1>17, <1>18, <1>19, <1>20, <1>21, <1>22 DEF Next, UnitStep, CloserStep, Thread

-----------------------------------------------------------------------------
(* The lock. *)

(* Every step keeps who holds the lock and who waits for it.               *)
LEMMA LockNext == TypeOK /\ LockInv /\ [Next]_vars => LockInv'
<1> SUFFICES ASSUME TypeOK, LockInv, [Next]_vars PROVE LockInv'
  OBVIOUS
<1> USE TaskFacts
<1>a. /\ {"begin", "commit", "rollback", "execute"} \subseteq JobOps /\ "script" \in JobOps
      /\ "close" \in JobOps /\ {"waiting", "body", "draining", "done"} \subseteq Places
      /\ {"failed", "cancelled", "ok", "unsettled"} \subseteq Exits
      /\ queue \in Seq(JobType) /\ exit \in [Tasks -> Exits]
  BY DEF JobOps, Places, Exits, TypeOK
<1>b. \A u, v \in Units : u # v /\ lock = u => lock # v /\ pc[v] \notin Holding
  BY DEF LockInv
(* u takes the lock from nobody, or gives it back, or keeps it. *)
<1>c. ASSUME NEW u \in Units,
             \A v \in Units : v # u => pc'[v] = pc[v],
             \/ lock = Nobody /\ lock' = u /\ pc'[u] \in Holding
             \/ lock \in {Nobody, u} /\ lock' = Nobody /\ pc'[u] \notin Holding
             \/ lock' = lock /\ (pc'[u] \in Holding <=> pc[u] \in Holding)
      PROVE  LockInv'
  BY <1>b, <1>c DEF LockInv
<1>d. ASSUME NEW u \in Units, Begin(u), lock = Nobody PROVE LockInv'
  <2>1. CASE lock' = u /\ Ask(queue, u, "begin")
    BY <2>1, <1>a, <1>c, <1>d, AskShape DEF Holding
  <2>2. CASE lock' = Nobody /\ Leave(u, "failed")
    BY <2>2, <1>a, <1>c, <1>d, LeaveShape DEF Holding
  <2> QED
    BY <1>d, <2>1, <2>2, BeginShape
<1>e. ASSUME NEW u \in Units, NEW how \in Exits, NEW q \in Seq(JobType),
             Aexit(u, how, q), lock = u
      PROVE  LockInv'
  <2>1. pc[u] \in Holding
    BY <1>e DEF LockInv
  <2>2. CASE lock' = lock /\ (Ask(q, u, "commit") \/ Ask(q, u, "rollback"))
    BY <2>1, <2>2, <1>a, <1>c, <1>e, AskShape DEF Holding
  <2>3. CASE lock' = Nobody /\ Leave(u, "failed")
    BY <2>3, <1>a, <1>c, <1>e, LeaveShape DEF Holding
  <2> QED
    BY <1>e, <2>2, <2>3, AexitShape
<1>f. ASSUME NEW u \in Units, NEW how \in Exits, Leave(u, how), ReleaseLock, lock = u
      PROVE  LockInv'
  BY <1>f, <1>a, <1>c, LeaveShape DEF Holding, ReleaseLock
<1>g. ASSUME NEW t \in Tasks, \A x \in Tasks : x # t => pc'[x] = pc[x], lock' = lock,
             t \notin Units \/ (pc[t] \notin Holding /\ pc'[t] \notin Holding)
                \/ (pc[t] \in Holding /\ pc'[t] \in Holding)
      PROVE  LockInv'
  BY <1>g DEF LockInv
<1>h. ASSUME NEW u \in Units, pc[u] \in Holding PROVE lock = u
  BY <1>h DEF LockInv
<1>1. ASSUME NEW u \in Units, Transaction(u) PROVE LockInv'
  <2>1. CASE Leave(u, "failed") /\ lock' = lock
    BY <1>1, <2>1, <1>a, <1>g, LeaveShape DEF Transaction, Holding
  <2>2. CASE lock = Nobody /\ Begin(u)
    BY <2>2, <1>d
  <2>3. CASE Goto(u, "waiting") /\ lock' = lock
    BY <1>1, <2>3, <1>a, <1>g, GotoShape DEF Transaction, Holding
  <2> QED
    BY <1>1, <2>1, <2>2, <2>3 DEF Transaction
<1>2. ASSUME NEW u \in Units, Acquire(u) PROVE LockInv'
  BY <1>2, <1>d DEF Acquire
<1>3. ASSUME NEW u \in Units, BeginReturns(u) PROVE LockInv'
  <2>1. pc[u] = "begin" /\ lock = u
    BY <1>3, <1>h, ResumeShape DEF BeginReturns, Holding
  <2>2. CASE Goto(u, "body") /\ lock' = lock
    BY <2>1, <2>2, <1>a, <1>g, GotoShape DEF Holding
  <2>3. CASE ReleaseLock /\ Leave(u, "failed")
    BY <2>1, <2>3, <1>a, <1>f
  <2> QED
    BY <1>3, <2>2, <2>3 DEF BeginReturns
<1>4. ASSUME NEW u \in Units, Execute(u) PROVE LockInv'
  <2>1. pc[u] = "body" /\ lock = u
    BY <1>4, <1>h DEF Execute, Holding
  <2>2. CASE Ask(queue, u, "execute") /\ lock' = lock
    BY <2>1, <2>2, <1>a, <1>g, AskShape DEF Holding
  <2>3. CASE Aexit(u, "failed", queue)
    BY <2>1, <2>3, <1>a, <1>e
  <2> QED
    BY <1>4, <2>2, <2>3 DEF Execute
<1>5. ASSUME NEW u \in Units, ExecuteReturns(u) PROVE LockInv'
  <2>1. pc[u] = "execute" /\ lock = u
    BY <1>5, <1>h, ResumeShape DEF ExecuteReturns, Holding
  <2>2. CASE Goto(u, "body") /\ lock' = lock
    BY <2>1, <2>2, <1>a, <1>g, GotoShape DEF Holding
  <2>3. CASE Aexit(u, "failed", queue)
    BY <2>1, <2>3, <1>a, <1>e
  <2> QED
    BY <1>5, <2>2, <2>3 DEF ExecuteReturns
<1>6. ASSUME NEW u \in Units, LeaveBody(u) PROVE LockInv'
  <2>1. lock = u
    BY <1>6, <1>h DEF LeaveBody, Holding
  <2> QED
    BY <1>6, <2>1, <1>a, <1>e DEF LeaveBody
<1>7. ASSUME NEW u \in Units, CommitReturns(u) \/ RollbackReturns(u) PROVE LockInv'
  <2>1. lock = u
    BY <1>7, <1>h, ResumeShape DEF CommitReturns, RollbackReturns, Holding
  <2>2. PICK how \in Exits : Leave(u, how) /\ ReleaseLock
    BY <1>7, <1>a DEF CommitReturns, RollbackReturns
  <2> QED
    BY <2>1, <2>2, <1>f
<1>8. ASSUME NEW s \in Scripts, ExecuteScript(s) \/ ScriptReturns(s) PROVE LockInv'
  BY <1>8, <1>a, <1>g, AskShape, LeaveShape DEF ExecuteScript, ScriptReturns
<1>9. ASSUME Aclose \/ CloserStep PROVE LockInv'
  BY <1>9, <1>a, <1>g, AskShape, LeaveShape, GotoShape
  DEF Aclose, CloserStep, ShutDownExecutor, Drained
<1>10. ASSUME NEW t \in Units \cup Scripts, Cancel(t) PROVE LockInv'
  <2>1. CASE t \in Units /\ CancelWaiter(t)
    BY <2>1, <1>a, <1>g, LeaveShape DEF CancelWaiter, Holding
  <2>2. CASE t \in Units /\ CancelBoundary(t)
    BY <2>2, <1>a, <1>f, <1>h DEF CancelBoundary, Holding
  <2>3. CASE t \in Units /\ CancelStatement(t)
    BY <2>3, <1>a, <1>e, <1>h, DroppedShape DEF CancelStatement, Holding
  <2>4. CASE t \in Scripts /\ CancelScript(t)
    BY <2>4, <1>a, <1>g, LeaveShape DEF CancelScript
  <2> QED
    BY <1>10, <2>1, <2>2, <2>3, <2>4 DEF Cancel
<1>11. CASE Thread \/ UNCHANGED vars
  <2>1. UNCHANGED <<pc, lock>>
    BY <1>11 DEF Thread, Take, RunBegin, RunExecute, RunCommit, RunRollback, RunScript, RunClose,
       Serve, vars, loopVars
  <2> QED
    BY <2>1 DEF LockInv
<1> QED
  BY <1>1, <1>2, <1>3, <1>4, <1>5, <1>6, <1>7, <1>8, <1>9, <1>10, <1>11 DEF Next, UnitStep

-----------------------------------------------------------------------------
(* The jobs. *)

Unattended(t) ==
    /\ \A i \in 1 .. Len(queue) : ~(queue[i].live /\ queue[i].task = t)
    /\ ~(running.live /\ running.task = t)

(* No job is under way for a task that has its reply, or awaits none. *)
LEMMA Idle ==
    ASSUME TypeOK, JobInv, NEW t \in Tasks, reply[t] # "none" \/ pc[t] \notin JobOps
    PROVE  Unattended(t)
<1>1. \A i \in 1 .. Len(queue) : queue[i] \in JobType
  BY DEF TypeOK
<1>2. \A i \in 1 .. Len(queue) : ~(queue[i].live /\ queue[i].task = t)
  BY <1>1 DEF JobInv, QueueInv, Matches, JobType
<1>3. ~(running.live /\ running.task = t)
  BY DEF JobInv, RunningInv, Matches, JobType, TypeOK, NoJob
<1> QED
  BY <1>2, <1>3 DEF Unattended

(* A unit that has its answer, or is not waiting for one, has no job       *)
(* running.                                                                *)
LEMMA NotRunning ==
    ASSUME TypeOK, JobInv, NEW u \in Units,
           reply[u] # "none" \/ pc[u] \in {"start", "waiting", "body"}
    PROVE  running.task # u
<1> SUFFICES ASSUME running.task = u PROVE FALSE
  OBVIOUS
<1>1. u \in Tasks /\ running # NoJob /\ (pc[u] \notin JobOps \/ reply[u] # "none")
  BY TaskFacts DEF NoJob, JobOps
<1>2. running # NoJob
  BY TaskFacts DEF NoJob
<1>3. ~running.live
  BY <1>1, TaskFacts, Idle DEF Unattended
<1>4. running.op \in UnitOps
  BY <1>2 DEF JobInv, RunningInv, OwnOp
<1> QED
  BY <1>2, <1>3, <1>4 DEF JobInv, RunningInv

(* A step of the event loop on behalf of t: it answers to nobody else. *)
LEMMA LoopStep ==
    ASSUME TypeOK, TypeOK', JobInv, NEW t \in Tasks, NEW q \in Seq(JobType),
           \A x \in Tasks : x # t => pc'[x] = pc[x] /\ exit'[x] = exit[x] /\ reply'[x] = reply[x],
           reply'[t] = "none", connected' = connected,
           \/ q = queue /\ running' = running /\ Unattended(t)
           \/ t # Closer /\ q = Dropped(queue, t) /\ running' = Abandon(running, t),
           \/ queue' = q
           \/ \E op \in JobOps : Ask(q, t, op) /\ OwnOp(Job(t, op)),
           running # NoJob /\ running.op \in UnitOps /\ running.task # t /\ pc'[t] \in Holding
               => pc'[t] = "begin",
           running.task = t /\ running.op \in UnitOps =>
               \/ running.op = "execute" /\ pc'[t] = "rollback"
               \/ pc'[t] = "done" /\ exit'[t] = "cancelled"
               \/ pc'[t] = "done" /\ ~connected
    PROVE  JobInv'
<1> USE TaskFacts
<1>1. /\ Len(q) = Len(queue) /\ Len(queue) \in Nat
      /\ \A i \in 1 .. Len(queue) :
            /\ queue[i] \in JobType /\ q[i] \in JobType
            /\ q[i].task = queue[i].task /\ q[i].op = queue[i].op
            /\ q[i].live => queue[i].live /\ queue[i].task # t
            /\ t = Closer => q[i].live = queue[i].live
            /\ queue[i].task # t => q[i].live = queue[i].live
  <2>1. Len(queue) \in Nat /\ \A i \in 1 .. Len(queue) : queue[i] \in JobType
    BY DEF TypeOK
  <2>2. CASE q = queue /\ Unattended(t)
    BY <2>1, <2>2 DEF Unattended, JobType
  <2>3. CASE q = Dropped(queue, t) /\ t # Closer
    <3>1. Len(q) = Len(queue) /\ \A i \in 1 .. Len(queue) : q[i] = Abandon(queue[i], t)
      BY <2>3, DroppedShape
    <3>2. ASSUME NEW job \in JobType
          PROVE  /\ Abandon(job, t) \in JobType
                 /\ Abandon(job, t).task = job.task /\ Abandon(job, t).op = job.op
                 /\ Abandon(job, t).live => job.live /\ job.task # t
                 /\ job.task # t => Abandon(job, t).live = job.live
      BY DEF Abandon, JobType
    <3> QED
      BY <2>1, <2>3, <3>1, <3>2
  <2>4. (q = queue /\ Unattended(t)) \/ (q = Dropped(queue, t) /\ t # Closer)
    OBVIOUS
  <2> QED
    BY <2>2, <2>3, <2>4
<1>2. /\ running' \in JobType \cup {NoJob}
      /\ running.task = running'.task /\ running'.op = running.op
      /\ running'.live => running.live /\ running.task # t
      /\ t = Closer \/ running.task # t => running'.live = running.live
      /\ running' = NoJob <=> running = NoJob
  <2>1. running \in JobType \cup {NoJob} /\ running' \in JobType \cup {NoJob}
    BY DEF TypeOK
  <2> QED
    BY <2>1 DEF Unattended, Abandon, JobType, NoJob
<1>3. \/ queue' = q
      \/ /\ queue' \in Seq(JobType) /\ Len(queue') = Len(q) + 1
         /\ \A i \in 1 .. Len(q) : queue'[i] = q[i]
         /\ \E op \in JobOps :
               queue'[Len(q) + 1] = Job(t, op) /\ pc'[t] = op /\ OwnOp(Job(t, op))
  BY AskShape
<1>4. QueueInv'
  <2>1. \A i \in 1 .. Len(q) :
          /\ Matches(q[i])' /\ OwnOp(q[i])
          /\ q[i].live => ~(running'.live /\ running'.task = q[i].task) /\ q[i].task # t
    BY <1>1, <1>2 DEF JobInv, QueueInv, Matches, OwnOp, JobType
  <2>2. \A i, j \in 1 .. Len(q) : q[i].live /\ q[j].live /\ q[i].task = q[j].task => i = j
    BY <1>1 DEF JobInv, QueueInv
  <2>3. CASE queue' = q
    BY <2>1, <2>2, <2>3 DEF QueueInv, Matches, OwnOp
  <2>4. CASE /\ queue' \in Seq(JobType) /\ Len(queue') = Len(q) + 1
             /\ \A i \in 1 .. Len(q) : queue'[i] = q[i]
             /\ \E op \in JobOps :
                   queue'[Len(q) + 1] = Job(t, op) /\ pc'[t] = op /\ OwnOp(Job(t, op))
    <3>1. PICK op \in JobOps :
            queue'[Len(q) + 1] = Job(t, op) /\ pc'[t] = op /\ OwnOp(Job(t, op))
      BY <2>4
    <3>2. /\ Job(t, op).task = t /\ Job(t, op).op = op
          /\ Matches(Job(t, op))' /\ ~(running'.live /\ running'.task = t)
      BY <3>1, <1>2 DEF Job, Matches
    <3>3. \A i \in 1 .. Len(queue') : i \in 1 .. Len(q) \/ i = Len(q) + 1
      BY <1>1, <2>4
    <3>4. \A i \in 1 .. Len(queue') :
            /\ Matches(queue[i])' /\ OwnOp(queue[i])'
            /\ queue'[i].live => ~(running'.live /\ running'.task = queue'[i].task)
      BY <2>1, <2>4, <3>1, <3>2, <3>3 DEF Matches, OwnOp
    <3>5. \A i, j \in 1 .. Len(queue') :
            queue'[i].live /\ queue'[j].live /\ queue'[i].task = queue'[j].task => i = j
      BY <2>1, <2>2, <2>4, <3>1, <3>2, <3>3
    <3> QED
      BY <3>4, <3>5 DEF QueueInv, Matches, OwnOp
  <2> QED
    BY <1>3, <2>3, <2>4
<1>5. RunningInv'
  <2> SUFFICES ASSUME running' # NoJob PROVE RunningInv!2'
    BY DEF RunningInv
  <2>1. running # NoJob /\ running \in JobType /\ running.task \in Tasks
    BY <1>2 DEF TypeOK, JobType
  <2>2. Matches(running)' /\ OwnOp(running)' /\ (~running'.live => reply'[running'.task] = "none")
    BY <1>2, <2>1 DEF JobInv, RunningInv, Matches, OwnOp
  <2>3. ASSUME running'.op \in UnitOps
        PROVE  \A u \in Units \ {running'.task} :
                  pc'[u] \in Holding => pc'[u] = "begin" /\ reply'[u] = "none"
    BY <1>2, <2>1, <2>3 DEF JobInv, RunningInv
  <2>4. ASSUME running'.op \in UnitOps, ~running'.live
        PROVE  \/ running'.op = "execute" /\ pc'[running'.task] = "rollback"
               \/ pc'[running'.task] = "done" /\ exit'[running'.task] = "cancelled"
               \/ pc'[running'.task] = "done" /\ ~connected'
    BY <1>2, <2>1, <2>4 DEF JobInv, RunningInv
  <2> QED
    BY <2>2, <2>3, <2>4
<1>6. ReplyInv'
  BY DEF JobInv, ReplyInv
<1> QED
  BY <1>4, <1>5, <1>6 DEF JobInv

(* What the two ends of a block do to the other tasks and to the queue. *)
LEMMA BeginEffect ==
    ASSUME TypeOK, NEW u \in Units, Begin(u)
    PROVE  /\ \A x \in Tasks : x # u => pc'[x] = pc[x] /\ exit'[x] = exit[x]
           /\ \/ /\ accepting /\ Ask(queue, u, "begin")
                 /\ pc'[u] = "begin" /\ exit'[u] = exit[u]
              \/ /\ ~accepting /\ queue' = queue
                 /\ pc'[u] = "done" /\ exit'[u] = "failed"
<1>1. "begin" \in JobOps /\ "failed" \in Exits /\ u \in Tasks /\ queue \in Seq(JobType)
  BY TaskFacts DEF JobOps, Exits, TypeOK
<1>2. CASE accepting /\ exit' = exit /\ Ask(queue, u, "begin")
  BY <1>1, <1>2, AskShape
<1>3. CASE ~accepting /\ queue' = queue /\ Leave(u, "failed")
  BY <1>1, <1>3, LeaveShape
<1> QED
  BY <1>2, <1>3, BeginShape

(* What leaving a block does to the unit and to nobody else.               *)
LEMMA AexitEffect ==
    ASSUME TypeOK, NEW u \in Units, NEW how \in Exits, NEW q \in Seq(JobType),
           Aexit(u, how, q)
    PROVE  /\ \A x \in Tasks : x # u => pc'[x] = pc[x] /\ exit'[x] = exit[x]
           /\ \/ /\ accepting /\ exit'[u] = how
                 /\ \/ how = "ok" /\ Ask(q, u, "commit") /\ pc'[u] = "commit"
                    \/ how # "ok" /\ Ask(q, u, "rollback") /\ pc'[u] = "rollback"
              \/ /\ ~accepting /\ queue' = q
                 /\ pc'[u] = "done" /\ exit'[u] = "failed"
<1>1. "commit" \in JobOps /\ "rollback" \in JobOps /\ "failed" \in Exits /\ u \in Tasks
  BY TaskFacts DEF JobOps, Exits
<1>2. CASE accepting /\ exit' = [exit EXCEPT ![u] = how]
  <2>1. \A x \in Tasks : exit'[x] = IF x = u THEN how ELSE exit[x]
    BY <1>2 DEF TypeOK
  <2> QED
    BY <1>1, <1>2, <2>1, AexitShape, AskShape
<1>3. CASE ~accepting /\ queue' = q /\ Leave(u, "failed")
  BY <1>1, <1>3, LeaveShape
<1> QED
  BY <1>2, <1>3, AexitShape

(* A step of a unit that has its reply, or awaits none. *)
LEMMA UnitLoopStep ==
    ASSUME TypeOK, TypeOK', JobInv, NEW u \in Units,
           reply[u] # "none" \/ pc[u] \in {"start", "waiting", "body"},
           \A x \in Tasks : x # u => pc'[x] = pc[x] /\ exit'[x] = exit[x] /\ reply'[x] = reply[x],
           reply'[u] = "none", running' = running, connected' = connected,
           queue' = queue \/ \E op \in UnitOps : Ask(queue, u, op),
           pc'[u] \in Holding =>
               \/ pc'[u] = "begin"
               \/ pc[u] \in Holding /\ (pc[u] # "begin" \/ reply[u] # "none")
    PROVE  JobInv'
<1> USE TaskFacts
<1>1. Unattended(u) /\ running.task # u
  BY Idle, NotRunning DEF JobOps
<1>2. \A op \in UnitOps : op \in JobOps /\ OwnOp(Job(u, op))
  BY DEF UnitOps, JobOps, OwnOp, Job
<1>3. queue' = queue \/ \E op \in JobOps : Ask(queue, u, op) /\ OwnOp(Job(u, op))
  BY <1>2
<1>4. running # NoJob /\ running.op \in UnitOps /\ pc'[u] \in Holding => pc'[u] = "begin"
  BY <1>1 DEF JobInv, RunningInv
<1>5. queue \in Seq(JobType) /\ u \in Tasks
  BY DEF TypeOK
<1> QED
  BY <1>1, <1>3, <1>4, <1>5, LoopStep

(* Every step keeps whose jobs are in the queue and running.               *)
LEMMA JobNext == TypeOK /\ TypeOK' /\ LockInv /\ JobInv /\ ConnInv /\ [Next]_vars => JobInv'
<1> SUFFICES ASSUME TypeOK, TypeOK', LockInv, JobInv, ConnInv, [Next]_vars PROVE JobInv'
  OBVIOUS
<1> USE TaskFacts
<1>a. /\ {"begin", "execute", "commit", "rollback"} \subseteq UnitOps
      /\ {"begin", "execute", "commit", "rollback"} \subseteq JobOps
      /\ "script" \in JobOps /\ "close" \in JobOps
      /\ {"waiting", "body", "draining", "done"} \subseteq Places
      /\ {"failed", "cancelled", "ok", "unsettled"} \subseteq Exits
      /\ "body" \in Holding /\ "begin" \in Holding /\ "execute" \in Holding
      /\ "done" \notin Holding /\ "waiting" \notin Holding
  BY DEF JobOps, Places, Exits, UnitOps, Holding
<1>b. queue \in Seq(JobType) /\ \A t \in Tasks : exit[t] \in Exits
  BY DEF TypeOK
<1>c. \A t \in Tasks : pc[t] \in {"start", "waiting", "body", "draining"} => reply[t] = "none"
  BY DEF JobInv, ReplyInv, JobOps
<1>1. ASSUME NEW u \in Units, Transaction(u) PROVE JobInv'
  <2>1. /\ pc[u] = "start" /\ UNCHANGED <<reply, running, connected>> /\ reply[u] = "none"
    BY <1>1, <1>c DEF Transaction, connVars
  <2>2. CASE Leave(u, "failed") /\ queue' = queue
    BY <2>1, <2>2, <1>a, LeaveShape, UnitLoopStep
  <2>3. CASE Begin(u)
    BY <2>1, <2>3, <1>a, BeginEffect, UnitLoopStep
  <2>4. CASE Goto(u, "waiting") /\ queue' = queue /\ exit' = exit
    BY <2>1, <2>4, <1>a, GotoShape, UnitLoopStep
  <2> QED
    BY <1>1, <2>2, <2>3, <2>4 DEF Transaction
<1>2. ASSUME NEW u \in Units, Acquire(u) PROVE JobInv'
  <2>1. /\ pc[u] = "waiting" /\ UNCHANGED <<reply, running, connected>> /\ reply[u] = "none"
        /\ Begin(u)
    BY <1>2, <1>c DEF Acquire, connVars
  <2> QED
    BY <2>1, <1>a, BeginEffect, UnitLoopStep
<1>3. ASSUME NEW u \in Units, BeginReturns(u) PROVE JobInv'
  <2>1. /\ pc[u] = "begin" /\ reply[u] # "none" /\ UNCHANGED <<queue, running, connected>>
        /\ reply'[u] = "none" /\ \A x \in Tasks : x # u => reply'[x] = reply[x]
    BY <1>3, ResumeShape DEF BeginReturns, connVars
  <2>2. CASE Goto(u, "body") /\ exit' = exit
    BY <2>1, <2>2, <1>a, GotoShape, UnitLoopStep
  <2>3. CASE Leave(u, "failed")
    BY <2>1, <2>3, <1>a, LeaveShape, UnitLoopStep
  <2> QED
    BY <1>3, <2>2, <2>3 DEF BeginReturns
<1>4. ASSUME NEW u \in Units, Execute(u) \/ LeaveBody(u) PROVE JobInv'
  <2>1. pc[u] = "body" /\ UNCHANGED <<reply, running, connected>> /\ reply[u] = "none"
    BY <1>4, <1>c DEF Execute, LeaveBody, connVars
  <2>2. CASE Ask(queue, u, "execute") /\ exit' = exit
    BY <2>1, <2>2, <1>a, <1>b, AskShape, UnitLoopStep
  <2>3. ASSUME NEW how \in {"ok", "failed"}, Aexit(u, how, queue) PROVE JobInv'
    BY <2>1, <2>3, <1>a, <1>b, AexitEffect, UnitLoopStep
  <2> QED
    BY <1>4, <2>2, <2>3 DEF Execute, LeaveBody
<1>5. ASSUME NEW u \in Units, ExecuteReturns(u) PROVE JobInv'
  <2>1. /\ pc[u] = "execute" /\ reply[u] # "none" /\ UNCHANGED <<running, connected>>
        /\ reply'[u] = "none" /\ \A x \in Tasks : x # u => reply'[x] = reply[x]
    BY <1>5, ResumeShape DEF ExecuteReturns, connVars
  <2>2. CASE Goto(u, "body") /\ exit' = exit /\ queue' = queue
    BY <2>1, <2>2, <1>a, GotoShape, UnitLoopStep
  <2>3. CASE Aexit(u, "failed", queue)
    BY <2>1, <2>3, <1>a, <1>b, AexitEffect, UnitLoopStep
  <2> QED
    BY <1>5, <2>2, <2>3 DEF ExecuteReturns
<1>6. ASSUME NEW u \in Units, CommitReturns(u) \/ RollbackReturns(u) PROVE JobInv'
  <2>1. /\ reply[u] # "none" /\ UNCHANGED <<queue, running, connected>>
        /\ reply'[u] = "none" /\ \A x \in Tasks : x # u => reply'[x] = reply[x]
    BY <1>6, ResumeShape DEF CommitReturns, RollbackReturns, connVars
  <2>2. PICK how \in Exits : Leave(u, how)
    BY <1>6, <1>a, <1>b DEF CommitReturns, RollbackReturns
  <2> QED
    BY <2>1, <2>2, <1>a, LeaveShape, UnitLoopStep
(* Tasks that are no units. *)
<1>d. ASSUME NEW t \in Scripts \cup {Closer}, Unattended(t),
             \A x \in Tasks : x # t => pc'[x] = pc[x] /\ exit'[x] = exit[x] /\ reply'[x] = reply[x],
             reply'[t] = "none", running' = running, connected' = connected,
             queue' = queue \/ \E op \in JobOps : Ask(queue, t, op) /\ OwnOp(Job(t, op)),
             pc'[t] \notin Holding
      PROVE  JobInv'
  <2>1. running.task = t => running.op \notin UnitOps
    BY DEF JobInv, RunningInv, OwnOp, NoJob, UnitOps
  <2> QED
    BY <1>b, <1>d, <2>1, LoopStep
<1>7. ASSUME NEW s \in Scripts, ExecuteScript(s) PROVE JobInv'
  <2>1. /\ pc[s] = "start" /\ UNCHANGED <<reply, running, connected>> /\ reply[s] = "none"
        /\ Unattended(s)
    BY <1>7, <1>c, Idle DEF ExecuteScript, connVars, JobOps
  <2>2. CASE Leave(s, "failed") /\ queue' = queue
    BY <2>1, <2>2, <1>a, <1>d, LeaveShape
  <2>3. CASE Ask(queue, s, "script") /\ exit' = exit
    <3>1. OwnOp(Job(s, "script")) /\ "script" \notin Holding
      BY DEF OwnOp, Job, UnitOps, Holding
    <3> QED
      BY <2>1, <2>3, <3>1, <1>a, <1>b, <1>d, AskShape
  <2> QED
    BY <1>7, <2>2, <2>3 DEF ExecuteScript
<1>8. ASSUME NEW s \in Scripts, ScriptReturns(s) PROVE JobInv'
  <2>1. /\ UNCHANGED <<queue, running, connected>> /\ Unattended(s)
        /\ reply'[s] = "none" /\ \A x \in Tasks : x # s => reply'[x] = reply[x]
    BY <1>8, ResumeShape, Idle DEF ScriptReturns, connVars
  <2>2. PICK how \in Exits : Leave(s, how)
    BY <1>8, <1>a DEF ScriptReturns
  <2> QED
    BY <2>1, <2>2, <1>a, <1>d, LeaveShape
<1>9. ASSUME Aclose PROVE JobInv'
  <2>1. /\ pc[Closer] = "start" /\ UNCHANGED <<reply, running, connected, exit>>
        /\ reply[Closer] = "none" /\ Unattended(Closer) /\ Ask(queue, Closer, "close")
    BY <1>9, <1>c, Idle DEF Aclose, connVars, JobOps
  <2>2. OwnOp(Job(Closer, "close")) /\ "close" \notin Holding
    BY DEF OwnOp, Job, UnitOps, Holding
  <2> QED
    BY <2>1, <2>2, <1>a, <1>b, <1>d, AskShape
<1>10. ASSUME CloserStep PROVE JobInv'
  <2>1. CASE ShutDownExecutor
    <3>1. /\ UNCHANGED <<queue, running, connected, exit>> /\ Unattended(Closer)
          /\ reply'[Closer] = "none" /\ \A x \in Tasks : x # Closer => reply'[x] = reply[x]
          /\ Goto(Closer, "draining") /\ "draining" \notin Holding
      BY <2>1, ResumeShape, Idle DEF ShutDownExecutor, connVars, Holding
    <3> QED
      BY <3>1, <1>a, <1>d, GotoShape
  <2>2. CASE Drained
    <3>1. /\ UNCHANGED <<queue, running, connected, reply>> /\ Unattended(Closer)
          /\ reply[Closer] = "none" /\ Leave(Closer, "ok")
      BY <2>2, <1>c, Idle DEF Drained, connVars, threadVars, JobOps
    <3> QED
      BY <3>1, <1>a, <1>d, LeaveShape
  <2> QED
    BY <1>10, <2>1, <2>2 DEF CloserStep
<1>11. ASSUME NEW t \in Units \cup Scripts, Cancel(t) PROVE JobInv'
  <2>a. connected' = connected /\ t # Closer /\ t \in Tasks /\ Dropped(queue, t) \in Seq(JobType)
    BY <1>11, DroppedShape DEF Cancel, connVars
  <2>1. CASE t \in Units /\ CancelWaiter(t)
    <3>1. /\ pc[t] = "waiting" /\ UNCHANGED <<reply, running, queue>> /\ reply[t] = "none"
          /\ Leave(t, "cancelled")
      BY <2>1, <1>c DEF CancelWaiter
    <3> QED
      BY <2>a, <2>1, <3>1, <1>a, LeaveShape, UnitLoopStep
  <2>2. CASE CancelBoundary(t) \/ CancelScript(t)
    <3>1. queue' = Dropped(queue, t) /\ StopWaiting(t) /\ Leave(t, "cancelled")
      BY <2>2 DEF CancelBoundary, CancelScript
    <3> QED
      BY <2>a, <3>1, <1>a, LeaveShape, StopShape, LoopStep
  <2>3. CASE t \in Units /\ CancelStatement(t)
    <3>1. /\ pc[t] = "execute" /\ StopWaiting(t)
          /\ Aexit(t, "cancelled", Dropped(queue, t))
      BY <2>3 DEF CancelStatement
    <3>2. running # NoJob /\ running.op \in UnitOps /\ running.task # t => FALSE
      BY <2>3, <3>1, <1>a DEF JobInv, RunningInv
    <3>3. running.task = t => running.op = "execute"
      <4> SUFFICES ASSUME running.task = t PROVE running.op = "execute"
        OBVIOUS
      <4>1. running # NoJob
        BY <2>a DEF NoJob
      <4>2. running.live \/ running.op \notin UnitOps
        BY <3>1, <4>1 DEF JobInv, RunningInv
      <4> QED
        BY <2>3, <3>1, <4>1, <4>2 DEF JobInv, RunningInv, Matches, OwnOp
    <3>4. /\ \/ queue' = Dropped(queue, t)
             \/ \E op \in JobOps : Ask(Dropped(queue, t), t, op) /\ OwnOp(Job(t, op))
          /\ \/ pc'[t] = "rollback"
             \/ pc'[t] = "done" /\ ~connected
          /\ \A x \in Tasks : x # t => pc'[x] = pc[x] /\ exit'[x] = exit[x]
      <4>1. OwnOp(Job(t, "rollback"))
        BY <2>3 DEF OwnOp, Job, UnitOps
      <4> QED
        BY <2>a, <2>3, <3>1, <4>1, <1>a, AexitEffect DEF ConnInv
    <3> QED
      BY <2>a, <3>1, <3>2, <3>3, <3>4, StopShape, LoopStep
  <2> QED
    BY <1>11, <2>1, <2>2, <2>3 DEF Cancel
<1>12. ASSUME Take PROVE JobInv'
  <2>1. \A i \in 1 .. Len(queue) : queue[i] \in JobType
    BY DEF TypeOK
  <2>2. /\ queue # <<>> /\ Head(queue) = queue[1] /\ 1 \in 1 .. Len(queue)
        /\ \A i \in 1 .. Len(queue') : i + 1 \in 1 .. Len(queue) /\ queue'[i] = queue[i + 1]
    BY <1>12, <1>b, Taking DEF Take
  <2>3. UNCHANGED <<pc, exit, reply, connected>>
    BY <1>12, Taking
  <2>4. QueueInv'
    <3>1. \A i \in 1 .. Len(queue') : Matches(queue[i])' /\ OwnOp(queue[i])'
      BY <2>2, <2>3 DEF JobInv, QueueInv, Matches, OwnOp
    <3>2. \A i, j \in 1 .. Len(queue') :
            queue'[i].live /\ queue'[j].live /\ queue'[i].task = queue'[j].task => i = j
      BY <2>2 DEF JobInv, QueueInv
    <3>3. \A i \in 1 .. Len(queue') :
            queue'[i].live => ~(queue[1].live /\ queue[1].task = queue'[i].task)
      BY <2>2 DEF JobInv, QueueInv
    <3>4. \A i \in 1 .. Len(queue') :
            queue'[i].live => ~(running'.live /\ running'.task = queue'[i].task)
      BY <1>12, <2>2, <3>3, Taking DEF NoJob
    <3> QED
      BY <3>1, <3>2, <3>4 DEF QueueInv
  <2>5. RunningInv'
    <3>1. CASE ~queue[1].live
      BY <1>12, <2>2, <3>1, Taking DEF RunningInv
    <3>2. CASE queue[1].live
      <4>1. /\ running' = queue[1] /\ Matches(queue[1]) /\ OwnOp(queue[1])
            /\ queue[1] \in JobType
        BY <1>12, <2>1, <2>2, <3>2, Taking DEF JobInv, QueueInv
      <4>2. /\ Matches(running)' /\ OwnOp(running)' /\ running'.live
        BY <2>3, <3>2, <4>1 DEF Matches, OwnOp
      <4>3. ASSUME queue[1].op \in UnitOps
            PROVE  \A u \in Units \ {queue[1].task} : pc[u] \notin Holding
        <5>1. pc[queue[1].task] \in Holding /\ queue[1].task \in Units
          BY <3>2, <4>1, <4>3 DEF Matches, OwnOp, UnitOps, Holding
        <5> QED
          BY <5>1 DEF LockInv
      <4> QED
        BY <2>3, <4>1, <4>2, <4>3 DEF RunningInv
    <3> QED
      BY <3>1, <3>2
  <2>6. ReplyInv'
    BY <2>3 DEF JobInv, ReplyInv
  <2> QED
    BY <2>4, <2>5, <2>6 DEF JobInv
<1>13. ASSUME Thread, ~Take PROVE JobInv'
  <2>1. PICK answer \in {"ok", "error"} :
          /\ running # NoJob /\ running' = NoJob /\ UNCHANGED <<pc, queue>>
          /\ \A t \in Tasks :
                reply'[t] = IF running.live /\ t = running.task THEN answer ELSE reply[t]
    <3>1. CASE RunClose
      <4>1. running \in JobType /\ running # NoJob /\ running.op = "close"
        BY <3>1 DEF RunClose, NoJob, TypeOK
      <4>2. running.task = Closer /\ running.live
        <5>1. OwnOp(running)
          BY <4>1 DEF JobInv, RunningInv
        <5>2. running.task \in Tasks /\ running.live \in BOOLEAN
          BY <4>1 DEF JobType
        <5> QED
          BY <4>1, <5>1, <5>2 DEF OwnOp, UnitOps, Tasks
      <4> QED
        BY <3>1, <4>1, <4>2 DEF RunClose, loopVars, TypeOK
    <3>2. CASE ~RunClose
      <4>1. PICK op \in JobOps, answer \in {"ok", "error"} : Serve(op, answer)
        BY <1>13, <3>2, <1>a DEF Thread, RunBegin, RunExecute, RunCommit, RunRollback, RunScript
      <4>2. running # NoJob
        BY <4>1 DEF Serve, NoJob, JobOps
      <4> QED
        BY <4>1, <4>2, Serving
    <3> QED
      BY <3>1, <3>2
  <2>2. running \in JobType /\ Matches(running)
    BY <2>1 DEF JobInv, RunningInv, TypeOK
  <2>3. \A i \in 1 .. Len(queue) : queue[i].task \in Tasks
    <3>1. \A i \in 1 .. Len(queue) : queue[i] \in JobType
      BY DEF TypeOK
    <3> QED
      BY <3>1 DEF JobType
  <2>4. QueueInv'
    <3>1. \A i \in 1 .. Len(queue) : Matches(queue[i])' /\ OwnOp(queue[i])'
      BY <2>1, <2>3 DEF JobInv, QueueInv, Matches, OwnOp
    <3> QED
      BY <2>1, <3>1 DEF JobInv, QueueInv, NoJob
  <2>5. ReplyInv'
    BY <2>1, <2>2 DEF JobInv, ReplyInv, Matches, JobType
  <2> QED
    BY <2>1, <2>4, <2>5 DEF JobInv, RunningInv
<1>14. CASE UNCHANGED vars
  BY <1>14 DEF vars, loopVars, threadVars, connVars, JobInv, QueueInv, RunningInv, ReplyInv, Matches
<1> QED
  BY <1>1, <1>2, <1>3, <1>4, <1>5, <1>6, <1>7, <1>8, <1>9, <1>10, <1>11, <1>12, <1>13, <1>14
  DEF Next, UnitStep, Thread

-----------------------------------------------------------------------------
(* The connection. *)

(* Only the thread touches the connection, and only the closer closes it. *)
LEMMA ConnNext ==
    ASSUME TypeOK, JobInv, ConnInv, [Next]_vars
    PROVE  ConnInv'
<1> USE TaskFacts
<1>a. "close" \in JobOps /\ "close" \in Places /\ "draining" \in Places /\ queue \in Seq(JobType)
      /\ {"body", "waiting", "done"} \subseteq Places
  BY DEF JobOps, Places, TypeOK
<1>b. ASSUME accepting' = accepting, UNCHANGED <<connected, txn>>, pc'[Closer] = pc[Closer],
             reply'[Closer] = reply[Closer]
      PROVE  ConnInv'
  BY <1>b DEF ConnInv
(* Closer is no unit and no script: their steps leave its place and reply. *)
<1>1. ASSUME NEW u \in Units, Transaction(u) \/ UnitStep(u) PROVE ConnInv'
  <2>1. accepting' = accepting /\ UNCHANGED <<connected, txn>>
    BY <1>1 DEF Transaction, UnitStep, Acquire, BeginReturns, Execute, ExecuteReturns, LeaveBody,
       CommitReturns, RollbackReturns, connVars
  <2>2. reply'[Closer] = reply[Closer]
    BY <1>1, ResumeShape DEF Transaction, UnitStep, Acquire, BeginReturns, Execute,
       ExecuteReturns, LeaveBody, CommitReturns, RollbackReturns
  <2>3. \E where : Goto(u, where)
    BY <1>1 DEF Transaction, UnitStep, Acquire, BeginReturns, Execute, ExecuteReturns, LeaveBody,
       CommitReturns, RollbackReturns, Begin, Aexit, Leave, Ask
  <2>4. pc'[Closer] = pc[Closer]
    BY <2>3 DEF Goto, TypeOK
  <2> QED
    BY <2>1, <2>2, <2>4, <1>b
<1>2. ASSUME NEW s \in Scripts, ExecuteScript(s) \/ ScriptReturns(s) PROVE ConnInv'
  <2>1. accepting' = accepting /\ UNCHANGED <<connected, txn>>
    BY <1>2 DEF ExecuteScript, ScriptReturns, connVars
  <2>2. reply'[Closer] = reply[Closer]
    BY <1>2, ResumeShape DEF ExecuteScript, ScriptReturns
  <2>3. \E where : Goto(s, where)
    BY <1>2 DEF ExecuteScript, ScriptReturns, Leave, Ask
  <2>4. pc'[Closer] = pc[Closer]
    BY <2>3 DEF Goto, TypeOK
  <2> QED
    BY <2>1, <2>2, <2>4, <1>b
<1>3. ASSUME NEW t \in Units \cup Scripts, Cancel(t) PROVE ConnInv'
  <2>1. accepting' = accepting /\ UNCHANGED <<connected, txn>> /\ t # Closer
    BY <1>3 DEF Cancel, connVars
  <2>2. reply'[Closer] = reply[Closer]
    BY <1>3, StopShape DEF Cancel, CancelWaiter, CancelBoundary, CancelStatement, CancelScript
  <2>3. \E where : Goto(t, where)
    BY <1>3 DEF Cancel, CancelWaiter, CancelBoundary, CancelStatement, CancelScript, Aexit, Leave, Ask
  <2>4. pc'[Closer] = pc[Closer]
    BY <2>1, <2>3 DEF Goto, TypeOK
  <2> QED
    BY <2>1, <2>2, <2>4, <1>b
<1>4. ASSUME Aclose PROVE ConnInv'
  <2>1. reply'[Closer] = "none" /\ UNCHANGED <<accepting, connected, txn>>
    BY <1>4 DEF Aclose, JobInv, ReplyInv, connVars, JobOps
  <2> QED
    BY <2>1 DEF ConnInv
<1>5. ASSUME CloserStep PROVE ConnInv'
  <2>1. CASE ShutDownExecutor
    <3>1. /\ ~connected /\ reply'[Closer] = "none" /\ UNCHANGED <<connected, txn>>
      BY <2>1, ResumeShape DEF ShutDownExecutor, ConnInv, connVars, Resume
    <3> QED
      BY <3>1 DEF ConnInv
  <2>2. CASE Drained
    <3>1. pc'[Closer] = "done" /\ UNCHANGED <<accepting, connected, txn>>
      BY <2>2 DEF Drained, Leave, Goto, TypeOK, connVars, threadVars
    <3> QED
      BY <3>1 DEF ConnInv
  <2> QED
    BY <1>5, <2>1, <2>2 DEF CloserStep
<1>6. ASSUME Take PROVE ConnInv'
  BY <1>6, <1>b, Taking
<1>7. ASSUME Thread, ~Take, ~RunClose PROVE ConnInv'
  <2>1. PICK op \in JobOps \ {"close"}, answer \in {"ok", "error"} : Serve(op, answer)
    BY <1>7 DEF Thread, RunBegin, RunExecute, RunCommit, RunRollback, RunScript, JobOps
  <2>2. /\ UNCHANGED <<pc, accepting, connected>> /\ running.op = op /\ running # NoJob
        /\ reply'[Closer] = IF running.live /\ Closer = running.task THEN answer ELSE reply[Closer]
    BY <2>1, Serving DEF NoJob, JobOps
  <2>3. running.live /\ running.task = Closer => pc[Closer] # "close"
    BY <2>1, <2>2 DEF JobInv, RunningInv, Matches
  <2>4. txn' # Nobody => connected
    BY <1>7 DEF Thread, RunBegin, RunExecute, RunCommit, RunRollback, RunScript, Untouched,
       RolledBack, EndTransaction, ConnInv
  <2> QED
    BY <2>2, <2>3, <2>4 DEF ConnInv
<1>8. ASSUME RunClose PROVE ConnInv'
  BY <1>8 DEF RunClose, RolledBack, EndTransaction, ConnInv
<1>9. CASE UNCHANGED vars
  BY <1>9, <1>b DEF vars, loopVars, threadVars, connVars
<1> QED
  BY <1>1, <1>2, <1>3, <1>4, <1>5, <1>6, <1>7, <1>8, <1>9 DEF Next, Thread

-----------------------------------------------------------------------------
(* The units. *)

(* What a unit's state may be.                                             *)
LEMMA UnitTypes ==
    ASSUME TypeOK, NEW u \in Units
    PROVE  /\ u \in Tasks /\ u # Nobody /\ NoJob.task # u
           /\ issued[u] \in Nat /\ pending[u] \in Nat /\ disk[u] \in Nat
           /\ reply[u] \in {"none", "ok", "error"} /\ pc[u] \in Places /\ exit[u] \in Exits
BY TaskFacts DEF TypeOK, Count, Replies, NoJob

(* Nothing about u changes, except that its queued job may be started. *)
LEMMA UnitFrame ==
    ASSUME NEW u \in Units, UnitInv(u), connVars' = connVars, breached' = breached,
           pc'[u] = pc[u], exit'[u] = exit[u], reply'[u] = reply[u], issued'[u] = issued[u],
           \A op \in UnitOps :
               RunningOf(u, op)' => RunningOf(u, op) \/ (pc[u] = op /\ reply[u] = "none")
    PROVE  UnitInv(u)'
<1>1. UNCHANGED <<connected, txn, pending, disk, breached>>
  BY DEF connVars
<1>2. /\ RunningOf(u, "begin")' => RunningOf(u, "begin") \/ (pc[u] = "begin" /\ reply[u] = "none")
      /\ RunningOf(u, "execute")' =>
            RunningOf(u, "execute") \/ (pc[u] = "execute" /\ reply[u] = "none")
      /\ RunningOf(u, "commit")' =>
            RunningOf(u, "commit") \/ (pc[u] = "commit" /\ reply[u] = "none")
  BY DEF UnitOps
<1>3. /\ (Fresh(u)' <=> Fresh(u)) /\ (Intact(u)' <=> Intact(u))
      /\ (Holds(u, issued[u] + 1)' <=> Holds(u, issued[u] + 1))
      /\ (Unwritten(u)' <=> Unwritten(u)) /\ (Landed(u)' <=> Landed(u))
  BY <1>1 DEF Fresh, Intact, Holds, Unwritten, Landed
<1> QED
  BY <1>1, <1>2, <1>3 DEF UnitInv

(* A step of u that has its reply, or awaits none. *)
LEMMA UnitOwnStep ==
    ASSUME TypeOK, JobInv, ConnInv, NEW u \in Units, UnitInv(u), Transaction(u) \/ UnitStep(u)
    PROVE  UnitInv(u)'
<1> USE TaskFacts
<1>a. /\ u \in Tasks /\ u # Nobody /\ NoJob.task # u
      /\ issued[u] \in Nat /\ pending[u] \in Nat /\ disk[u] \in Nat /\ exit[u] \in Exits
      /\ MaxStatements \in Nat
  BY UnitTypes
<1>b. /\ {"begin", "execute", "commit", "rollback"} \subseteq JobOps
      /\ {"waiting", "body", "done"} \subseteq Places
      /\ {"failed", "cancelled", "ok", "unsettled"} \subseteq Exits
      /\ queue \in Seq(JobType) /\ issued \in [Units -> Count]
  BY DEF JobOps, Places, Exits, TypeOK
<1>c. pc[u] \in {"start", "waiting", "body"} => reply[u] = "none"
  BY <1>a DEF JobInv, ReplyInv, JobOps
<1>d. UNCHANGED <<connected, txn, pending, disk, breached, running>>
  BY DEF Transaction, UnitStep, Acquire, BeginReturns, Execute, ExecuteReturns, LeaveBody,
     CommitReturns, RollbackReturns, connVars
<1>e. ASSUME reply[u] # "none" \/ pc[u] \in {"start", "waiting", "body"}
      PROVE  \A op : ~RunningOf(u, op) /\ ~RunningOf(u, op)'
  BY <1>d, <1>e, NotRunning DEF RunningOf
<1>f. ~accepting => txn # u /\ ~connected
  BY <1>a DEF ConnInv
<1>1. CASE Transaction(u) \/ Acquire(u)
  <2>1. /\ pc[u] \in {"start", "waiting"} /\ reply'[u] = "none" /\ issued'[u] = issued[u]
        /\ Fresh(u) /\ exit[u] = "none"
    BY <1>1, <1>c DEF Transaction, Acquire, UnitInv
  <2>2. \/ pc'[u] \in {"waiting", "begin"} /\ exit'[u] = "none"
        \/ pc'[u] = "done" /\ exit'[u] = "failed"
    <3>1. CASE Leave(u, "failed")
      BY <3>1, <1>a, <1>b, LeaveShape
    <3>2. CASE Begin(u)
      BY <2>1, <3>2, BeginEffect
    <3>3. CASE Goto(u, "waiting") /\ exit' = exit
      BY <2>1, <3>3, <1>a, <1>b, GotoShape
    <3> QED
      BY <1>1, <3>1, <3>2, <3>3 DEF Transaction, Acquire
  <2> QED
    BY <1>a, <1>d, <1>e, <2>1, <2>2 DEF UnitInv, Holding, Fresh, Unwritten
<1>2. CASE BeginReturns(u)
  <2>1. /\ pc[u] = "begin" /\ reply[u] \in {"ok", "error"} /\ reply'[u] = "none"
        /\ issued'[u] = issued[u] /\ exit[u] = "none"
    BY <1>2, <1>a, ResumeShape DEF BeginReturns, UnitInv
  <2>2. CASE reply[u] = "ok"
    <3>1. pc'[u] = "body" /\ exit'[u] = "none"
      BY <1>2, <1>a, <1>b, <2>1, <2>2, GotoShape DEF BeginReturns
    <3> QED
      BY <1>a, <1>d, <1>e, <2>1, <2>2, <3>1 DEF UnitInv, Holding, Intact, Holds
  <2>3. CASE reply[u] = "error"
    <3>1. pc'[u] = "done" /\ exit'[u] = "failed"
      BY <1>2, <1>a, <1>b, <2>1, <2>3, LeaveShape DEF BeginReturns
    <3> QED
      BY <1>a, <1>d, <1>e, <2>1, <2>3, <3>1 DEF UnitInv, Fresh, Unwritten
  <2> QED
    BY <2>1, <2>2, <2>3
<1>3. CASE Execute(u) \/ LeaveBody(u)
  <2>1. /\ pc[u] = "body" /\ reply'[u] = "none" /\ issued'[u] = issued[u] /\ Intact(u)
        /\ exit[u] = "none" /\ Unwritten(u)
    BY <1>3, <1>a, <1>c DEF Execute, LeaveBody, UnitInv, Intact, Holds, Unwritten
  <2>2. \/ pc'[u] = "execute" /\ exit'[u] = "none" /\ issued[u] < MaxStatements
        \/ pc'[u] = "commit" /\ exit'[u] = "ok" /\ issued[u] > 0
        \/ pc'[u] = "rollback" /\ exit'[u] = "failed"
        \/ pc'[u] = "done" /\ exit'[u] = "failed" /\ txn # u
    <3>1. CASE Execute(u) /\ Ask(queue, u, "execute") /\ exit' = exit
      BY <2>1, <3>1, <1>a, <1>b, AskShape DEF Execute
    <3>2. CASE Aexit(u, "failed", queue)
      BY <3>2, <1>b, <1>f, AexitEffect
    <3>3. CASE issued[u] > 0 /\ Aexit(u, "ok", queue)
      BY <3>3, <1>b, <1>f, AexitEffect
    <3> QED
      BY <1>3, <3>1, <3>2, <3>3 DEF Execute, LeaveBody
  <2>3. Intact(u)' /\ Unwritten(u)'
    BY <1>d, <2>1 DEF Intact, Holds, Unwritten
  <2> QED
    BY <1>a, <1>d, <1>e, <2>1, <2>2, <2>3 DEF UnitInv, Holding
<1>4. CASE ExecuteReturns(u)
  <2>1. /\ pc[u] = "execute" /\ reply[u] \in {"ok", "error"} /\ reply'[u] = "none"
    BY <1>4, <1>a, ResumeShape DEF ExecuteReturns
  <2>2. CASE reply[u] = "ok"
    <3>1. pc'[u] = "body" /\ exit'[u] = "none" /\ issued'[u] = issued[u] + 1
      BY <1>4, <1>a, <1>b, <2>1, <2>2, GotoShape DEF ExecuteReturns, UnitInv
    <3>2. Intact(u)'
      BY <1>a, <1>d, <2>1, <2>2, <3>1 DEF UnitInv, Intact, Holds
    <3> QED
      BY <1>a, <1>d, <1>e, <2>1, <2>2, <3>1, <3>2 DEF UnitInv, Holding
  <2>3. CASE reply[u] = "error"
    <3>1. \/ pc'[u] = "rollback" /\ exit'[u] = "failed"
          \/ pc'[u] = "done" /\ exit'[u] = "failed" /\ txn # u
      BY <1>4, <1>b, <1>f, <2>1, <2>3, AexitEffect DEF ExecuteReturns
    <3>2. Unwritten(u)' /\ issued'[u] = issued[u]
      BY <1>4, <1>d, <2>1, <2>3 DEF ExecuteReturns, UnitInv, Unwritten
    <3> QED
      BY <1>a, <1>d, <1>e, <2>1, <2>3, <3>1, <3>2 DEF UnitInv, Holding
  <2> QED
    BY <2>1, <2>2, <2>3
<1>5. CASE CommitReturns(u)
  <2>1. /\ pc[u] = "commit" /\ reply[u] \in {"ok", "error"} /\ reply'[u] = "none"
        /\ issued'[u] = issued[u]
        /\ pc'[u] = "done" /\ exit'[u] = IF reply[u] = "ok" THEN "ok" ELSE "unsettled"
    BY <1>5, <1>a, <1>b, ResumeShape, LeaveShape DEF CommitReturns
  <2>2. (reply[u] = "ok" => Landed(u)') /\ (reply[u] = "error" => Unwritten(u)')
    BY <1>d, <2>1 DEF UnitInv, Landed, Unwritten
  <2> QED
    BY <1>a, <1>d, <1>e, <2>1, <2>2 DEF UnitInv
<1>6. CASE RollbackReturns(u)
  <2>1. /\ pc[u] = "rollback" /\ reply[u] \in {"ok", "error"} /\ reply'[u] = "none"
        /\ issued'[u] = issued[u]
        /\ pc'[u] = "done" /\ exit'[u] = IF reply[u] = "ok" THEN exit[u] ELSE "failed"
    BY <1>6, <1>a, <1>b, ResumeShape, LeaveShape DEF RollbackReturns
  <2>2. Unwritten(u)' /\ txn' # u /\ exit[u] \in {"failed", "cancelled"}
    BY <1>d, <2>1 DEF UnitInv, Unwritten
  <2> QED
    BY <1>a, <1>d, <1>e, <2>1, <2>2 DEF UnitInv
<1> QED
  BY <1>1, <1>2, <1>3, <1>4, <1>5, <1>6 DEF UnitStep

(* A cancelled unit's writes and answer still agree.                       *)
LEMMA UnitCancelled ==
    ASSUME TypeOK, JobInv, ConnInv, NEW u \in Units, UnitInv(u), Cancel(u)
    PROVE  UnitInv(u)'
<1> USE TaskFacts
<1>a. /\ u \in Tasks /\ u # Nobody /\ NoJob.task # u
      /\ issued[u] \in Nat /\ pending[u] \in Nat /\ disk[u] \in Nat
      /\ reply[u] \in {"none", "ok", "error"}
  BY UnitTypes
<1>b. {"done"} \subseteq Places /\ "cancelled" \in Exits
  BY DEF Places, Exits
<1>c. UNCHANGED <<connected, txn, pending, disk, breached, issued>>
  BY DEF Cancel, connVars
<1>d. ~accepting => txn # u /\ ~connected
  BY <1>a DEF ConnInv
<1>e. \A op : RunningOf(u, op)' = RunningOf(u, op)
  <2>1. running' = running \/ running' = Abandon(running, u)
    BY StopShape DEF Cancel, CancelWaiter, CancelBoundary, CancelStatement, CancelScript
  <2>2. running \in JobType \cup {NoJob}
    BY DEF TypeOK
  <2> QED
    BY <2>1, <2>2 DEF RunningOf, Abandon, JobType, NoJob
<1>f. /\ (Fresh(u)' <=> Fresh(u)) /\ (Intact(u)' <=> Intact(u))
      /\ (Unwritten(u)' <=> Unwritten(u)) /\ (Landed(u)' <=> Landed(u))
  BY <1>c DEF Fresh, Intact, Holds, Unwritten, Landed
<1>g. (Fresh(u) => Unwritten(u)) /\ (\A n : Holds(u, n) => Unwritten(u))
  BY DEF Fresh, Holds, Unwritten
<1>1. CASE CancelWaiter(u) \/ CancelBoundary(u)
  <2>1. /\ pc[u] \in {"waiting", "begin", "commit", "rollback"}
        /\ pc'[u] = "done" /\ exit'[u] = "cancelled"
    BY <1>1, <1>a, <1>b, LeaveShape DEF CancelWaiter, CancelBoundary
  <2>2. Unwritten(u) \/ Landed(u)
    BY <1>a, <1>g, <2>1 DEF UnitInv, Intact
  <2> QED
    BY <1>a, <1>c, <1>e, <1>f, <2>1, <2>2 DEF UnitInv
<1>2. CASE CancelStatement(u)
  <2>1. pc[u] = "execute" /\ reply'[u] = "none"
    BY <1>2, <1>a, StopShape DEF CancelStatement
  <2>2. \/ pc'[u] = "rollback" /\ exit'[u] = "cancelled"
        \/ pc'[u] = "done" /\ exit'[u] = "failed" /\ txn # u
    BY <1>2, <1>a, <1>b, <1>d, DroppedShape, AexitEffect DEF CancelStatement
  <2>3. Unwritten(u)
    BY <1>a, <1>g, <2>1 DEF UnitInv, Intact
  <2> QED
    BY <1>a, <1>c, <1>e, <1>f, <2>1, <2>2, <2>3 DEF UnitInv, Holding
<1> QED
  BY <1>1, <1>2 DEF Cancel

(* What serving a job of another task, or of u itself, leaves of u. *)
Served(u, op, answer) ==
    /\ running.op = op /\ running # NoJob /\ running' = NoJob
    /\ pc'[u] = pc[u] /\ exit'[u] = exit[u] /\ issued'[u] = issued[u]
    /\ reply'[u] = IF running.live /\ running.task = u THEN answer ELSE reply[u]

(* What serving a job does to the unit that asked.                         *)
LEMMA ServedShape ==
    ASSUME TypeOK, NEW u \in Units, NEW op \in JobOps, NEW answer \in {"ok", "error"},
           Serve(op, answer)
    PROVE  Served(u, op, answer) /\ connected' = connected
<1>1. u \in Tasks /\ NoJob.op \notin JobOps
  BY TaskFacts DEF NoJob, JobOps
<1> QED
  BY <1>1, Serving DEF Served

(* While a unit's job runs, no other is past its own BEGIN. *)
Apart(u) == pc[u] \in Holding => pc[u] = "begin" /\ reply[u] = "none"

(* While another's job runs, a unit is apart from the transaction.         *)
LEMMA ApartFact ==
    ASSUME JobInv, NEW u \in Units, running # NoJob, running.op \in UnitOps, running.task # u
    PROVE  Apart(u)
BY DEF JobInv, RunningInv, Apart

(* The places of the unit whose job is served. *)
LEMMA OwnPlace ==
    ASSUME TypeOK, JobInv, NEW u \in Units, running # NoJob, running.task = u
    PROVE  /\ running.op \in UnitOps
           /\ running.live => pc[u] = running.op /\ reply[u] = "none"
           /\ ~running.live =>
                /\ reply[u] = "none"
                /\ \/ running.op = "execute" /\ pc[u] = "rollback"
                   \/ pc[u] = "done" /\ exit[u] = "cancelled"
                   \/ pc[u] = "done" /\ ~connected
BY DEF JobInv, RunningInv, Matches, OwnOp

(* A begin keeps the agreement of every unit's writes and answer.          *)
LEMMA UnitRunBegin ==
    ASSUME TypeOK, JobInv, ConnInv, NEW u \in Units, UnitInv(u), RunBegin
    PROVE  UnitInv(u)'
<1>a. /\ u \in Tasks /\ u # Nobody
      /\ issued[u] \in Nat /\ pending[u] \in Nat /\ disk[u] \in Nat
  BY UnitTypes
<1>b. "begin" \in JobOps /\ "begin" \in UnitOps /\ Nobody \notin Units
  BY TaskFacts DEF JobOps, UnitOps
<1>1. PICK answer \in {"ok", "error"} :
        /\ Served(u, "begin", answer) /\ connected' = connected
        /\ UNCHANGED <<pending, disk, breached>>
        /\ \/ answer = "ok" /\ connected /\ txn = Nobody /\ txn' = running.task
           \/ answer = "error" /\ txn' = txn
  BY <1>b, ServedShape DEF RunBegin, Untouched
<1>2. CASE running.task # u
  <2>1. Apart(u)
    BY <1>1, <1>2, <1>b, ApartFact DEF Served
  <2>2. txn' = u => txn = u
    BY <1>1, <1>2
  <2>3. /\ pc'[u] = pc[u] /\ exit'[u] = exit[u] /\ issued'[u] = issued[u] /\ reply'[u] = reply[u]
        /\ \A op : ~RunningOf(u, op)'
    BY <1>1, <1>2, <1>a, UnitTypes DEF Served, RunningOf
  <2>4. (Fresh(u) => Fresh(u)') /\ (Unwritten(u) => Unwritten(u)') /\ (Landed(u) => Landed(u)')
    BY <1>1, <2>2, <2>3 DEF Fresh, Unwritten, Landed
  <2>5. txn = u => txn' = u
    BY <1>1, <1>a
  <2> QED
    BY <1>1, <2>1, <2>2, <2>3, <2>4, <2>5 DEF UnitInv, Apart, Holding
<1>3. CASE running.task = u
  <2>1. Fresh(u) /\ RunningOf(u, "begin")
    BY <1>1, <1>3 DEF Served, RunningOf, UnitInv
  <2>2. /\ pc'[u] = pc[u] /\ exit'[u] = exit[u] /\ issued'[u] = issued[u]
        /\ \A op : ~RunningOf(u, op)'
        /\ \/ pc[u] = "begin" /\ reply[u] = "none" /\ reply'[u] = answer
           \/ pc[u] = "done" /\ exit[u] = "cancelled"
           \/ pc[u] = "done" /\ ~connected /\ answer = "error"
    <3>1. \A op : ~RunningOf(u, op)'
      BY <1>1, UnitTypes DEF Served, RunningOf
    <3>2. connected \/ answer = "error"
      BY <1>1
    <3> QED
      BY <1>1, <1>3, <3>1, <3>2, OwnPlace DEF Served
  <2>3. (answer = "ok" => Intact(u)') /\ (answer = "error" => Fresh(u)') /\ Unwritten(u)'
    BY <1>1, <1>3, <2>1, <2>2 DEF Fresh, Intact, Holds, Unwritten
  <2>4. ~Landed(u) /\ u \notin breached /\ pending[u] = 0
    BY <2>1 DEF Landed, Fresh
  <2> QED
    BY <1>1, <1>a, <2>1, <2>2, <2>3, <2>4 DEF UnitInv
<1> QED
  BY <1>2, <1>3

(* A statement keeps it.                                                   *)
LEMMA UnitRunExecute ==
    ASSUME TypeOK, JobInv, ConnInv, NEW u \in Units, UnitInv(u), RunExecute
    PROVE  UnitInv(u)'
<1>a. /\ u \in Tasks /\ u # Nobody
      /\ issued[u] \in Nat /\ pending[u] \in Nat /\ disk[u] \in Nat /\ MaxStatements \in Nat
  BY UnitTypes, TaskFacts
<1>b. /\ "execute" \in JobOps /\ "execute" \in UnitOps
      /\ pending \in [Units -> Count] /\ disk \in [Units -> Count]
  BY DEF JobOps, UnitOps, TypeOK
<1>1. PICK answer \in {"ok", "error"} :
        /\ Served(u, "execute", answer) /\ connected' = connected /\ breached' = breached
        /\ \/ /\ answer = "ok" /\ connected /\ txn # Nobody /\ txn' = txn
              /\ pending' = [pending EXCEPT ![running.task] = @ + 1] /\ disk' = disk
           \/ /\ answer = "ok" /\ connected /\ txn = Nobody /\ txn' = txn
              /\ disk' = [disk EXCEPT ![running.task] = @ + 1] /\ pending' = pending
           \/ answer = "error" /\ UNCHANGED <<txn, pending, disk>>
           \/ answer = "error" /\ txn' = Nobody /\ pending' = NoWrites /\ disk' = disk
  BY <1>b, ServedShape DEF RunExecute, Untouched, RolledBack, EndTransaction, InTransaction
<1>2. CASE running.task # u
  <2>1. Apart(u)
    BY <1>1, <1>2, <1>b, ApartFact DEF Served
  <2>2. /\ disk'[u] = disk[u]
        /\ (txn' = txn /\ pending'[u] = pending[u]) \/ (txn' = Nobody /\ pending'[u] = 0)
    BY <1>1, <1>2, <1>b DEF NoWrites
  <2>3. /\ pc'[u] = pc[u] /\ exit'[u] = exit[u] /\ issued'[u] = issued[u] /\ reply'[u] = reply[u]
        /\ \A op : ~RunningOf(u, op)'
    BY <1>1, <1>2, UnitTypes DEF Served, RunningOf
  <2>4. (Fresh(u) => Fresh(u)') /\ (Unwritten(u) => Unwritten(u)') /\ (Landed(u) => Landed(u)')
    BY <1>1, <1>a, <2>2, <2>3 DEF Fresh, Unwritten, Landed
  <2> QED
    BY <1>1, <1>a, <2>1, <2>2, <2>3, <2>4 DEF UnitInv, Apart, Holding
<1>3. CASE running.task = u
  <2>1. Intact(u) /\ RunningOf(u, "execute") /\ issued[u] < MaxStatements
    BY <1>1, <1>3 DEF Served, RunningOf, UnitInv
  <2>2. /\ pc'[u] = pc[u] /\ exit'[u] = exit[u] /\ issued'[u] = issued[u]
        /\ \A op : ~RunningOf(u, op)'
        /\ \/ pc[u] = "execute" /\ reply[u] = "none" /\ reply'[u] = answer
           \/ reply'[u] = "none" /\ pc[u] = "rollback"
           \/ pc[u] = "done" /\ exit[u] = "cancelled"
           \/ pc[u] = "done" /\ ~connected /\ answer = "error"
    <3>1. \A op : ~RunningOf(u, op)'
      BY <1>1, UnitTypes DEF Served, RunningOf
    <3>2. connected \/ answer = "error"
      BY <1>1
    <3> QED
      BY <1>1, <1>3, <3>1, <3>2, OwnPlace DEF Served
  <2>3. \/ /\ answer = "ok" /\ txn # Nobody /\ txn' = txn
           /\ pending'[u] = pending[u] + 1 /\ disk'[u] = disk[u]
        \/ /\ answer = "ok" /\ connected /\ txn = Nobody /\ txn' = txn
           /\ pending'[u] = pending[u] /\ disk'[u] = disk[u] + 1
        \/ /\ answer = "error" /\ disk'[u] = disk[u]
           /\ (txn' = txn /\ pending'[u] = pending[u]) \/ (txn' = Nobody /\ pending'[u] = 0)
    BY <1>1, <1>3, <1>b DEF NoWrites
  <2>4. /\ answer = "ok" => Holds(u, issued[u] + 1)'
        /\ Unwritten(u)' /\ (u \in breached' => txn' # u)
        /\ (pending'[u] > 0 => txn' = u) /\ pending'[u] + disk'[u] <= MaxStatements
    BY <1>1, <1>a, <2>1, <2>2, <2>3 DEF Intact, Holds, Unwritten
  <2>5. ~Landed(u)
    BY <1>a, <2>1 DEF Landed, Intact, Holds
  <2>6. ~connected => txn = Nobody
    BY DEF ConnInv
  <2>7. txn = Nobody => txn' = Nobody
    BY <1>1
  <2> QED
    BY <1>1, <1>a, <2>1, <2>2, <2>4, <2>5, <2>6, <2>7 DEF UnitInv
<1> QED
  BY <1>2, <1>3

(* A commit keeps it.                                                      *)
LEMMA UnitRunCommit ==
    ASSUME TypeOK, JobInv, ConnInv, NEW u \in Units, \A v \in Units : UnitInv(v), RunCommit
    PROVE  UnitInv(u)'
<1>a. /\ u \in Tasks /\ u # Nobody
      /\ issued[u] \in Nat /\ pending[u] \in Nat /\ disk[u] \in Nat /\ MaxStatements \in Nat
  BY UnitTypes, TaskFacts
<1>b. "commit" \in JobOps /\ "commit" \in UnitOps
  BY DEF JobOps, UnitOps
<1>1. PICK answer \in {"ok", "error"} :
        /\ Served(u, "commit", answer) /\ connected' = connected /\ breached' = breached
        /\ \/ /\ answer = "ok" /\ connected /\ txn # Nobody /\ txn' = Nobody
              /\ disk'[u] = disk[u] + pending[u] /\ pending'[u] = 0
           \/ answer = "error" /\ txn' = txn /\ pending'[u] = pending[u] /\ disk'[u] = disk[u]
           \/ answer = "error" /\ txn' = Nobody /\ pending'[u] = 0 /\ disk'[u] = disk[u]
  BY <1>b, ServedShape
  DEF RunCommit, Untouched, RolledBack, EndTransaction, CommitPending, InTransaction, NoWrites
<1>2. CASE running.task # u
  <2>1. Apart(u)
    BY <1>1, <1>2, <1>b, ApartFact DEF Served
  <2>2. /\ pc'[u] = pc[u] /\ exit'[u] = exit[u] /\ issued'[u] = issued[u] /\ reply'[u] = reply[u]
        /\ \A op : ~RunningOf(u, op)'
    BY <1>1, <1>2, UnitTypes DEF Served, RunningOf
  <2>3. txn # u
    <3>1. running.task \in Units /\ RunningOf(running.task, "commit")
      BY <1>1, <1>b DEF Served, RunningOf, JobInv, RunningInv, OwnOp
    <3> QED
      BY <1>2, <1>a, <3>1 DEF UnitInv, Intact, Holds
  <2>4. txn' # u /\ pending[u] = 0 /\ pending'[u] = 0 /\ disk'[u] = disk[u]
    BY <1>1, <1>a, <2>3 DEF UnitInv
  <2>5. (Fresh(u) => Fresh(u)') /\ (Unwritten(u) => Unwritten(u)') /\ (Landed(u) => Landed(u)')
    BY <1>1, <2>2, <2>4 DEF Fresh, Unwritten, Landed
  <2> QED
    BY <1>1, <1>a, <2>1, <2>2, <2>4, <2>5 DEF UnitInv, Apart, Holding
<1>3. CASE running.task = u
  <2>1. Intact(u) /\ RunningOf(u, "commit") /\ issued[u] > 0
    BY <1>1, <1>3 DEF Served, RunningOf, UnitInv
  <2>2. /\ pc'[u] = pc[u] /\ exit'[u] = exit[u] /\ issued'[u] = issued[u]
        /\ \A op : ~RunningOf(u, op)'
        /\ \/ pc[u] = "commit" /\ reply[u] = "none" /\ reply'[u] = answer
           \/ pc[u] = "done" /\ exit[u] = "cancelled"
           \/ pc[u] = "done" /\ ~connected /\ answer = "error"
    <3>1. \A op : ~RunningOf(u, op)'
      BY <1>1, UnitTypes DEF Served, RunningOf
    <3>2. connected \/ answer = "error"
      BY <1>1
    <3> QED
      BY <1>1, <1>3, <3>1, <3>2, OwnPlace DEF Served
  <2>3. (answer = "ok" => Landed(u)') /\ (answer = "error" => Unwritten(u)')
    BY <1>1, <1>a, <2>1, <2>2 DEF Intact, Holds, Landed, Unwritten
  <2>4. ~Landed(u) /\ (~connected => txn = Nobody)
    BY <1>a, <2>1 DEF Landed, Intact, Holds, ConnInv
  <2> QED
    BY <1>1, <1>a, <2>1, <2>2, <2>3, <2>4 DEF UnitInv
<1> QED
  BY <1>2, <1>3

(* A rollback keeps it.                                                    *)
LEMMA UnitRunRollback ==
    ASSUME TypeOK, JobInv, ConnInv, NEW u \in Units, UnitInv(u), RunRollback
    PROVE  UnitInv(u)'
<1>a. /\ u \in Tasks /\ u # Nobody
      /\ issued[u] \in Nat /\ pending[u] \in Nat /\ disk[u] \in Nat /\ MaxStatements \in Nat
  BY UnitTypes, TaskFacts
<1>b. "rollback" \in JobOps /\ "rollback" \in UnitOps
  BY DEF JobOps, UnitOps
<1>1. PICK answer \in {"ok", "error"} :
        /\ Served(u, "rollback", answer) /\ connected' = connected /\ breached' = breached
        /\ txn' = Nobody /\ disk'[u] = disk[u]
        /\ pending'[u] = 0 \/ (txn = Nobody /\ pending'[u] = pending[u])
  BY <1>b, ServedShape
  DEF RunRollback, Untouched, RolledBack, EndTransaction, InTransaction, NoWrites, ConnInv
<1>2. pending'[u] = 0 /\ txn' # u
  BY <1>1, <1>a DEF UnitInv
<1>3. /\ pc'[u] = pc[u] /\ exit'[u] = exit[u] /\ issued'[u] = issued[u]
      /\ \A op : ~RunningOf(u, op)'
  BY <1>1, UnitTypes DEF Served, RunningOf
<1>4. (Fresh(u) => Fresh(u)') /\ (Unwritten(u) => Unwritten(u)') /\ (Landed(u) => Landed(u)')
  BY <1>1, <1>2, <1>3 DEF Fresh, Unwritten, Landed
<1>5. CASE running.task # u
  <2>1. Apart(u) /\ reply'[u] = reply[u]
    BY <1>1, <1>5, <1>b, ApartFact DEF Served
  <2> QED
    BY <1>1, <1>a, <1>2, <1>3, <1>4, <2>1 DEF UnitInv, Apart, Holding
<1>6. CASE running.task = u
  <2>1. pc[u] \in {"rollback", "done"}
    BY <1>1, <1>6, OwnPlace DEF Served
  <2> QED
    BY <1>1, <1>a, <1>2, <1>3, <1>4, <2>1 DEF UnitInv
<1> QED
  BY <1>5, <1>6

(* A script finds units anywhere in their blocks. *)
LEMMA UnitRunScript ==
    ASSUME TypeOK, JobInv, ConnInv, NEW u \in Units, UnitInv(u), RunScript
    PROVE  UnitInv(u)'
<1>a. /\ u \in Tasks /\ u # Nobody
      /\ issued[u] \in Nat /\ pending[u] \in Nat /\ disk[u] \in Nat /\ MaxStatements \in Nat
  BY UnitTypes, TaskFacts
<1>b. "script" \in JobOps /\ "script" \notin UnitOps
  BY DEF JobOps, UnitOps
<1>1. PICK answer \in {"ok", "error"} :
        /\ Served(u, "script", answer) /\ connected' = connected
        /\ \/ UNCHANGED <<txn, pending, disk, breached>>
           \/ /\ txn # Nobody /\ txn' = Nobody /\ breached' = breached \cup {txn}
              /\ disk'[u] = disk[u] + pending[u] /\ pending'[u] = 0
  BY <1>b, ServedShape
  DEF RunScript, Untouched, EndTransaction, CommitPending, InTransaction, NoWrites
<1>2. running.task # u
  BY <1>1, <1>b, OwnPlace DEF Served
<1>3. /\ pc'[u] = pc[u] /\ exit'[u] = exit[u] /\ issued'[u] = issued[u] /\ reply'[u] = reply[u]
      /\ \A op : ~RunningOf(u, op) \/ op = "script"
      /\ \A op : ~RunningOf(u, op)'
  BY <1>1, <1>2, UnitTypes DEF Served, RunningOf
<1>4. CASE UNCHANGED <<txn, pending, disk, breached>>
  BY <1>1, <1>3, <1>4, UnitFrame DEF connVars
<1>5. CASE /\ txn # Nobody /\ txn' = Nobody /\ breached' = breached \cup {txn}
           /\ disk'[u] = disk[u] + pending[u] /\ pending'[u] = 0
  <2>1. txn # u => pending[u] = 0 /\ disk'[u] = disk[u]
    BY <1>5, <1>a DEF UnitInv
  <2>2. \A n \in Nat : Holds(u, n) => /\ txn' = Nobody /\ u \in breached' /\ pending'[u] = 0
                                      /\ disk'[u] <= n
    BY <1>5, <1>a DEF Holds
  <2>3. Intact(u) => Intact(u)'
    BY <1>3, <1>a, <2>2 DEF Intact, Holds
  <2>4. Holds(u, issued[u] + 1) => Holds(u, issued[u] + 1)'
    BY <1>3, <1>a, <2>2 DEF Holds
  <2>5. (Fresh(u) => Fresh(u)') /\ (Unwritten(u) => Unwritten(u)') /\ (Landed(u) => Landed(u)')
    BY <1>3, <1>5, <1>a, <2>1 DEF Fresh, Unwritten, Landed
  <2>6. /\ txn' # u /\ pending'[u] + disk'[u] <= MaxStatements
        /\ ~(pending'[u] > 0)
    BY <1>5, <1>a DEF UnitInv
  <2> QED
    BY <1>3, <1>a, <2>3, <2>4, <2>5, <2>6 DEF UnitInv
<1> QED
  BY <1>1, <1>4, <1>5

(* Closing the connection keeps it.                                        *)
LEMMA UnitRunClose ==
    ASSUME TypeOK, JobInv, ConnInv, NEW u \in Units, UnitInv(u), RunClose
    PROVE  UnitInv(u)'
<1>a. /\ u \in Tasks /\ u # Nobody
      /\ issued[u] \in Nat /\ pending[u] \in Nat /\ disk[u] \in Nat /\ MaxStatements \in Nat
  BY UnitTypes, TaskFacts
<1>1. running \in JobType /\ running # NoJob /\ running.op = "close"
  BY DEF RunClose, NoJob, TypeOK
<1>2. running.task # u
  BY <1>1, OwnPlace DEF UnitOps
<1>3. /\ pc'[u] = pc[u] /\ exit'[u] = exit[u] /\ issued'[u] = issued[u] /\ reply'[u] = reply[u]
      /\ \A op : ~RunningOf(u, op) \/ op = "close"
      /\ \A op : ~RunningOf(u, op)'
  <2>1. running' = NoJob /\ reply'[u] = reply[u]
    BY <1>a, <1>1, <1>2 DEF RunClose, TypeOK, JobType
  <2> QED
    BY <1>1, <1>2, <2>1, UnitTypes DEF RunClose, loopVars, RunningOf
<1>4. /\ ~connected' /\ txn' = Nobody /\ pending'[u] = 0 /\ disk'[u] = disk[u]
      /\ breached' = breached
  BY DEF RunClose, RolledBack, EndTransaction, NoWrites
<1>5. \A n \in Nat : Holds(u, n) => /\ txn' = Nobody /\ pending'[u] = 0
                                    /\ u \in breached' \/ (disk'[u] = 0 /\ disk'[u] <= n)
  BY <1>4, <1>a DEF Holds
<1>6. Intact(u) => Intact(u)'
  BY <1>3, <1>4, <1>a DEF Intact, Holds
<1>7. Holds(u, issued[u] + 1) => Holds(u, issued[u] + 1)'
  BY <1>3, <1>4, <1>a DEF Holds
<1>8. (Fresh(u) => Fresh(u)') /\ (Unwritten(u) => Unwritten(u)') /\ (Landed(u) => Landed(u)')
  BY <1>3, <1>4, <1>a DEF Fresh, Unwritten, Landed
<1> QED
  BY <1>3, <1>4, <1>a, <1>6, <1>7, <1>8 DEF UnitInv

(* Every step keeps it.                                                    *)
LEMMA UnitNext ==
    ASSUME TypeOK, JobInv, ConnInv, \A v \in Units : UnitInv(v), [Next]_vars, NEW u \in Units
    PROVE  UnitInv(u)'
<1> USE TaskFacts
<1>a. u \in Tasks /\ UnitInv(u)
  OBVIOUS
(* Another task's step in the event loop. *)
<1>b. ASSUME NEW t \in Tasks \ {u}, connVars' = connVars, breached' = breached,
             \E where : Goto(t, where),
             exit' = exit \/ \E how : exit' = [exit EXCEPT ![t] = how],
             reply' = reply \/ reply' = [reply EXCEPT ![t] = "none"],
             issued' = issued \/ \E n : issued' = [issued EXCEPT ![t] = n],
             running' = running \/ running' = Abandon(running, t)
      PROVE  UnitInv(u)'
  <2>1. pc'[u] = pc[u] /\ exit'[u] = exit[u] /\ reply'[u] = reply[u] /\ issued'[u] = issued[u]
    BY <1>a, <1>b DEF TypeOK, Goto
  <2>2. \A op : RunningOf(u, op)' = RunningOf(u, op)
    BY <1>b DEF RunningOf, Abandon, TypeOK, JobType, NoJob
  <2> QED
    BY <1>a, <1>b, <2>1, <2>2, UnitFrame
<1>1. ASSUME NEW v \in Units, Transaction(v) \/ UnitStep(v) PROVE UnitInv(u)'
  <2>1. CASE v = u
    BY <1>1, <1>a, <2>1, UnitOwnStep
  <2>2. CASE v # u
    <3>1. UNCHANGED <<connVars, breached, running>>
      BY <1>1 DEF Transaction, UnitStep, Acquire, BeginReturns, Execute, ExecuteReturns,
         LeaveBody, CommitReturns, RollbackReturns
    <3>2. reply' = reply \/ reply' = [reply EXCEPT ![v] = "none"]
      BY <1>1 DEF Transaction, UnitStep, Acquire, BeginReturns, Execute, ExecuteReturns,
         LeaveBody, CommitReturns, RollbackReturns, Resume
    <3>3. issued' = issued \/ \E n : issued' = [issued EXCEPT ![v] = n]
      <4>1. issued' = issued \/ issued' = [issued EXCEPT ![v] = issued[v] + 1]
        BY <1>1 DEF Transaction, UnitStep, Acquire, BeginReturns, Execute, ExecuteReturns,
           LeaveBody, CommitReturns, RollbackReturns, TypeOK
      <4> QED
        BY <4>1
    <3>4. /\ \E where : Goto(v, where)
          /\ exit' = exit \/ \E how : exit' = [exit EXCEPT ![v] = how]
      BY <1>1 DEF Transaction, UnitStep, Acquire, BeginReturns, Execute, ExecuteReturns,
         LeaveBody, CommitReturns, RollbackReturns, Begin, Aexit, Leave, Ask
    <3> QED
      BY <2>2, <3>1, <3>2, <3>3, <3>4, <1>b
  <2> QED
    BY <2>1, <2>2
<1>2. ASSUME NEW s \in Scripts, ExecuteScript(s) \/ ScriptReturns(s) PROVE UnitInv(u)'
  <2>1. UNCHANGED <<connVars, breached, running, issued>>
    BY <1>2 DEF ExecuteScript, ScriptReturns
  <2>2. /\ \E where : Goto(s, where)
        /\ exit' = exit \/ \E how : exit' = [exit EXCEPT ![s] = how]
        /\ reply' = reply \/ reply' = [reply EXCEPT ![s] = "none"]
    BY <1>2 DEF ExecuteScript, ScriptReturns, Leave, Ask, Resume
  <2> QED
    BY <2>1, <2>2, <1>b
<1>3. ASSUME Aclose \/ CloserStep PROVE UnitInv(u)'
  <2>1. UNCHANGED <<connVars, breached, running, issued>>
    BY <1>3 DEF Aclose, CloserStep, ShutDownExecutor, Drained, threadVars
  <2>2. /\ \E where : Goto(Closer, where)
        /\ exit' = exit \/ \E how : exit' = [exit EXCEPT ![Closer] = how]
        /\ reply' = reply \/ reply' = [reply EXCEPT ![Closer] = "none"]
    BY <1>3 DEF Aclose, CloserStep, ShutDownExecutor, Drained, threadVars, Leave, Ask, Resume
  <2> QED
    BY <2>1, <2>2, <1>b
<1>4. ASSUME NEW t \in Units \cup Scripts, Cancel(t) PROVE UnitInv(u)'
  <2>1. CASE t = u
    BY <1>4, <1>a, <2>1, UnitCancelled
  <2>2. CASE t # u
    <3>1. UNCHANGED <<connVars, breached, issued>>
      BY <1>4 DEF Cancel
    <3>2. /\ reply' = reply \/ reply' = [reply EXCEPT ![t] = "none"]
          /\ running' = running \/ running' = Abandon(running, t)
      BY <1>4 DEF Cancel, CancelWaiter, CancelBoundary, CancelStatement, CancelScript, StopWaiting
    <3>3. /\ \E where : Goto(t, where)
          /\ exit' = exit \/ \E how : exit' = [exit EXCEPT ![t] = how]
      BY <1>4 DEF Cancel, CancelWaiter, CancelBoundary, CancelStatement, CancelScript,
         Aexit, Leave, Ask
    <3> QED
      BY <2>2, <3>1, <3>2, <3>3, <1>b
  <2> QED
    BY <2>1, <2>2
<1>5. ASSUME Take PROVE UnitInv(u)'
  <2>1. queue \in Seq(JobType) /\ queue # <<>>
    BY <1>5 DEF TypeOK, Take
  <2>2. Head(queue) = queue[1] /\ 1 \in 1 .. Len(queue)
    BY <2>1
  <2>3. queue[1].live => Matches(queue[1])
    BY <2>2 DEF JobInv, QueueInv
  <2>4. \A op : RunningOf(u, op)' => pc[u] = op /\ reply[u] = "none"
    BY <1>5, <2>2, <2>3, Taking, UnitTypes DEF RunningOf, Matches
  <2>5. UNCHANGED <<connVars, breached, pc, exit, reply, issued>>
    BY <1>5, Taking DEF connVars
  <2> QED
    BY <1>a, <2>4, <2>5, UnitFrame
<1>6. CASE UNCHANGED vars
  <2>1. UNCHANGED <<connVars, breached, pc, exit, reply, issued, running>>
    BY <1>6 DEF vars, loopVars, threadVars
  <2> QED
    BY <1>a, <2>1, UnitFrame DEF RunningOf
<1> QED
  BY <1>1, <1>2, <1>3, <1>4, <1>5, <1>6, UnitRunBegin, UnitRunExecute, UnitRunCommit,
     UnitRunRollback, UnitRunScript, UnitRunClose
  DEF Next, Thread

-----------------------------------------------------------------------------
(* The invariant. *)

(* The strengthened invariant holds at the start.                          *)
LEMMA IInvInit == Init => IInv
<1> SUFFICES ASSUME Init PROVE IInv
  OBVIOUS
<1>1. TypeOK
  BY TypeInit
<1>2. LockInv
  BY TaskFacts DEF Init, LockInv, Holding
<1>3. JobInv
  <2>1. Len(queue) = 0
    BY DEF Init
  <2> QED
    BY <2>1 DEF Init, JobInv, QueueInv, RunningInv, ReplyInv
<1>4. ConnInv
  BY TaskFacts DEF Init, ConnInv
<1>5. ASSUME NEW u \in Units PROVE UnitInv(u)
  BY TaskFacts DEF Init, UnitInv, Fresh, NoWrites, RunningOf, NoJob
<1> QED
  BY <1>1, <1>2, <1>3, <1>4, <1>5 DEF IInv

(* Every step keeps the strengthened invariant.                            *)
LEMMA IInvNext == IInv /\ [Next]_vars => IInv'
<1> SUFFICES ASSUME IInv, [Next]_vars PROVE IInv'
  OBVIOUS
<1>1. TypeOK /\ LockInv /\ JobInv /\ ConnInv /\ \A u \in Units : UnitInv(u)
  BY DEF IInv
<1>2. TypeOK'
  BY <1>1, RoomThere, TypeNext
<1>3. LockInv'
  BY <1>1, LockNext
<1>4. JobInv'
  BY <1>1, <1>2, JobNext
<1>5. ConnInv'
  BY <1>1, ConnNext
<1>6. \A u \in Units : UnitInv(u)'
  BY <1>1, UnitNext
<1> QED
  BY <1>2, <1>3, <1>4, <1>5, <1>6 DEF IInv

(* The inductive invariant holds in every state of the writer and its     *)
(* callers (db.py, islem.py).                                              *)
THEOREM Invariant == Spec => []IInv
<1> QED
  BY IInvInit, IInvNext, PTL DEF Spec

(* Every variable keeps its type, and every count its bound. *)
THEOREM TypeCorrect == Spec => []TypeOK
<1>1. IInv => TypeOK
  BY DEF IInv
<1> QED
  BY <1>1, Invariant, PTL

(* The open transaction never holds a write of a unit other than its own.  *)
THEOREM Isolated == Spec => []Isolation
<1>1. IInv => Isolation
  BY DEF IInv, UnitInv, Isolation
<1> QED
  BY <1>1, Invariant, PTL

(* Whatever of an unbreached unit is on the disk is all of it.             *)
LEMMA Whole ==
    ASSUME IInv, NEW u \in Units, u \notin breached, disk[u] > 0
    PROVE  Landed(u) /\ pc[u] \in {"commit", "done"} /\ exit[u] \in {"ok", "cancelled"}
<1>1. UnitInv(u) /\ reply[u] \in {"none", "ok", "error"} /\ exit[u] \in Exits /\ disk[u] \in Nat
  BY UnitTypes DEF IInv
<1>2. ~Fresh(u) /\ ~Unwritten(u) /\ \A n : ~Holds(u, n)
  BY <1>1 DEF Fresh, Unwritten, Holds
<1>3. pc[u] \in {"commit", "done"}
  BY <1>1, <1>2 DEF UnitInv, Intact, Holding
<1> QED
  BY <1>1, <1>2, <1>3 DEF UnitInv, Intact, Exits

(* All of a unit's writes reach the disk or, unless a script cuts it,      *)
(* none.                                                                   *)
THEOREM Atomic == Spec => []AllOrNothing
<1>1. IInv => AllOrNothing
  BY Whole DEF AllOrNothing, Landed
<1> QED
  BY <1>1, Invariant, PTL

(* What the caller of a unit is told agrees with the disk, then and later. *)
LEMMA Honesty == IInv => HonestAnswer
<1> SUFFICES ASSUME IInv, NEW u \in Units
             PROVE  /\ pc[u] = "done" /\ exit[u] = "ok" => u \notin breached /\ disk[u] > 0
                    /\ pc[u] = "done" /\ exit[u] \in {"failed", "unsettled"} /\ u \notin breached
                          => disk[u] = 0
  BY DEF HonestAnswer
<1> QED
  BY DEF IInv, UnitInv, Landed, Unwritten

(* A caller told "committed" has its writes in the file, one told "failed" *)
(* has none of them there (islem.py).                                      *)
THEOREM Honest == Spec => []HonestAnswer
<1> QED
  BY Honesty, Invariant, PTL

(* A transaction stays open without its unit's lock only behind a unit     *)
(* that was cancelled in BEGIN, COMMIT or ROLLBACK or whose COMMIT failed. *)
THEOREM Abandonment == Spec => []AbandonedOnlyByInterruption
<1>1. ASSUME IInv, txn # Nobody, lock # txn PROVE exit[txn] \in {"cancelled", "unsettled"}
  <2>1. txn \in Units
    BY <1>1 DEF IInv, TypeOK
  <2>2. UnitInv(txn) /\ exit[txn] \in Exits /\ pc[txn] \notin Holding
    BY <1>1, <2>1, UnitTypes DEF IInv, LockInv
  <2> QED
    BY <2>2 DEF UnitInv, Fresh, Landed, Exits
<1>2. IInv => AbandonedOnlyByInterruption
  BY <1>1 DEF AbandonedOnlyByInterruption
<1> QED
  BY <1>2, Invariant, PTL

-----------------------------------------------------------------------------
(* The abstract promise. *)

LandedUnits == {u \in Units \ breached : disk[u] > 0}
Told == [u \in Units |-> Answer(u)]

(* An answer is honest in every state of the invariant.                    *)
LEMMA HonestyNext == ASSUME IInv' PROVE HonestAnswer'
BY Honesty, PTL

(* Nothing but one unit's answer changes. *)
LEMMA TellStep ==
    ASSUME IInv, IInv', UNCHANGED <<disk, breached>>, NEW t \in Tasks, pc[t] # "done",
           \A x \in Tasks : x # t => pc'[x] = pc[x] /\ exit'[x] = exit[x]
    PROVE  [Promise!Next]_(Promise!vars)
<1> USE TaskFacts
<1>1. LandedUnits' = LandedUnits
  BY DEF LandedUnits
<1>2. \A u \in Units : u # t => Answer(u)' = Answer(u)
  BY DEF Answer
<1>3. CASE t \notin Units \/ pc'[t] # "done"
  <2>1. \A u \in Units : Answer(u)' = Answer(u)
    BY <1>2, <1>3 DEF Answer
  <2>2. Told' = Told
    BY <2>1 DEF Told
  <2> QED
    BY <1>1, <2>2 DEF Promise!vars, LandedUnits, Told
<1>4. CASE t \in Units /\ pc'[t] = "done"
  <2>1. Answer(t) = "nothing" /\ Answer(t)' \in {"committed", "cancelled", "failed"}
    BY <1>4 DEF Answer
  <2>2. Told \in [Units -> {Answer(u) : u \in Units}] /\ Told[t] = "nothing"
    BY <1>4, <2>1 DEF Told
  <2>3. Told' = [Told EXCEPT ![t] = Answer(t)']
    BY <1>2, <1>4 DEF Told
  <2>4. HonestAnswer' /\ exit'[t] \in Exits /\ UnitInv(t)' /\ disk'[t] \in Nat
    <3>1. HonestAnswer'
      BY HonestyNext
    <3>2. TypeOK' /\ UnitInv(t)'
      BY <1>4 DEF IInv
    <3> QED
      BY <1>4, <3>1, <3>2 DEF TypeOK, Count
  <2>5. Answer(t)' = "committed" => t \in LandedUnits
    BY <1>1, <1>4, <2>4 DEF HonestAnswer, Answer, LandedUnits
  <2>6. Answer(t)' = "failed" => t \notin LandedUnits
    <3>1. Answer(t)' = "failed" => exit'[t] \in {"failed", "unsettled"}
      BY <1>4, <2>4 DEF Answer, Exits, UnitInv
    <3> QED
      BY <1>1, <1>4, <2>4, <3>1 DEF HonestAnswer, LandedUnits
  <2>7. Promise!Tell(t, Answer(t)')
    BY <1>1, <2>2, <2>3, <2>5, <2>6 DEF Promise!Tell, LandedUnits, Told
  <2>8. Promise!Next
    BY <1>4, <2>1, <2>7 DEF Promise!Next, Promise!Answers
  <2> QED
    BY <2>8
<1> QED
  BY <1>3, <1>4

(* The writes of at most one unit reach the disk, and nothing is told. *)
LEMMA LandStep ==
    ASSUME IInv, IInv', UNCHANGED <<pc, exit, breached>>, NEW v,
           \A u \in Units : u # v => disk'[u] = disk[u],
           v \in Units => disk'[v] >= disk[v]
    PROVE  [Promise!Next]_(Promise!vars)
<1>0. \A u \in Units : disk[u] \in Nat /\ disk'[u] \in Nat
  BY DEF IInv, TypeOK, Count
<1>1. Told' = Told
  BY DEF Told, Answer
<1>2. LandedUnits' = LandedUnits \/ (v \in LandedUnits' /\ LandedUnits' = LandedUnits \cup {v})
  BY <1>0 DEF LandedUnits
<1>3. CASE LandedUnits' = LandedUnits
  BY <1>1, <1>3 DEF Promise!vars, LandedUnits, Told
<1>4. CASE v \notin LandedUnits /\ v \in LandedUnits' /\ LandedUnits' = LandedUnits \cup {v}
  <2>1. v \in Units /\ v \notin breached /\ disk[v] = 0 /\ disk'[v] > 0
    BY <1>0, <1>4 DEF LandedUnits
  <2>2. Told[v] \in {"nothing", "cancelled"}
    <3>1. /\ HonestAnswer /\ HonestAnswer'
          /\ v \in Tasks /\ exit \in [Tasks -> Exits] /\ UnitInv(v)
      BY <2>1, Honesty, HonestyNext, TaskFacts DEF IInv, TypeOK
    <3>2. pc[v] = "done" => exit[v] = "cancelled"
      BY <2>1, <3>1 DEF HonestAnswer, Exits, UnitInv
    <3> QED
      BY <2>1, <3>2 DEF Told, Answer
  <2>3. Promise!Land(v)
    BY <1>1, <1>4, <2>1, <2>2 DEF Promise!Land, LandedUnits, Told
  <2> QED
    BY <2>1, <2>3 DEF Promise!Next
<1> QED
  BY <1>2, <1>3, <1>4

(* A script that commits an open transaction is a breach in the promise.   *)
LEMMA BreachStep ==
    ASSUME IInv, IInv', UNCHANGED <<pc, exit>>, txn \in Units, breached' = breached \cup {txn},
           \A u \in Units : u # txn => disk'[u] = disk[u]
    PROVE  [Promise!Next]_(Promise!vars)
<1>1. Told' = Told
  BY DEF Told, Answer
<1>2. txn \notin LandedUnits
  BY Whole DEF LandedUnits, Landed
<1>3. LandedUnits' = LandedUnits
  BY <1>2 DEF LandedUnits
<1>4. Promise!Breach(txn)
  BY <1>1, <1>2, <1>3 DEF Promise!Breach, LandedUnits, Told
<1> QED
  BY <1>4 DEF Promise!Next

(* Every step of the store is one of the promise, or none.                 *)
LEMMA PromiseNext ==
    ASSUME IInv, IInv', [Next]_vars
    PROVE  [Promise!Next]_(Promise!vars)
<1> USE TaskFacts
<1>a. TypeOK /\ JobInv /\ ConnInv
  BY DEF IInv
<1>b. ASSUME NEW t \in Tasks, pc[t] # "done", UNCHANGED <<disk, breached>>,
             \E where : Goto(t, where),
             exit' = exit \/ \E how : exit' = [exit EXCEPT ![t] = how]
      PROVE  [Promise!Next]_(Promise!vars)
  <2>1. \A x \in Tasks : x # t => pc'[x] = pc[x] /\ exit'[x] = exit[x]
    BY <1>a, <1>b DEF Goto, TypeOK
  <2> QED
    BY <1>b, <2>1, TellStep
<1>1. ASSUME NEW u \in Units, Transaction(u) \/ UnitStep(u) PROVE [Promise!Next]_(Promise!vars)
  <2>1. UNCHANGED <<disk, breached>> /\ pc[u] # "done"
    BY <1>1 DEF Transaction, UnitStep, Acquire, BeginReturns, Execute, ExecuteReturns,
       LeaveBody, CommitReturns, RollbackReturns, Resume, connVars
  <2>2. /\ \E where : Goto(u, where)
        /\ exit' = exit \/ \E how : exit' = [exit EXCEPT ![u] = how]
    BY <1>1 DEF Transaction, UnitStep, Acquire, BeginReturns, Execute, ExecuteReturns,
       LeaveBody, CommitReturns, RollbackReturns, Begin, Aexit, Leave, Ask
  <2> QED
    BY <2>1, <2>2, <1>b
<1>2. ASSUME NEW s \in Scripts, ExecuteScript(s) \/ ScriptReturns(s)
      PROVE  [Promise!Next]_(Promise!vars)
  <2>1. UNCHANGED <<disk, breached>> /\ pc[s] # "done"
    BY <1>2 DEF ExecuteScript, ScriptReturns, Resume, connVars
  <2>2. /\ \E where : Goto(s, where)
        /\ exit' = exit \/ \E how : exit' = [exit EXCEPT ![s] = how]
    BY <1>2 DEF ExecuteScript, ScriptReturns, Leave, Ask
  <2> QED
    BY <2>1, <2>2, <1>b
<1>3. ASSUME Aclose \/ CloserStep PROVE [Promise!Next]_(Promise!vars)
  <2>1. UNCHANGED <<disk, breached>> /\ pc[Closer] # "done"
    BY <1>3 DEF Aclose, CloserStep, ShutDownExecutor, Drained, Resume, connVars
  <2>2. /\ \E where : Goto(Closer, where)
        /\ exit' = exit \/ \E how : exit' = [exit EXCEPT ![Closer] = how]
    BY <1>3 DEF Aclose, CloserStep, ShutDownExecutor, Drained, Leave, Ask
  <2> QED
    BY <2>1, <2>2, <1>b
<1>4. ASSUME NEW t \in Units \cup Scripts, Cancel(t) PROVE [Promise!Next]_(Promise!vars)
  <2>1. UNCHANGED <<disk, breached>> /\ pc[t] # "done"
    BY <1>4 DEF Cancel, CancelWaiter, CancelBoundary, CancelStatement, CancelScript, connVars
  <2>2. /\ \E where : Goto(t, where)
        /\ exit' = exit \/ \E how : exit' = [exit EXCEPT ![t] = how]
    BY <1>4 DEF Cancel, CancelWaiter, CancelBoundary, CancelStatement, CancelScript, Aexit,
       Leave, Ask
  <2> QED
    BY <2>1, <2>2, <1>b
<1>c. \A u \in Units : disk[u] \in Nat /\ pending[u] \in Nat
  BY <1>a, UnitTypes
<1>5. ASSUME Thread PROVE [Promise!Next]_(Promise!vars)
  <2>1. UNCHANGED <<pc, exit>>
    BY <1>5 DEF Thread, Take, RunBegin, RunExecute, RunCommit, RunRollback, RunScript, RunClose,
       Serve, loopVars
  <2>2. CASE disk' = disk /\ breached' = breached
    BY <2>1, <2>2, <1>c, LandStep
  <2>3. CASE RunExecute
    <3>1. /\ breached' = breached
          /\ disk' = disk \/ disk' = [disk EXCEPT ![running.task] = disk[running.task] + 1]
      BY <2>3 DEF RunExecute, Untouched, RolledBack, EndTransaction
    <3>2. disk \in [Units -> Count]
      BY <1>a DEF TypeOK
    <3>3. /\ \A u \in Units : u # running.task => disk'[u] = disk[u]
          /\ running.task \in Units => disk'[running.task] >= disk[running.task]
      BY <3>1, <3>2, <1>c
    <3> QED
      BY <2>1, <3>1, <3>3, LandStep
  <2>4. ASSUME CommitPending, txn \in Units
        PROVE  /\ \A u \in Units : u # txn => disk'[u] = disk[u]
               /\ disk'[txn] >= disk[txn]
    <3>1. \A u \in Units : disk'[u] = disk[u] + pending[u]
      BY <2>4 DEF CommitPending
    <3>2. \A u \in Units : u # txn => pending[u] = 0
      BY <1>c DEF IInv, UnitInv
    <3> QED
      BY <2>4, <3>1, <3>2, <1>c
  <2>5. txn # Nobody => txn \in Units
    BY <1>a DEF TypeOK
  <2>6. CASE RunCommit
    <3>1. /\ breached' = breached
          /\ disk' = disk \/ (CommitPending /\ txn # Nobody)
      BY <2>6 DEF RunCommit, Untouched, RolledBack, InTransaction
    <3> QED
      BY <2>1, <2>2, <2>4, <2>5, <3>1, LandStep
  <2>7. CASE RunScript
    <3>1. \/ disk' = disk /\ breached' = breached
          \/ CommitPending /\ txn # Nobody /\ breached' = breached \cup {txn}
      BY <2>7 DEF RunScript, Untouched, InTransaction
    <3> QED
      BY <2>1, <2>2, <2>4, <2>5, <3>1, BreachStep
  <2>8. CASE Take \/ RunBegin \/ RunRollback \/ RunClose
    <3>1. disk' = disk /\ breached' = breached
      BY <2>8 DEF Take, RunBegin, RunRollback, RunClose, Untouched, RolledBack, connVars
    <3> QED
      BY <3>1, <2>2
  <2> QED
    BY <1>5, <2>3, <2>6, <2>7, <2>8 DEF Thread
<1>6. CASE UNCHANGED vars
  BY <1>6 DEF vars, loopVars, connVars, Promise!vars, Answer
<1> QED
  BY <1>1, <1>2, <1>3, <1>4, <1>5, <1>6 DEF Next

(* The database keeps the promise of AtomicUnits: step by step, every unit *)
(* lands whole, is breached by a script, or is told the truth.             *)
THEOREM PromiseKept == Spec => KeepsPromise
<1>1. Init => Promise!Init
  BY TaskFacts DEF Init, Promise!Init, NoWrites, Answer
<1> QED
  BY <1>1, Invariant, PromiseNext, PTL DEF Spec, KeepsPromise, Promise!Spec

(* The bargain of a unit (transaction, unit): all or nothing, an honest    *)
(* answer, and abandoned only by an interruption.                          *)
THEOREM Bargain == Spec => []UnitsHonest
BY TypeCorrect, Isolated, Atomic, Honest, Abandonment, PTL DEF UnitsHonest
=============================================================================
