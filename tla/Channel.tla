------------------------------ MODULE Channel ------------------------------
(***************************************************************************)
(* The Core Channel: the shell's client (shell-core/src/ipc.rs, bridge.rs, *)
(* permissions.rs) and the Core's server (core/turkish_code/kanal) over    *)
(* the two pipes of one Core process, from the moment the channel is wired *)
(* to the end of that process.                                             *)
(*                                                                         *)
(* A frame is one element of a pipe.  A writer that finds the pipe full    *)
(* keeps its side's writer lock, its frame half written, until there is    *)
(* room; the task that answers permission requests may be aborted there,   *)
(* which leaves a torn frame.  An action of the Core is what its event     *)
(* loop runs between two suspensions.                                      *)
(***************************************************************************)
EXTENDS Naturals, Sequences, FiniteSets

CONSTANTS
    Calls,      \* requests of the shell to the Core
    Timed,      \* the ones made with request_timeout (the heartbeats)
    Asking,     \* the ones whose handler may ask the shell something
    Down,       \* the app.shutdown request, made without a deadline
    Bridge,     \* the task that answers the Core's requests
    Nobody,
    PipeSize,   \* the frames a pipe holds
    MayHang,    \* the Core's event loop may block for ever
    MayAbort,   \* the bridge may be aborted before app.shutdown (app.rs:85)
    MayCrash    \* the Core process may die by itself

Bodies == {"result", "error"}

ASSUME ChannelAssumption ==
    /\ IsFiniteSet(Calls)
    /\ Timed \subseteq Calls /\ Asking \subseteq Calls
    /\ Down \in Calls \ (Timed \cup Asking)
    /\ Bridge \notin Calls /\ Nobody \notin Calls \cup Bodies \cup {Bridge}
    /\ PipeSize \in Nat \ {0}
    /\ MayHang \in BOOLEAN /\ MayAbort \in BOOLEAN /\ MayCrash \in BOOLEAN

VARIABLES
    (* the shell *)
    call,       \* what became of each request
    pending,    \* Shared.pending, ipc.rs:51
    got,        \* the body each answered request received
    swriter,    \* who holds Shared.writer with its frame half written
    sreader,    \* the background reader task
    held,       \* the lifecycle holds the channel
    bridge,     \* the task running PermissionBridge::run
    asks,       \* CoreEvents.requests, not yet taken
    answering,  \* the request the bridge is answering
    (* the pipes *)
    toCore, toShell,
    (* the Core *)
    core,       \* how far the process is
    hung,       \* its event loop is blocked
    reader,     \* the task running _read_loop
    stop,       \* the _shutdown event
    task,       \* the task handling each request
    reply,      \* the response its handler produced
    asked,      \* the future of the handler's own request
    wlock,      \* the task holding _write_lock while it drains
    (* history *)
    late,       \* requests made after the shell's reader had ended
    killed      \* the process died before it had closed its streams

shellVars == <<call, pending, got, swriter, sreader, held, bridge, asks, answering, late>>
coreVars == <<core, hung, reader, stop, task, reply, asked, wlock, killed>>
vars == <<shellVars, toCore, toShell, coreVars>>

Ended == {"answered", "timeout", "closed", "failed"}
Open(c) == call[c] \notin {"idle"} \cup Ended
Live(c) == task[c] \notin {"none", "done", "cancelled"}

(* The channel is dropped with its last Arc: the lifecycle's, the          *)
(* bridge's, or that of a request under way (lifecycle.rs:89,              *)
(* commands.rs:83).                                                        *)
Attached == held \/ bridge = "up" \/ \E c \in Calls : Open(c)

Frame(kind, c, body) == [kind |-> kind, call |-> c, body |-> body]

Init ==
    /\ call = [c \in Calls |-> "idle"] /\ pending = {}
    /\ got = [c \in Calls |-> Nobody]
    /\ swriter = Nobody /\ sreader = "reading" /\ held = TRUE
    /\ bridge = "up" /\ asks = <<>> /\ answering = Nobody
    /\ toCore = <<>> /\ toShell = <<>>
    /\ core = "serving" /\ hung = FALSE /\ reader = "reading" /\ stop = FALSE
    /\ task = [c \in Calls |-> "none"] /\ reply = [c \in Calls |-> Nobody]
    /\ asked = [c \in Calls |-> "no"] /\ wlock = Nobody
    /\ late = {} /\ killed = FALSE

-----------------------------------------------------------------------------
(* The shell's requests. *)

(* ShellApi::request clones the channel and lets go of the lifecycle lock, *)
(* which app.shutdown holds (commands.rs:83-88).                           *)
Obtain(c) ==
    /\ c # Down /\ call[c] = "idle" /\ held /\ call[Down] = "idle"
    /\ call' = [call EXCEPT ![c] = "obtained"]
    /\ UNCHANGED <<pending, got, swriter, sreader, held, bridge, asks, answering, late>>
    /\ UNCHANGED <<toCore, toShell, coreVars>>

(* request_within up to its wait for the writer lock. *)
Issue(c) ==
    /\ IF c = Down THEN call[c] = "idle" /\ held ELSE call[c] = "obtained"
    /\ call' = [call EXCEPT ![c] = "sending"]
    /\ pending' = pending \cup {c}
    /\ late' = IF sreader = "ended" THEN late \cup {c} ELSE late
    /\ UNCHANGED <<got, swriter, sreader, held, bridge, asks, answering>>
    /\ UNCHANGED <<toCore, toShell, coreVars>>

Writers == Calls \cup {Bridge}
Wants(w) == IF w = Bridge THEN answering # Nobody ELSE call[w] = "sending"
Outgoing(w) ==
    IF w = Bridge THEN Frame("answer", answering, "result") ELSE Frame("request", w, "params")

(* write_wire: the lock, and the frame as soon as the pipe has room.  A    *)
(* request whose pending entry the reader has cleared meanwhile learns     *)
(* that the channel is closed.                                             *)
Write(w) ==
    /\ Wants(w) /\ swriter \in {Nobody, w}
    /\ core # "exited" /\ Len(toCore) < PipeSize
    /\ toCore' = Append(toCore, Outgoing(w))
    /\ swriter' = Nobody
    /\ IF w = Bridge
       THEN answering' = Nobody /\ UNCHANGED call
       ELSE /\ call' = [call EXCEPT ![w] = IF w \in pending THEN "awaiting" ELSE "closed"]
            /\ UNCHANGED answering
    /\ UNCHANGED <<pending, got, sreader, held, bridge, asks, late, toShell, coreVars>>

(* The pipe is full: the frame stays half written, under the lock. *)
WriteBlocks(w) ==
    /\ Wants(w) /\ swriter = Nobody
    /\ core # "exited" /\ Len(toCore) >= PipeSize
    /\ swriter' = w
    /\ UNCHANGED <<call, pending, got, sreader, held, bridge, asks, answering, late>>
    /\ UNCHANGED <<toCore, toShell, coreVars>>

(* Nobody reads the pipe any more. *)
WriteFails(w) ==
    /\ Wants(w) /\ swriter \in {Nobody, w} /\ core = "exited"
    /\ swriter' = Nobody
    /\ IF w = Bridge
       THEN answering' = Nobody /\ UNCHANGED <<call, pending>>
       ELSE /\ call' = [call EXCEPT ![w] = "failed"]
            /\ pending' = pending \ {w}
            /\ UNCHANGED answering
    /\ UNCHANGED <<got, sreader, held, bridge, asks, late, toCore, toShell, coreVars>>

(* The deadline of request_timeout covers the wait for the response only. *)
Timeout(c) ==
    /\ c \in Timed /\ call[c] = "awaiting"
    /\ call' = [call EXCEPT ![c] = "timeout"]
    /\ pending' = pending \ {c}
    /\ UNCHANGED <<got, swriter, sreader, held, bridge, asks, answering, late>>
    /\ UNCHANGED <<toCore, toShell, coreVars>>

-----------------------------------------------------------------------------
(* The shell's reader and the permission bridge. *)

(* A mutant: whoever waits gets the response. *)
RouteToAnyone(f) ==
    /\ f.kind = "response"
    /\ \E c \in pending :
        /\ pending' = pending \ {c}
        /\ call' = [call EXCEPT ![c] = "answered"]
        /\ got' = [got EXCEPT ![c] = f.body]
    /\ UNCHANGED asks

(* route: the entry of the response's id is removed and its receiver told; *)
(* a response nobody waits for is dropped.                                 *)
RouteResponse(f) ==
    /\ f.kind = "response"
    /\ pending' = pending \ {f.call}
    /\ IF f.call \in pending
       THEN /\ call' = [call EXCEPT ![f.call] = "answered"]
            /\ got' = [got EXCEPT ![f.call] = f.body]
       ELSE UNCHANGED <<call, got>>
    /\ UNCHANGED asks

RouteAsk(f) ==
    /\ f.kind = "ask"
    /\ asks' = IF bridge = "up" THEN Append(asks, f.call) ELSE asks
    /\ UNCHANGED <<call, pending, got>>

ShellReads ==
    /\ sreader = "reading" /\ toShell # <<>>
    /\ RouteResponse(Head(toShell)) \/ RouteAsk(Head(toShell))
    /\ toShell' = Tail(toShell)
    /\ UNCHANGED <<swriter, sreader, held, bridge, answering, late, toCore, coreVars>>

(* The end of the Core's stdout: read_loop fails whatever is still         *)
(* pending; a request that still waits for the writer lock finds out after *)
(* writing.                                                                *)
ShellReaderEnds ==
    /\ sreader = "reading" /\ toShell = <<>> /\ core \in {"leaving", "exited"}
    /\ sreader' = "ended"
    /\ pending' = {}
    /\ call' = [c \in Calls |->
                  IF c \in pending /\ call[c] = "awaiting" THEN "closed" ELSE call[c]]
    /\ UNCHANGED <<got, swriter, held, bridge, asks, answering, late>>
    /\ UNCHANGED <<toCore, toShell, coreVars>>

(* Drop for CoreChannel aborts the reader; the Core's output goes nowhere. *)
ShellReaderAborted ==
    /\ sreader = "reading" /\ ~Attached
    /\ sreader' = "aborted" /\ toShell' = <<>>
    /\ UNCHANGED <<call, pending, got, swriter, held, bridge, asks, answering, late>>
    /\ UNCHANGED <<toCore, coreVars>>

(* A mutant: a request the bridge does not know is passed over. *)
BridgeIgnores ==
    /\ bridge = "up" /\ answering = Nobody /\ asks # <<>>
    /\ asks' = Tail(asks)
    /\ UNCHANGED <<call, pending, got, swriter, sreader, held, bridge, answering, late>>
    /\ UNCHANGED <<toCore, toShell, coreVars>>

(* PermissionBridge::run answers one request at a time, whatever its       *)
(* method or its parameters.                                               *)
BridgeTakes ==
    /\ bridge = "up" /\ answering = Nobody /\ asks # <<>>
    /\ answering' = Head(asks) /\ asks' = Tail(asks)
    /\ UNCHANGED <<call, pending, got, swriter, sreader, held, bridge, late>>
    /\ UNCHANGED <<toCore, toShell, coreVars>>

(* The reader owned the other end of the queue. *)
BridgeEnds ==
    /\ bridge = "up" /\ answering = Nobody /\ asks = <<>> /\ sreader # "reading"
    /\ bridge' = "gone"
    /\ UNCHANGED <<call, pending, got, swriter, sreader, held, asks, answering, late>>
    /\ UNCHANGED <<toCore, toShell, coreVars>>

(* DesktopApp::shutdown aborts the bridge first: if it was writing, what   *)
(* had reached the pipe of its frame stays there.                          *)
BridgeAborted ==
    /\ MayAbort /\ bridge = "up" /\ held /\ call[Down] = "idle"
    /\ bridge' = "aborted" /\ asks' = <<>> /\ answering' = Nobody
    /\ IF swriter = Bridge
       THEN /\ swriter' = Nobody
            /\ toCore' \in {toCore, Append(toCore, Frame("torn", answering, "result"))}
       ELSE UNCHANGED <<swriter, toCore>>
    /\ UNCHANGED <<call, pending, got, sreader, held, late, toShell, coreVars>>

(* Once app.shutdown has ended, however it did, the lifecycle lets go of   *)
(* the channel and waits for the process, then kills it.                   *)
Release ==
    /\ held /\ call[Down] \in Ended
    /\ held' = FALSE
    /\ UNCHANGED <<call, pending, got, swriter, sreader, bridge, asks, answering, late>>
    /\ UNCHANGED <<toCore, toShell, coreVars>>
-----------------------------------------------------------------------------
(* The Core's server. *)

Up == core = "serving" /\ ~hung

(* _read_loop and _handle_frame: a request gets a task of its own, a       *)
(* response completes the future of the request it answers, if still       *)
(* there. What follows a torn frame cannot be delimited: decode_frame      *)
(* raises, and the reader's task ends without anyone looking at it         *)
(* (sunucu.py:104).                                                        *)
CoreReads ==
    /\ Up /\ reader = "reading" /\ toCore # <<>>
    /\ LET f == Head(toCore)
       IN  /\ task' = IF f.kind = "request" THEN [task EXCEPT ![f.call] = "running"] ELSE task
           /\ asked' = IF f.kind = "answer" THEN [asked EXCEPT ![f.call] = "done"] ELSE asked
           /\ reader' = IF f.kind = "torn" THEN "dead" ELSE reader
    /\ toCore' = Tail(toCore)
    /\ UNCHANGED <<core, hung, stop, reply, wlock, killed, toShell, shellVars>>

(* A clean end of stdin is a shutdown. *)
CoreReadsEOF ==
    /\ Up /\ reader = "reading" /\ toCore = <<>> /\ ~Attached
    /\ reader' = "ended" /\ stop' = TRUE
    /\ UNCHANGED <<core, hung, task, reply, asked, wlock, killed, toCore, toShell, shellVars>>

(* _write, by the task of request c whose frame f leaves it in state next: *)
(* the frame enters the transport's buffer under _write_lock, and the lock *)
(* is kept while more is buffered than the pipe takes.                     *)
Emit(c, f, next) ==
    IF wlock = Nobody
    THEN /\ toShell' = IF sreader = "reading" THEN Append(toShell, f) ELSE toShell
         /\ IF Len(toShell') > PipeSize
            THEN task' = [task EXCEPT ![c] = "draining"] /\ wlock' = c
            ELSE task' = [task EXCEPT ![c] = next] /\ UNCHANGED wlock
    ELSE /\ task' = [task EXCEPT ![c] = "waiting"]
         /\ UNCHANGED <<toShell, wlock>>

After(c) == IF reply[c] = Nobody THEN "asking" ELSE "done"

(* A handler makes a request of its own: channel.request. *)
Ask(c) ==
    /\ Up /\ c \in Asking /\ task[c] = "running" /\ asked[c] = "no"
    /\ asked' = [asked EXCEPT ![c] = "open"]
    /\ Emit(c, Frame("ask", c, "params"), "asking")
    /\ UNCHANGED <<core, hung, reader, stop, reply, killed, toCore, shellVars>>

(* Its response has come. *)
Resume(c) ==
    /\ Up /\ task[c] = "asking" /\ asked[c] = "done"
    /\ task' = [task EXCEPT ![c] = "running"]
    /\ UNCHANGED <<core, hung, reader, stop, reply, asked, wlock, killed>>
    /\ UNCHANGED <<toCore, toShell, shellVars>>

(* dispatch_request: the handler's result, or an error in its place        *)
(* whatever it raised.  app.shutdown sets the event before its response is *)
(* written.                                                                *)
Respond(c, body) ==
    /\ Up /\ task[c] = "running"
    /\ c = Down => body = "result"
    /\ reply' = [reply EXCEPT ![c] = body]
    /\ stop' = (stop \/ c = Down)
    /\ Emit(c, Frame("response", c, body), "done")
    /\ UNCHANGED <<core, hung, reader, asked, killed, toCore, shellVars>>

(* A task that waited for _write_lock has it. *)
WriteTurn(c) ==
    /\ Up /\ task[c] = "waiting" /\ wlock = Nobody
    /\ Emit(c, IF reply[c] = Nobody THEN Frame("ask", c, "params")
                                    ELSE Frame("response", c, reply[c]), After(c))
    /\ UNCHANGED <<core, hung, reader, stop, reply, asked, killed, toCore, shellVars>>

Drained(c) ==
    /\ Up /\ task[c] = "draining" /\ Len(toShell) <= PipeSize
    /\ task' = [task EXCEPT ![c] = After(c)] /\ wlock' = Nobody
    /\ UNCHANGED <<core, hung, reader, stop, reply, asked, killed, toCore, toShell, shellVars>>

(* serve goes on after the event: the reader and every task are cancelled. *)
ServeReturns ==
    /\ Up /\ stop
    /\ core' = "closing"
    /\ reader' = IF reader = "reading" THEN "ended" ELSE reader
    /\ task' = [c \in Calls |-> IF Live(c) THEN "cancelled" ELSE task[c]]
    /\ wlock' = Nobody
    /\ UNCHANGED <<hung, stop, reply, asked, killed, toCore, toShell, shellVars>>

(* A mutant: stdout is closed without waiting for the flush. *)
ClosedUnflushed ==
    /\ core = "closing" /\ ~hung
    /\ core' = "leaving" /\ toShell' = SubSeq(toShell, 1, PipeSize - 1)
    /\ UNCHANGED <<hung, reader, stop, task, reply, asked, wlock, killed, toCore, shellVars>>

(* aclose: stdout is flushed, then closed; stdin stays open until the      *)
(* interpreter has ended.                                                  *)
Closed ==
    /\ core = "closing" /\ ~hung /\ Len(toShell) <= PipeSize
    /\ core' = "leaving"
    /\ UNCHANGED <<hung, reader, stop, task, reply, asked, wlock, killed>>
    /\ UNCHANGED <<toCore, toShell, shellVars>>

Exit ==
    /\ core = "leaving" /\ ~hung
    /\ core' = "exited" /\ toCore' = <<>>
    /\ UNCHANGED <<hung, reader, stop, task, reply, asked, wlock, killed, toShell, shellVars>>

(* The process dies: what had not reached the pipe is lost. *)
Dies ==
    /\ core # "exited"
    /\ core' = "exited" /\ killed' = TRUE
    /\ toCore' = <<>>
    /\ \E n \in 0 .. Len(toShell) : toShell' = SubSeq(toShell, 1, n)
    /\ reader' = "ended" /\ wlock' = Nobody
    /\ task' = [c \in Calls |-> IF Live(c) THEN "cancelled" ELSE task[c]]
    /\ UNCHANGED <<hung, stop, reply, asked, shellVars>>

Crash == MayCrash /\ Dies

(* A mutant: a process that overruns is only killed once it is closing. *)
KillClosing == ~held /\ core = "closing" /\ ~hung /\ Dies

(* CoreProcess::shutdown: the grace period is over. *)
Kill == ~held /\ Dies

Hang ==
    /\ MayHang /\ ~hung /\ core # "exited"
    /\ hung' = TRUE
    /\ UNCHANGED <<core, reader, stop, task, reply, asked, wlock, killed>>
    /\ UNCHANGED <<toCore, toShell, shellVars>>

-----------------------------------------------------------------------------
ShellStep == ShellReads \/ ShellReaderEnds \/ ShellReaderAborted \/ BridgeTakes \/ BridgeEnds
CallStep(c) == Write(c) \/ WriteBlocks(c) \/ WriteFails(c) \/ Timeout(c)
BridgeWrites == Write(Bridge) \/ WriteBlocks(Bridge) \/ WriteFails(Bridge)
TaskStep(c) == Resume(c) \/ (\E b \in Bodies : Respond(c, b)) \/ WriteTurn(c) \/ Drained(c)
ServerStep == CoreReads \/ CoreReadsEOF \/ ServeReturns \/ Closed \/ Exit

Next ==
    \/ \E c \in Calls : Obtain(c) \/ Issue(c) \/ CallStep(c) \/ Ask(c) \/ TaskStep(c)
    \/ ShellStep \/ BridgeWrites \/ BridgeAborted \/ Release
    \/ ServerStep \/ Crash \/ Kill \/ Hang

Spec == Init /\ [][Next]_vars

(* Both schedulers run what is ready, handlers end, deadlines expire, a    *)
(* caller that has the channel uses it, and an aborted bridge is followed  *)
(* by app.shutdown.  Nothing makes a caller call, a handler ask, or the    *)
(* Core crash or hang.                                                     *)
Fairness ==
    /\ \A c \in Calls :
        /\ WF_vars(CallStep(c)) /\ WF_vars(TaskStep(c))
        /\ WF_vars((call[c] = "obtained" \/ bridge = "aborted") /\ Issue(c))
    /\ WF_vars(ShellReads) /\ WF_vars(ShellReaderEnds) /\ WF_vars(ShellReaderAborted)
    /\ WF_vars(BridgeTakes) /\ WF_vars(BridgeEnds) /\ WF_vars(BridgeWrites)
    /\ WF_vars(Release) /\ WF_vars(ServerStep) /\ WF_vars(Kill)

FairSpec == Spec /\ Fairness

-----------------------------------------------------------------------------
(* Properties. *)

(* What either pipe may carry. *)
ShellFrames == [kind : {"request", "answer", "torn"}, call : Calls, body : {"params", "result"}]
CoreFrames == [kind : {"response", "ask"}, call : Calls, body : Bodies \cup {"params"}]

(* Every variable keeps its type. *)
TypeOK ==
    /\ call \in [Calls -> {"idle", "obtained", "sending", "awaiting"} \cup Ended]
    /\ pending \subseteq Calls /\ got \in [Calls -> Bodies \cup {Nobody}]
    /\ swriter \in Writers \cup {Nobody}
    /\ sreader \in {"reading", "ended", "aborted"} /\ held \in BOOLEAN
    /\ bridge \in {"up", "gone", "aborted"} /\ asks \in Seq(Calls) /\ answering \in Calls \cup {Nobody}
    /\ toCore \in Seq(ShellFrames) /\ toShell \in Seq(CoreFrames)
    /\ core \in {"serving", "closing", "leaving", "exited"} /\ hung \in BOOLEAN
    /\ reader \in {"reading", "ended", "dead"} /\ stop \in BOOLEAN
    /\ task \in [Calls -> {"none", "running", "asking", "waiting", "draining", "done", "cancelled"}]
    /\ reply \in [Calls -> Bodies \cup {Nobody}] /\ asked \in [Calls -> {"no", "open", "done"}]
    /\ wlock \in Calls \cup {Nobody}
    /\ late \subseteq Calls /\ killed \in BOOLEAN

(* A request that is answered was handled by the Core and received the     *)
(* response of its own handler, however many were in flight (doc 10 §7).   *)
Correlated == \A c \in Calls : call[c] = "answered" => reply[c] # Nobody /\ got[c] = reply[c]

(* The pending map is exact: no entry outlives its request, and while the  *)
(* reader runs none is missing, so no waiter is forgotten                  *)
(* (ipc.rs:133-149).                                                       *)
Tracked ==
    /\ pending \subseteq {c \in Calls : Open(c)}
    /\ sreader = "reading" =>
         \A c \in Calls : call[c] \in {"sending", "awaiting"} => c \in pending

(* Answers reach those who asked: each request gets its own handler's, and *)
(* the map that leads them there is exact.                                 *)
AnswersReach == TypeOK /\ Correlated /\ Tracked

(* What the Core finished writing before it stopped serving reaches the    *)
(* shell before the end of its stdout, unless the process is killed.       *)
WrittenIsDelivered ==
    \A c \in Calls : call[c] = "closed" /\ ~killed => task[c] # "done"

(* Nothing of a request runs on once the Core has stopped serving          *)
(* (doc 09 §11), and its write lock is only ever held by a draining task.  *)
CleanExit ==
    /\ core # "serving" => \A c \in Calls : ~Live(c)
    /\ wlock # Nobody => task[wlock] = "draining"

(* The Core leaves nothing behind when it stops serving: neither a         *)
(* finished answer on its way nor a handler at work.                       *)
Delivered == WrittenIsDelivered /\ CleanExit

(* A request ends, answered or with an error.  Excepted are those caught   *)
(* by a Core that no longer reads, unless a deadline is running, and those *)
(* without deadline made after the shell's reader had ended, which nothing *)
(* fails any more (ipc.rs:248).                                            *)
CallsEnd ==
    \A c \in Calls :
        Open(c) ~> \/ ~Open(c)
                   \/ (hung \/ reader = "dead") /\ (c \in Timed => call[c] # "awaiting")
                   \/ c \in late \ Timed

(* A handler that asked the shell something goes on or is cancelled: the   *)
(* Core is never left hanging (permissions.rs:235).                        *)
AsksEnd == \A c \in Calls : task[c] = "asking" ~> task[c] # "asking" \/ hung \/ reader = "dead"

(* Nobody waits for ever at either end: not the shell for the Core's       *)
(* answer nor a handler of the Core for the shell's.                       *)
EveryoneAnswered == CallsEnd /\ AsksEnd

(* Once the request app.shutdown has ended the process goes, killed if it  *)
(* overruns the grace period (core_process.rs:210).                        *)
StopsAfterAck == call[Down] \in Ended ~> core = "exited"

(* "Shutdown: send app.shutdown, await flush with timeout, then terminate; *)
(* force-kill if unresponsive" (docs/08_TAURI_ARCHITECTURE.md:100).        *)
StopsForGood == call[Down] # "idle" ~> core = "exited"
=============================================================================
