--------------------------- MODULE ChannelProofs ---------------------------
(***************************************************************************)
(* What the channel delivers, for any number of requests, pipes of any     *)
(* size, and a Core that dies or hangs anywhere.                           *)
(*                                                                         *)
(* A request is written once, so it is read once, so its handler runs once *)
(* and its reply, once given, is the only one (RequestInv).  A response in *)
(* the pipe says what the reply says (ResponseInv), and as long as somebody*)
(* waits for a response that was written, it is in the pipe (OnItsWay).    *)
(* The shell's reader gives up only when the Core has left or nobody is    *)
(* attached any more (ReaderInv).                                          *)
(***************************************************************************)
EXTENDS Channel, SequenceTheorems, TLAPS

IsRequest(f, c) == f.kind = "request" /\ f.call = c
IsResponse(f, c) == f.kind = "response" /\ f.call = c

(* A request that was not written or not read has no task, and comes once; *)
(* a handler at work has not replied.                                      *)
RequestInv(c) ==
    /\ call[c] \in {"idle", "obtained", "sending"} =>
          task[c] = "none" /\ \A i \in DOMAIN toCore : ~ IsRequest(toCore[i], c)
    /\ \A i, j \in DOMAIN toCore :
          IsRequest(toCore[i], c) => task[c] = "none" /\ (IsRequest(toCore[j], c) => i = j)
    /\ task[c] \in {"none", "running", "asking"} => reply[c] = Nobody
    /\ task[c] = "done" => reply[c] # Nobody

ResponseInv ==
    \A i \in DOMAIN toShell :
        toShell[i].kind = "response" =>
            reply[toShell[i].call] # Nobody /\ toShell[i].body = reply[toShell[i].call]

OnItsWay(c) ==
    task[c] \in {"draining", "done"} /\ reply[c] # Nobody /\ c \in pending
        /\ sreader = "reading" /\ ~killed
    => \E i \in DOMAIN toShell : IsResponse(toShell[i], c)

ReaderInv ==
    /\ sreader = "ended" => core \in {"leaving", "exited"}
    /\ sreader = "aborted" => ~ Attached
    /\ \A c \in Calls : call[c] = "closed" => sreader = "ended"

BridgeInv == swriter = Bridge => answering # Nobody

IInv ==
    /\ TypeOK /\ Correlated /\ Tracked /\ WrittenIsDelivered /\ CleanExit
    /\ ResponseInv /\ ReaderInv /\ BridgeInv
    /\ \A c \in Calls : RequestInv(c) /\ OnItsWay(c)

(* Every step is one of the shell or one of the Core. *)
ShellMoves ==
    \/ \E c \in Calls : Obtain(c) \/ Issue(c) \/ CallStep(c)
    \/ ShellStep \/ BridgeWrites \/ BridgeAborted \/ Release

CoreMoves ==
    \/ \E c \in Calls : Ask(c) \/ TaskStep(c)
    \/ ServerStep \/ Crash \/ Kill \/ Hang

(* The initial state satisfies the invariant.                              *)
LEMMA InitHolds == Init => IInv
<1> SUFFICES ASSUME Init PROVE IInv  OBVIOUS
<1> USE ChannelAssumption
<1>1. TypeOK
  <2>1. held \in BOOLEAN /\ hung \in BOOLEAN /\ stop \in BOOLEAN /\ killed \in BOOLEAN
    BY DEF Init
  <2> QED BY <2>1 DEF Init, TypeOK
<1>2. Correlated /\ Tracked /\ WrittenIsDelivered /\ CleanExit
  BY DEF Init, Correlated, Tracked, WrittenIsDelivered, CleanExit, Open, Ended
<1>3. ResponseInv /\ ReaderInv /\ BridgeInv
  BY DEF Init, ResponseInv, ReaderInv, BridgeInv
<1>4. ASSUME NEW c \in Calls PROVE RequestInv(c) /\ OnItsWay(c)
  BY DEF Init, RequestInv, OnItsWay
<1> QED BY <1>1, <1>2, <1>3, <1>4 DEF IInv

-----------------------------------------------------------------------------
(* Types. *)

(* What is put behind a pipe's frames, or taken from its front, leaves a   *)
(* pipe of frames.                                                         *)
LEMMA PipesKeepFrames ==
    ASSUME NEW F, NEW s \in Seq(F)
    PROVE  /\ \A f \in F : Append(s, f) \in Seq(F)
           /\ s # <<>> => Head(s) \in F /\ Tail(s) \in Seq(F)
           /\ \A n \in 0 .. Len(s) : SubSeq(s, 1, n) \in Seq(F)
           /\ <<>> \in Seq(F)
<1>1. \A n \in 0 .. Len(s) : SubSeq(s, 1, n) \in Seq(F)
  <2> SUFFICES ASSUME NEW n \in 0 .. Len(s) PROVE SubSeq(s, 1, n) \in Seq(F)
    OBVIOUS
  <2>1. \A i \in 1 .. n : s[i] \in F  OBVIOUS
  <2> QED BY <2>1, SubSeqProperties
<1> QED BY <1>1

(* The shell's steps keep the types of its variables.                      *)
LEMMA ShellTypes ==
    ASSUME TypeOK, BridgeInv, ResponseInv, ShellMoves
    PROVE  TypeOK'
<1> USE ChannelAssumption
<1>0. toCore \in Seq(ShellFrames) /\ toShell \in Seq(CoreFrames)
  BY DEF TypeOK
<1>1. ASSUME NEW c \in Calls, Obtain(c) \/ Issue(c) \/ Timeout(c) PROVE TypeOK'
  <2>1. UNCHANGED <<got, swriter, sreader, held, bridge, asks, answering, toCore, toShell,
                    core, hung, reader, stop, task, reply, asked, wlock, killed>>
    BY <1>1 DEF Obtain, Issue, Timeout, coreVars
  <2>2. /\ \E where \in {"obtained", "sending", "timeout"} : call' = [call EXCEPT ![c] = where]
        /\ pending' \in {pending, pending \cup {c}, pending \ {c}}
        /\ late' \in {late, late \cup {c}}
    BY <1>1 DEF Obtain, Issue, Timeout
  <2> QED BY <2>1, <2>2 DEF TypeOK, Ended
<1>2. ASSUME NEW w \in Writers, Write(w) \/ WriteBlocks(w) \/ WriteFails(w) PROVE TypeOK'
  <2>1. Wants(w) => Outgoing(w) \in ShellFrames
    BY DEF Wants, Outgoing, Frame, Writers, ShellFrames, TypeOK
  <2>2. toCore' \in Seq(ShellFrames)
    BY <1>0, <1>2, <2>1, PipesKeepFrames DEF Write, WriteBlocks, WriteFails
  <2>3. UNCHANGED <<got, sreader, held, bridge, asks, late, toShell,
                    core, hung, reader, stop, task, reply, asked, wlock, killed>>
    BY <1>2 DEF Write, WriteBlocks, WriteFails, coreVars
  <2>4. /\ swriter' \in {Nobody, w} /\ answering' \in {Nobody, answering}
        /\ \/ UNCHANGED call
           \/ w \in Calls /\ \E where \in {"awaiting", "closed", "failed"} :
                               call' = [call EXCEPT ![w] = where]
        /\ pending' \in {pending, pending \ {w}}
    BY <1>2 DEF Write, WriteBlocks, WriteFails, Writers
  <2> QED BY <2>2, <2>3, <2>4 DEF TypeOK, Ended, Writers
<1>3. CASE ShellReads
  <2>1. Head(toShell) \in CoreFrames /\ toShell' \in Seq(CoreFrames)
    BY <1>0, <1>3, PipesKeepFrames DEF ShellReads
  <2>2. CASE RouteResponse(Head(toShell))
    <3>1. UNCHANGED <<swriter, sreader, held, bridge, asks, answering, late, toCore,
                      core, hung, reader, stop, task, reply, asked, wlock, killed>>
      BY <1>3, <2>2 DEF ShellReads, RouteResponse, coreVars
    <3>2. Head(toShell).body \in Bodies
      <4>1. toShell # <<>> /\ Head(toShell) = toShell[1] /\ 1 \in DOMAIN toShell
        BY <1>0, <1>3 DEF ShellReads
      <4> QED BY <2>1, <2>2, <4>1 DEF ResponseInv, RouteResponse, TypeOK, CoreFrames
    <3>3. /\ pending' \subseteq Calls
          /\ \/ UNCHANGED <<call, got>>
             \/ /\ call' = [call EXCEPT ![Head(toShell).call] = "answered"]
                /\ got' = [got EXCEPT ![Head(toShell).call] = Head(toShell).body]
      BY <2>2 DEF RouteResponse, TypeOK
    <3>4. got \in [Calls -> Bodies \cup {Nobody}]
      BY DEF TypeOK
    <3>5. got' \in [Calls -> Bodies \cup {Nobody}]
      BY <3>2, <3>3, <3>4
    <3>6. call' = call \/ call' = [call EXCEPT ![Head(toShell).call] = "answered"]
      BY <3>3
    <3> QED BY <2>1, <3>1, <3>3, <3>5, <3>6 DEF TypeOK, Ended
  <2>3. CASE RouteAsk(Head(toShell))
    <3>1. asks' \in Seq(Calls)
      BY <2>1, <2>3, PipesKeepFrames DEF TypeOK, RouteAsk, CoreFrames
    <3>2. UNCHANGED <<call, pending, got, swriter, sreader, held, bridge, answering, late, toCore,
                      core, hung, reader, stop, task, reply, asked, wlock, killed>>
      BY <1>3, <2>3 DEF ShellReads, RouteAsk, coreVars
    <3> QED BY <2>1, <3>1, <3>2 DEF TypeOK
  <2> QED BY <1>3, <2>2, <2>3 DEF ShellReads
<1>4. CASE ShellReaderEnds
  BY <1>4 DEF TypeOK, ShellReaderEnds, coreVars, Ended
<1>5. CASE ShellReaderAborted
  BY <1>5 DEF TypeOK, ShellReaderAborted, coreVars
<1>6. CASE BridgeTakes
  <2>1. Head(asks) \in Calls /\ Tail(asks) \in Seq(Calls)
    BY <1>6, PipesKeepFrames DEF TypeOK, BridgeTakes
  <2> QED BY <1>6, <2>1 DEF TypeOK, BridgeTakes, coreVars
<1>7. CASE BridgeEnds  BY <1>7 DEF TypeOK, BridgeEnds, coreVars
<1>8. CASE BridgeAborted
  <2>1. swriter = Bridge => Frame("torn", answering, "result") \in ShellFrames
    BY DEF BridgeInv, TypeOK, Frame, ShellFrames
  <2>2. toCore' \in Seq(ShellFrames)
    BY <1>0, <1>8, <2>1, PipesKeepFrames DEF BridgeAborted
  <2> QED BY <1>8, <2>2 DEF TypeOK, BridgeAborted, coreVars
<1>9. CASE Release
  <2>1. held' \in BOOLEAN  BY <1>9 DEF Release
  <2>2. UNCHANGED <<call, pending, got, swriter, sreader, bridge, asks, answering, late,
                    toCore, toShell, core, hung, reader, stop, task, reply, asked, wlock, killed>>
    BY <1>9 DEF Release, coreVars
  <2> QED BY <2>1, <2>2 DEF TypeOK
<1> QED BY <1>1, <1>2, <1>3, <1>4, <1>5, <1>6, <1>7, <1>8, <1>9
        DEF ShellMoves, CallStep, ShellStep, BridgeWrites, Writers

(* A frame the Core writes enters the pipe or waits, of its kind.          *)
LEMMA EmitTypes ==
    ASSUME TypeOK, NEW c \in Calls, NEW f \in CoreFrames,
           NEW next \in {"asking", "done"}, Emit(c, f, next)
    PROVE  /\ toShell' \in Seq(CoreFrames)
           /\ wlock' \in Calls \cup {Nobody}
           /\ task' \in [Calls -> {"none", "running", "asking", "waiting", "draining",
                                   "done", "cancelled"}]
<1>1. toShell \in Seq(CoreFrames)  BY DEF TypeOK
<1>2. toShell' \in Seq(CoreFrames)  BY <1>1, PipesKeepFrames DEF Emit
<1> QED BY <1>2 DEF Emit, TypeOK

(* The Core's steps keep the types of its variables.                       *)
LEMMA CoreTypes ==
    ASSUME TypeOK, CoreMoves
    PROVE  TypeOK'
<1> USE ChannelAssumption
<1>0. toCore \in Seq(ShellFrames) /\ toShell \in Seq(CoreFrames)
  BY DEF TypeOK
<1>1. ASSUME NEW c \in Calls, Ask(c) PROVE TypeOK'
  <2>1. Frame("ask", c, "params") \in CoreFrames  BY DEF Frame, CoreFrames
  <2> QED BY <1>1, <2>1, EmitTypes DEF TypeOK, Ask, shellVars
<1>2. ASSUME NEW c \in Calls, NEW b \in Bodies, Respond(c, b) PROVE TypeOK'
  <2>1. Frame("response", c, b) \in CoreFrames  BY DEF Frame, CoreFrames
  <2> QED BY <1>2, <2>1, EmitTypes DEF TypeOK, Respond, shellVars
<1>3. ASSUME NEW c \in Calls, WriteTurn(c) PROVE TypeOK'
  <2> DEFINE f == IF reply[c] = Nobody THEN Frame("ask", c, "params")
                                       ELSE Frame("response", c, reply[c])
  <2>1. f \in CoreFrames  BY DEF Frame, CoreFrames, TypeOK
  <2>2. After(c) \in {"asking", "done"} /\ Emit(c, f, After(c))  BY <1>3 DEF WriteTurn, After
  <2> HIDE DEF f
  <2> QED BY <1>3, <2>1, <2>2, EmitTypes DEF TypeOK, WriteTurn, shellVars
<1>4. ASSUME NEW c \in Calls, Resume(c) \/ Drained(c) PROVE TypeOK'
  <2>1. /\ UNCHANGED <<core, hung, reader, stop, reply, asked, killed, toCore, toShell, shellVars>>
        /\ wlock' \in {wlock, Nobody}
        /\ \E where \in {"running", "asking", "done"} : task' = [task EXCEPT ![c] = where]
    BY <1>4 DEF Resume, Drained, After
  <2> QED BY <2>1 DEF TypeOK, shellVars
<1>5. CASE CoreReads
  <2>1. Head(toCore) \in ShellFrames /\ toCore' \in Seq(ShellFrames)
    BY <1>0, <1>5, PipesKeepFrames DEF CoreReads
  <2> QED BY <1>5, <2>1 DEF TypeOK, CoreReads, shellVars, ShellFrames
<1>6. CASE CoreReadsEOF \/ ServeReturns \/ Closed \/ Hang
  <2>1. /\ UNCHANGED <<reply, asked, killed, toCore, toShell, shellVars>>
        /\ core' \in {core, "closing", "leaving"} /\ reader' \in {reader, "ended"}
        /\ wlock' \in {wlock, Nobody}
        /\ \/ task' = task
           \/ task' = [c \in Calls |-> IF Live(c) THEN "cancelled" ELSE task[c]]
    BY <1>6 DEF CoreReadsEOF, ServeReturns, Closed, Hang
  <2>2. stop' \in BOOLEAN /\ hung' \in BOOLEAN
    BY <1>6 DEF TypeOK, CoreReadsEOF, ServeReturns, Closed, Hang
  <2>3. /\ task' \in [Calls -> {"none", "running", "asking", "waiting", "draining", "done", "cancelled"}]
        /\ core' \in {"serving", "closing", "leaving", "exited"}
        /\ reader' \in {"reading", "ended", "dead"} /\ wlock' \in Calls \cup {Nobody}
    BY <2>1 DEF TypeOK
  <2>4. UNCHANGED <<reply, asked, killed, toCore, toShell, shellVars>>  BY <2>1
  <2> QED BY <2>2, <2>3, <2>4 DEF TypeOK, shellVars
<1>7. CASE Exit  BY <1>7 DEF TypeOK, Exit, shellVars
<1>8. CASE Dies
  <2>1. toShell' \in Seq(CoreFrames)  BY <1>0, <1>8, PipesKeepFrames DEF Dies
  <2>2. /\ UNCHANGED <<hung, stop, reply, asked, shellVars>> /\ toCore' = <<>>
        /\ core' = "exited" /\ reader' = "ended" /\ wlock' = Nobody
        /\ task' = [c \in Calls |-> IF Live(c) THEN "cancelled" ELSE task[c]]
    BY <1>8 DEF Dies
  <2>3. killed' \in BOOLEAN  BY <1>8 DEF Dies
  <2> QED BY <2>1, <2>2, <2>3 DEF TypeOK, shellVars
<1> QED BY <1>1, <1>2, <1>3, <1>4, <1>5, <1>6, <1>7, <1>8
        DEF CoreMoves, TaskStep, ServerStep, Crash, Kill

-----------------------------------------------------------------------------
(* Who is waited for. *)

(* The Core's steps leave the shell alone, and it is on its way out for    *)
(* good.                                                                   *)
LEMMA CoreSide ==
    ASSUME TypeOK, CoreMoves
    PROVE  /\ UNCHANGED shellVars
           /\ core \in {"leaving", "exited"} => core' \in {"leaving", "exited"}
<1>1. CoreMoves => UNCHANGED shellVars
  BY DEF CoreMoves, TaskStep, ServerStep, Crash, Kill, Dies, Ask, Resume, Respond, WriteTurn,
         Drained, CoreReads, CoreReadsEOF, ServeReturns, Closed, Exit, Hang
<1>2. core \in {"leaving", "exited"} => core' \in {"leaving", "exited"}
  BY DEF CoreMoves, TaskStep, ServerStep, Crash, Kill, Dies, Ask, Resume, Respond, WriteTurn,
         Drained, CoreReads, CoreReadsEOF, ServeReturns, Closed, Exit, Hang, Up
<1> QED BY <1>1, <1>2

(* The shell's steps leave the Core alone.                                 *)
LEMMA ShellSide == ShellMoves => UNCHANGED coreVars
BY DEF ShellMoves, CallStep, ShellStep, BridgeWrites, Obtain, Issue, Write, WriteBlocks,
       WriteFails, Timeout, ShellReads, ShellReaderEnds, ShellReaderAborted, BridgeTakes,
       BridgeEnds, BridgeAborted, Release

(* The steps that change what becomes of a request, or end the reader.     *)
CallMoves ==
    \/ \E c \in Calls : Obtain(c) \/ Issue(c) \/ Write(c) \/ WriteFails(c) \/ Timeout(c)
    \/ ShellReads /\ RouteResponse(Head(toShell))
    \/ ShellReaderEnds \/ ShellReaderAborted

(* The shell's other steps leave both alone.                               *)
LEMMA OtherShellMoves ==
    ASSUME ShellMoves, ~ CallMoves
    PROVE  UNCHANGED <<call, pending, got, sreader>>
<1>1. ASSUME NEW c \in Calls, WriteBlocks(c) \/ WriteBlocks(Bridge)
      PROVE  UNCHANGED <<call, pending, got, sreader>>
  BY <1>1 DEF WriteBlocks
<1>2. CASE Write(Bridge) \/ WriteBlocks(Bridge) \/ WriteFails(Bridge)
  BY <1>2 DEF Write, WriteBlocks, WriteFails
<1>3. CASE ShellReads /\ RouteAsk(Head(toShell))  BY <1>3 DEF ShellReads, RouteAsk
<1>4. CASE BridgeTakes \/ BridgeEnds \/ BridgeAborted \/ Release
  BY <1>4 DEF BridgeTakes, BridgeEnds, BridgeAborted, Release
<1> QED BY <1>1, <1>2, <1>3, <1>4
        DEF ShellMoves, CallMoves, CallStep, ShellStep, BridgeWrites, ShellReads

(* The map of pending requests stays exact.                                *)
LEMMA TrackedStep ==
    ASSUME TypeOK, Tracked, ShellMoves
    PROVE  Tracked'
<1>1. CASE ~ CallMoves  BY <1>1, OtherShellMoves DEF Tracked, Open
<1>2. ASSUME NEW c \in Calls, Obtain(c) \/ Issue(c) \/ Timeout(c) PROVE Tracked'
  BY <1>2, ChannelAssumption DEF TypeOK, Tracked, Open, Ended, Obtain, Issue, Timeout
<1>3. ASSUME NEW c \in Calls, Write(c) PROVE Tracked'
  BY <1>3, ChannelAssumption DEF TypeOK, Tracked, Open, Ended, Write, Wants
<1>4. ASSUME NEW c \in Calls, WriteFails(c) PROVE Tracked'
  BY <1>4, ChannelAssumption DEF TypeOK, Tracked, Open, Ended, WriteFails, Wants
<1>5. CASE ShellReads /\ RouteResponse(Head(toShell))
  BY <1>5 DEF TypeOK, Tracked, Open, Ended, ShellReads, RouteResponse
<1>6. CASE ShellReaderEnds  BY <1>6 DEF Tracked, ShellReaderEnds
<1>7. CASE ShellReaderAborted  BY <1>7 DEF Tracked, Open, ShellReaderAborted
<1> QED BY <1>1, <1>2, <1>3, <1>4, <1>5, <1>6, <1>7 DEF CallMoves

(* Whoever drops the last hold on the channel leaves nobody behind, and    *)
(* nobody can take hold of it again.                                       *)
LEMMA DetachedForGood ==
    ASSUME TypeOK, ShellMoves, ~ Attached
    PROVE  ~ Attached'
<1> USE ChannelAssumption
<1>0. ~ held /\ bridge # "up" /\ \A c \in Calls : ~ Open(c)  BY DEF Attached
<1>1. \A c \in Calls : ~ Obtain(c) /\ ~ Issue(c) /\ ~ Write(c) /\ ~ WriteFails(c) /\ ~ Timeout(c)
  BY <1>0 DEF Open, Ended, Obtain, Issue, Write, WriteFails, Timeout, Wants, TypeOK
<1>2. ~ held' /\ bridge' # "up"
  <2>1. ShellMoves => held' = held \/ held' = FALSE
    BY DEF ShellMoves, CallStep, ShellStep, BridgeWrites, Obtain, Issue, Write, WriteBlocks,
           WriteFails, Timeout, ShellReads, ShellReaderEnds, ShellReaderAborted, BridgeTakes,
           BridgeEnds, BridgeAborted, Release
  <2>2. ShellMoves => bridge' = bridge \/ bridge' # "up"
    BY DEF ShellMoves, CallStep, ShellStep, BridgeWrites, Obtain, Issue, Write, WriteBlocks,
           WriteFails, Timeout, ShellReads, ShellReaderEnds, ShellReaderAborted, BridgeTakes,
           BridgeEnds, BridgeAborted, Release
  <2> QED BY <1>0, <2>1, <2>2
<1>3. \A c \in Calls : ~ Open(c)'
  <2>1. CASE ~ CallMoves  BY <1>0, <2>1, OtherShellMoves DEF Open
  <2>2. CASE ShellReads /\ RouteResponse(Head(toShell))
    BY <1>0, <2>2 DEF Open, Ended, ShellReads, RouteResponse, TypeOK
  <2>3. CASE ShellReaderEnds  BY <1>0, <2>3 DEF Open, Ended, ShellReaderEnds, TypeOK
  <2>4. CASE ShellReaderAborted  BY <1>0, <2>4 DEF Open, ShellReaderAborted
  <2> QED BY <1>1, <2>1, <2>2, <2>3, <2>4 DEF CallMoves
<1> QED BY <1>2, <1>3 DEF Attached

(* The shell's reader gives up on none but those a Core that left, or that *)
(* nobody is attached to, can no longer answer.                            *)
LEMMA ReaderStep ==
    ASSUME TypeOK, Tracked, ReaderInv, ShellMoves
    PROVE  ReaderInv'
<1> USE ChannelAssumption
<1>0. core' = core  BY ShellSide DEF coreVars
<1>1. sreader' = "aborted" => ~ Attached'
  <2>1. CASE sreader = "aborted"  BY <2>1, DetachedForGood DEF ReaderInv
  <2>2. CASE sreader # "aborted" /\ sreader' = "aborted"
    <3>1. ShellReaderAborted
      BY <2>2 DEF ShellMoves, CallStep, ShellStep, BridgeWrites, Obtain, Issue, Write,
           WriteBlocks, WriteFails, Timeout, ShellReads, ShellReaderEnds, BridgeTakes,
           BridgeEnds, BridgeAborted, Release
    <3> QED BY <3>1, DetachedForGood DEF ShellReaderAborted
  <2> QED BY <2>1, <2>2
<1>2. sreader' = "ended" => core' \in {"leaving", "exited"}
  <2>1. CASE sreader' = sreader  BY <1>0, <2>1 DEF ReaderInv
  <2>2. CASE ShellReaderEnds  BY <1>0, <2>2 DEF ShellReaderEnds
  <2>3. CASE ShellReaderAborted  BY <2>3 DEF ShellReaderAborted
  <2> QED BY <2>1, <2>2, <2>3
          DEF ShellMoves, CallStep, ShellStep, BridgeWrites, Obtain, Issue, Write,
           WriteBlocks, WriteFails, Timeout, ShellReads, BridgeTakes,
           BridgeEnds, BridgeAborted, Release
<1>3. \A c \in Calls : call'[c] = "closed" => sreader' = "ended"
  <2>1. CASE ~ CallMoves  BY <2>1, OtherShellMoves DEF ReaderInv
  <2>2. ASSUME NEW c \in Calls, Obtain(c) \/ Issue(c) \/ Timeout(c) \/ WriteFails(c)
        PROVE  \A d \in Calls : call'[d] = "closed" => sreader' = "ended"
    BY <2>2 DEF TypeOK, ReaderInv, Obtain, Issue, Timeout, WriteFails
  <2>3. ASSUME NEW c \in Calls, Write(c)
        PROVE  \A d \in Calls : call'[d] = "closed" => sreader' = "ended"
    <3>1. sreader' = sreader /\ call[c] = "sending"
      BY <2>3 DEF Write, Wants
    <3>2. c \notin pending => sreader = "ended"
      <4>1. call[c] = "sending" => Attached  BY DEF Attached, Open, Ended
      <4> QED BY <3>1, <4>1 DEF Tracked, ReaderInv, TypeOK
    <3> QED BY <2>3, <3>1, <3>2 DEF TypeOK, ReaderInv, Write
  <2>4. CASE ShellReads /\ RouteResponse(Head(toShell))
    BY <2>4 DEF TypeOK, ReaderInv, ShellReads, RouteResponse
  <2>5. CASE ShellReaderEnds  BY <2>5 DEF ShellReaderEnds
  <2>6. CASE ShellReaderAborted  BY <2>6 DEF ReaderInv, ShellReaderAborted
  <2> QED BY <2>1, <2>2, <2>3, <2>4, <2>5, <2>6 DEF CallMoves
<1> QED BY <1>1, <1>2, <1>3 DEF ReaderInv

(* The bridge keeps the lock only while it has an answer to write.         *)
LEMMA BridgeStep ==
    ASSUME TypeOK, BridgeInv, ShellMoves
    PROVE  BridgeInv'
<1> USE ChannelAssumption
<1>1. ASSUME NEW w \in Writers, Write(w) \/ WriteBlocks(w) \/ WriteFails(w) PROVE BridgeInv'
  BY <1>1 DEF BridgeInv, Write, WriteBlocks, WriteFails, Wants, Writers
<1>2. ASSUME NEW c \in Calls, Obtain(c) \/ Issue(c) \/ Timeout(c) PROVE BridgeInv'
  BY <1>2 DEF BridgeInv, Obtain, Issue, Timeout
<1>3. CASE ShellStep \/ BridgeAborted \/ Release
  BY <1>3, PipesKeepFrames
     DEF BridgeInv, ShellStep, ShellReads, ShellReaderEnds, ShellReaderAborted, BridgeTakes,
         BridgeEnds, BridgeAborted, Release, TypeOK
<1> QED BY <1>1, <1>2, <1>3 DEF ShellMoves, CallStep, BridgeWrites, Writers

(* An answered request has the reply of its own handler.                   *)
LEMMA CorrelatedStep ==
    ASSUME TypeOK, Correlated, ResponseInv, ShellMoves
    PROVE  Correlated'
<1> USE ChannelAssumption
<1>0. reply' = reply  BY ShellSide DEF coreVars
<1>1. CASE ~ CallMoves  BY <1>0, <1>1, OtherShellMoves DEF Correlated
<1>2. ASSUME NEW c \in Calls, Obtain(c) \/ Issue(c) \/ Timeout(c) \/ Write(c) \/ WriteFails(c)
      PROVE  Correlated'
  BY <1>0, <1>2 DEF TypeOK, Correlated, Obtain, Issue, Timeout, Write, WriteFails
<1>3. CASE ShellReads /\ RouteResponse(Head(toShell))
  <2> DEFINE f == Head(toShell)
  <2>1. f.kind = "response" /\ f = toShell[1] /\ 1 \in DOMAIN toShell
    BY <1>3 DEF ShellReads, RouteResponse, TypeOK
  <2>2. reply[f.call] # Nobody /\ f.body = reply[f.call]  BY <2>1 DEF ResponseInv
  <2> QED BY <1>0, <1>3, <2>2 DEF TypeOK, Correlated, ShellReads, RouteResponse
<1>4. CASE ShellReaderEnds \/ ShellReaderAborted
  BY <1>0, <1>4 DEF TypeOK, Correlated, ShellReaderEnds, ShellReaderAborted
<1> QED BY <1>1, <1>2, <1>3, <1>4 DEF CallMoves

-----------------------------------------------------------------------------
(* What a frame stands for. *)

(* What writing a frame leaves: the frame in the pipe, unless the shell's  *)
(* reader is gone, or the task waiting for its turn to write.              *)
LEMMA WhatEmitLeaves ==
    ASSUME TypeOK, NEW c \in Calls, NEW f \in CoreFrames,
           NEW next \in {"asking", "done"}, Emit(c, f, next)
    PROVE  \/ /\ \/ sreader = "reading" /\ toShell' = Append(toShell, f)
                 \/ sreader # "reading" /\ toShell' = toShell
              /\ \/ task' = [task EXCEPT ![c] = "draining"] /\ wlock' = c
                 \/ task' = [task EXCEPT ![c] = next] /\ wlock' = Nobody
           \/ /\ task' = [task EXCEPT ![c] = "waiting"]
              /\ toShell' = toShell /\ wlock' = wlock
BY DEF Emit

(* The steps by which a handler goes on: what it writes, and what it has   *)
(* replied by then.                                                        *)
Writing(c, f, next) ==
    /\ Up /\ Emit(c, f, next)
    /\ \/ /\ task[c] = "running" /\ reply' = reply
          /\ f = Frame("ask", c, "params") /\ next = "asking"
       \/ /\ task[c] = "running" /\ f.body \in Bodies
          /\ f = Frame("response", c, f.body) /\ next = "done"
          /\ reply' = [reply EXCEPT ![c] = f.body]
       \/ /\ task[c] = "waiting" /\ reply[c] = Nobody /\ reply' = reply
          /\ f = Frame("ask", c, "params") /\ next = "asking"
       \/ /\ task[c] = "waiting" /\ reply[c] # Nobody /\ reply' = reply
          /\ f = Frame("response", c, reply[c]) /\ next = "done"
    /\ UNCHANGED <<core, toCore, killed, shellVars>>

(* Asking, responding and taking one's turn are writing.                   *)
LEMMA TasksWrite ==
    ASSUME TypeOK, NEW c \in Calls,
           Ask(c) \/ (\E b \in Bodies : Respond(c, b)) \/ WriteTurn(c)
    PROVE  \E f \in CoreFrames, next \in {"asking", "done"} : Writing(c, f, next)
<1>1. CASE Ask(c)
  <2>1. Frame("ask", c, "params") \in CoreFrames  BY DEF Frame, CoreFrames
  <2> QED BY <1>1, <2>1 DEF Ask, Writing
<1>2. ASSUME NEW b \in Bodies, Respond(c, b)
      PROVE  \E f \in CoreFrames, next \in {"asking", "done"} : Writing(c, f, next)
  <2>1. Frame("response", c, b) \in CoreFrames /\ Frame("response", c, b).body = b
    BY DEF Frame, CoreFrames
  <2> QED BY <1>2, <2>1 DEF Respond, Writing
<1>3. CASE WriteTurn(c)
  <2>1. CASE reply[c] = Nobody
    <3>1. Frame("ask", c, "params") \in CoreFrames  BY DEF Frame, CoreFrames
    <3> QED BY <1>3, <2>1, <3>1 DEF WriteTurn, Writing, After
  <2>2. CASE reply[c] # Nobody
    <3>1. Frame("response", c, reply[c]) \in CoreFrames
      BY <2>2 DEF Frame, CoreFrames, TypeOK
    <3> QED BY <1>3, <2>2, <3>1 DEF WriteTurn, Writing, After
  <2> QED BY <2>1, <2>2
<1> QED BY <1>1, <1>2, <1>3

(* The shell's steps keep what is known of each request's frame.           *)
LEMMA ShellKeepsRequests ==
    ASSUME TypeOK, ShellMoves, NEW c \in Calls, RequestInv(c)
    PROVE  RequestInv(c)'
<1> USE ChannelAssumption
<1> DEFINE Early(where) == where \in {"idle", "obtained", "sending"}
<1>0. task' = task /\ reply' = reply  BY ShellSide DEF coreVars
<1>1. ASSUME Early(call'[c]) => Early(call[c]), toCore' = toCore PROVE RequestInv(c)'
  BY <1>0, <1>1 DEF RequestInv
<1>2. ASSUME Early(call'[c]) => Early(call[c]), NEW f, toCore' = Append(toCore, f), ~ IsRequest(f, c)
      PROVE  RequestInv(c)'
  <2>1. toCore \in Seq(ShellFrames)  BY DEF TypeOK
  <2>2. \A i \in DOMAIN toCore' : IsRequest(toCore'[i], c) => i \in DOMAIN toCore /\ toCore'[i] = toCore[i]
    BY <1>2, <2>1
  <2> QED BY <1>0, <1>2, <2>2 DEF RequestInv
<1>3. CASE Write(c)
  <2>1. toCore \in Seq(ShellFrames)  BY DEF TypeOK
  <2>2. toCore' = Append(toCore, Outgoing(c)) /\ call[c] = "sending" /\ ~ Early(call'[c])
    BY <1>3 DEF Write, Wants, TypeOK
  <2>3. \A i \in DOMAIN toCore' : IsRequest(toCore'[i], c) => i = Len(toCore) + 1
    BY <2>1, <2>2 DEF RequestInv
  <2> QED BY <1>0, <2>2, <2>3 DEF RequestInv
<1>4. ASSUME NEW d \in Calls, d # c, Write(d) PROVE RequestInv(c)'
  <2>1. ~ IsRequest(Outgoing(d), c)  BY <1>4 DEF IsRequest, Outgoing, Frame
  <2>2. call'[c] = call[c] /\ toCore' = Append(toCore, Outgoing(d))
    BY <1>4 DEF Write, TypeOK
  <2> QED BY <1>2, <2>1, <2>2
<1>5. CASE Write(Bridge)
  <2>1. ~ IsRequest(Outgoing(Bridge), c)  BY DEF IsRequest, Outgoing, Frame
  <2> QED BY <1>2, <1>5, <2>1 DEF Write
<1>6. CASE BridgeAborted
  <2>1. ~ IsRequest(Frame("torn", answering, "result"), c)  BY DEF IsRequest, Frame
  <2> QED BY <1>1, <1>2, <1>6, <2>1 DEF BridgeAborted
<1>7. ASSUME NEW d \in Calls, Obtain(d) \/ Issue(d) \/ Timeout(d) \/ WriteFails(d) \/ WriteBlocks(d)
      PROVE  RequestInv(c)'
  BY <1>1, <1>7 DEF Obtain, Issue, Timeout, WriteFails, WriteBlocks, TypeOK
<1>8. CASE WriteBlocks(Bridge) \/ WriteFails(Bridge) \/ Release
  BY <1>1, <1>8 DEF WriteBlocks, WriteFails, Release
<1>9. CASE ShellStep
  BY <1>1, <1>9 DEF ShellStep, ShellReads, RouteResponse, RouteAsk, ShellReaderEnds,
                    ShellReaderAborted, BridgeTakes, BridgeEnds, TypeOK
<1> QED BY <1>3, <1>4, <1>5, <1>6, <1>7, <1>8, <1>9
        DEF ShellMoves, CallStep, BridgeWrites

(* The Core's other steps: what each leaves of tasks, frames and replies.  *)
OtherCoreMoves ==
    \/ \E c \in Calls : Resume(c) \/ Drained(c)
    \/ ServerStep \/ Dies \/ Hang

(* A step of the Core is one of a handler that writes, or another.         *)
LEMMA CoreMovesSplit ==
    ASSUME TypeOK, CoreMoves
    PROVE  \/ \E c \in Calls : \E f \in CoreFrames, next \in {"asking", "done"} : Writing(c, f, next)
           \/ OtherCoreMoves
BY TasksWrite DEF CoreMoves, TaskStep, OtherCoreMoves, Crash, Kill

(* And so do the Core's.                                                   *)
LEMMA CoreKeepsRequests ==
    ASSUME TypeOK, CoreMoves, \A d \in Calls : RequestInv(d), NEW c \in Calls
    PROVE  RequestInv(c)'
<1> USE ChannelAssumption
<1>0. call' = call  BY CoreSide DEF shellVars
<1>1. ASSUME NEW d \in Calls, NEW f \in CoreFrames, NEW next \in {"asking", "done"}, Writing(d, f, next)
      PROVE  RequestInv(c)'
  <2>1. toCore' = toCore /\ task[d] \in {"running", "waiting"}  BY <1>1 DEF Writing
  <2>2. \E where \in {"draining", "waiting", next} : task' = [task EXCEPT ![d] = where]
    BY <1>1, WhatEmitLeaves DEF Writing
  <2>3. CASE c # d
    <3>1. task'[c] = task[c] /\ reply'[c] = reply[c]  BY <1>1, <2>2, <2>3 DEF Writing, TypeOK
    <3> QED BY <1>0, <2>1, <3>1 DEF RequestInv
  <2>4. CASE c = d
    <3>1. /\ task'[c] \in {"draining", "waiting", "asking", "done"}
          /\ task'[c] = "asking" => reply'[c] = Nobody
          /\ task'[c] = "done" => reply'[c] # Nobody
      BY <1>1, <2>2, <2>4 DEF Writing, TypeOK, RequestInv, Bodies
    <3>2. task[c] # "none"  BY <2>1, <2>4
    <3> QED BY <1>0, <2>1, <3>1, <3>2 DEF RequestInv
  <2> QED BY <2>3, <2>4
<1>2. ASSUME NEW d \in Calls, Resume(d) \/ Drained(d) PROVE RequestInv(c)'
  BY <1>0, <1>2 DEF TypeOK, RequestInv, Resume, Drained, After
<1>3. CASE CoreReads
  <2> DEFINE f == Head(toCore)
  <2>1. toCore \in Seq(ShellFrames) /\ toCore # <<>> /\ toCore' = Tail(toCore) /\ reply' = reply
    BY <1>3 DEF TypeOK, CoreReads
  <2>2. 1 \in DOMAIN toCore /\ f = toCore[1] /\ f \in ShellFrames  BY <2>1
  <2>3. \A i \in DOMAIN toCore' : i + 1 \in DOMAIN toCore /\ toCore'[i] = toCore[i + 1] /\ i + 1 # 1
    BY <2>1
  <2>4. CASE IsRequest(f, c)
    <3>1. task'[c] = "running" /\ task[c] = "none"
      BY <1>3, <2>2, <2>4 DEF CoreReads, IsRequest, TypeOK, RequestInv
    <3>2. \A i \in DOMAIN toCore' : ~ IsRequest(toCore'[i], c)
      BY <2>2, <2>3, <2>4 DEF RequestInv
    <3>3. call[c] \notin {"idle", "obtained", "sending"}
      BY <2>2, <2>4 DEF RequestInv
    <3> QED BY <1>0, <2>1, <3>1, <3>2, <3>3 DEF RequestInv
  <2>5. CASE ~ IsRequest(f, c)
    <3>1. task'[c] = task[c]
      BY <1>3, <2>2, <2>5 DEF CoreReads, IsRequest, TypeOK, ShellFrames
    <3> QED BY <1>0, <2>1, <2>3, <3>1 DEF RequestInv
  <2> QED BY <2>4, <2>5
<1>4. CASE CoreReadsEOF \/ Closed \/ Hang
  BY <1>0, <1>4 DEF RequestInv, CoreReadsEOF, Closed, Hang
<1>5. CASE ServeReturns
  <2>1. task'[c] = IF Live(c) THEN "cancelled" ELSE task[c]  BY <1>5 DEF ServeReturns
  <2> QED BY <1>0, <1>5, <2>1 DEF RequestInv, ServeReturns, Live
<1>6. CASE Exit  BY <1>0, <1>6 DEF RequestInv, Exit
<1>7. CASE Dies
  <2>1. task'[c] = IF Live(c) THEN "cancelled" ELSE task[c]  BY <1>7 DEF Dies
  <2> QED BY <1>0, <1>7, <2>1 DEF RequestInv, Dies, Live
<1> QED BY CoreMovesSplit, <1>1, <1>2, <1>3, <1>4, <1>5, <1>6, <1>7 DEF OtherCoreMoves, ServerStep

(* What the pipe to the shell says is what the handlers replied.           *)
LEMMA ResponsesTrue ==
    ASSUME TypeOK, ResponseInv, \A d \in Calls : RequestInv(d), ShellMoves \/ CoreMoves
    PROVE  ResponseInv'
<1> USE ChannelAssumption
<1>0. toShell \in Seq(CoreFrames)  BY DEF TypeOK
<1>1. ASSUME reply' = reply,
             \A i \in DOMAIN toShell' : \E j \in DOMAIN toShell : toShell'[i] = toShell[j]
      PROVE  ResponseInv'
  BY <1>1 DEF ResponseInv
<1>2. CASE ShellMoves
  <2>1. reply' = reply  BY <1>2, ShellSide DEF coreVars
  <2>2. CASE toShell' = toShell  BY <1>1, <2>1, <2>2
  <2>3. CASE ShellReads
    <3>1. toShell # <<>> /\ toShell' = Tail(toShell)  BY <2>3 DEF ShellReads
    <3>2. \A i \in DOMAIN toShell' : i + 1 \in DOMAIN toShell /\ toShell'[i] = toShell[i + 1]
      BY <1>0, <3>1
    <3> QED BY <1>1, <2>1, <3>2
  <2>4. CASE ShellReaderAborted  BY <1>1, <2>1, <2>4 DEF ShellReaderAborted
  <2> QED BY <1>2, <2>2, <2>3, <2>4
        DEF ShellMoves, CallStep, ShellStep, BridgeWrites, Obtain, Issue, Write, WriteBlocks,
            WriteFails, Timeout, ShellReaderEnds, BridgeTakes, BridgeEnds, BridgeAborted, Release
<1>3. ASSUME NEW c \in Calls, NEW f \in CoreFrames, NEW next \in {"asking", "done"}, Writing(c, f, next)
      PROVE  ResponseInv'
  <2>1. \A i \in DOMAIN toShell : toShell[i].kind = "response" =>
            toShell[i].call \in Calls /\ reply'[toShell[i].call] = reply[toShell[i].call]
    <3> SUFFICES ASSUME NEW i \in DOMAIN toShell, toShell[i].kind = "response"
                 PROVE  toShell[i].call \in Calls /\ reply'[toShell[i].call] = reply[toShell[i].call]
      OBVIOUS
    <3>1. toShell[i].call \in Calls
      <4>1. toShell[i] \in CoreFrames  BY <1>0
      <4> QED BY <4>1 DEF CoreFrames
    <3>2. toShell[i].call = c => reply[c] # Nobody  BY DEF ResponseInv
    <3> QED BY <1>3, <3>1, <3>2 DEF Writing, RequestInv, TypeOK
  <2>2. f.kind = "response" => f.call = c /\ reply'[c] # Nobody /\ f.body = reply'[c]
    BY <1>3 DEF Writing, Frame, TypeOK, Bodies
  <2>3. toShell' = toShell \/ toShell' = Append(toShell, f)
    BY <1>3, WhatEmitLeaves DEF Writing
  <2>4. \A i \in DOMAIN toShell' : toShell'[i] = f \/ (i \in DOMAIN toShell /\ toShell'[i] = toShell[i])
    BY <1>0, <2>3
  <2> QED BY <2>1, <2>2, <2>4 DEF ResponseInv
<1>4. CASE OtherCoreMoves
  <2>1. reply' = reply
    BY <1>4 DEF OtherCoreMoves, ServerStep, Resume, Drained, CoreReads, CoreReadsEOF, ServeReturns,
                Closed, Exit, Dies, Hang
  <2>2. CASE toShell' = toShell  BY <1>1, <2>1, <2>2
  <2>3. CASE Dies
    <3>1. PICK n \in 0 .. Len(toShell) : toShell' = SubSeq(toShell, 1, n)  BY <2>3 DEF Dies
    <3>2. \A i \in DOMAIN toShell' : i \in DOMAIN toShell /\ toShell'[i] = toShell[i]
      BY <1>0, <3>1, SubSeqProperties
    <3> QED BY <1>1, <2>1, <3>2
  <2> QED BY <1>4, <2>2, <2>3
        DEF OtherCoreMoves, ServerStep, Resume, Drained, CoreReads, CoreReadsEOF, ServeReturns,
            Closed, Exit, Hang
<1> QED BY <1>2, <1>3, <1>4, CoreMovesSplit

-----------------------------------------------------------------------------
(* What reaches whom. *)

(* What the shell knows stays true whatever the Core does.                 *)
LEMMA CoreKeepsShell ==
    ASSUME IInv, CoreMoves
    PROVE  Correlated' /\ Tracked' /\ ReaderInv' /\ BridgeInv'
<1> USE ChannelAssumption
<1>0. TypeOK /\ Correlated /\ Tracked /\ ReaderInv /\ BridgeInv /\ \A c \in Calls : RequestInv(c)
  BY DEF IInv
<1>1. UNCHANGED <<call, pending, got, swriter, sreader, held, bridge, answering>>
  BY <1>0, CoreSide DEF shellVars
<1>2. Attached' = Attached  BY <1>1 DEF Attached, Open
<1>3. ReaderInv'  BY <1>0, <1>1, <1>2, CoreSide DEF ReaderInv
<1>4. ASSUME NEW c \in Calls, reply[c] # Nobody PROVE reply'[c] = reply[c]
  <2>1. ASSUME NEW d \in Calls, NEW f \in CoreFrames, NEW next \in {"asking", "done"}, Writing(d, f, next)
        PROVE  reply'[c] = reply[c]
    BY <1>0, <1>4, <2>1 DEF Writing, RequestInv, TypeOK
  <2>2. OtherCoreMoves => reply' = reply
    BY DEF OtherCoreMoves, ServerStep, Resume, Drained, CoreReads, CoreReadsEOF, ServeReturns,
           Closed, Exit, Dies, Hang
  <2> QED BY <1>0, <2>1, <2>2, CoreMovesSplit
<1>5. Correlated'  BY <1>0, <1>1, <1>4 DEF Correlated
<1>6. Tracked'  BY <1>0, <1>1 DEF Tracked, Open
<1> QED BY <1>0, <1>1, <1>3, <1>5, <1>6 DEF BridgeInv

(* The shell takes a response out of the pipe only when it stops waiting   *)
(* for it.                                                                 *)
LEMMA ShellKeepsAnswers ==
    ASSUME IInv, ShellMoves, NEW c \in Calls
    PROVE  OnItsWay(c)'
<1> USE ChannelAssumption
<1>0. TypeOK /\ RequestInv(c) /\ OnItsWay(c) /\ toShell \in Seq(CoreFrames)
  BY DEF IInv, TypeOK
<1>1. task' = task /\ reply' = reply /\ killed' = killed  BY ShellSide DEF coreVars
<1>2. ASSUME c \in pending' => c \in pending, sreader' = "reading" => sreader = "reading",
             toShell' = toShell
      PROVE  OnItsWay(c)'
  BY <1>0, <1>1, <1>2 DEF OnItsWay
<1>3. CASE ShellReads
  <2>1. toShell # <<>> /\ toShell' = Tail(toShell) /\ sreader' = sreader  BY <1>3 DEF ShellReads
  <2>2. \A i \in DOMAIN toShell : i # 1 => i - 1 \in DOMAIN toShell' /\ toShell'[i - 1] = toShell[i]
    BY <1>0, <2>1
  <2>3. Head(toShell) = toShell[1]  BY <1>0, <2>1
  <2>4. c \in pending' => c \in pending /\ ~ IsResponse(toShell[1], c)
    BY <1>3, <2>3 DEF ShellReads, RouteResponse, RouteAsk, IsResponse
  <2> QED BY <1>0, <1>1, <2>1, <2>2, <2>4 DEF OnItsWay
<1>4. ASSUME NEW d \in Calls, Issue(d) PROVE OnItsWay(c)'
  <2>1. CASE d = c
    <3>1. task[c] = "none"  BY <1>0, <1>4, <2>1 DEF Issue, RequestInv
    <3> QED BY <1>1, <3>1 DEF OnItsWay
  <2>2. CASE d # c  BY <1>2, <1>4, <2>2 DEF Issue
  <2> QED BY <2>1, <2>2
<1>5. ASSUME NEW d \in Calls, Obtain(d) \/ Write(d) \/ WriteBlocks(d) \/ WriteFails(d) \/ Timeout(d)
      PROVE  OnItsWay(c)'
  BY <1>2, <1>5 DEF Obtain, Write, WriteBlocks, WriteFails, Timeout
<1>6. CASE BridgeWrites \/ BridgeAborted \/ Release \/ BridgeTakes \/ BridgeEnds
  BY <1>2, <1>6 DEF BridgeWrites, Write, WriteBlocks, WriteFails, BridgeAborted, Release,
                    BridgeTakes, BridgeEnds
<1>7. CASE ShellReaderEnds \/ ShellReaderAborted
  BY <1>7 DEF OnItsWay, ShellReaderEnds, ShellReaderAborted
<1> QED BY <1>3, <1>4, <1>5, <1>6, <1>7 DEF ShellMoves, CallStep, ShellStep

(* The Core puts it there when it counts it as written, and takes it back  *)
(* only by dying.                                                          *)
LEMMA CoreKeepsAnswers ==
    ASSUME IInv, CoreMoves, NEW c \in Calls
    PROVE  OnItsWay(c)'
<1> USE ChannelAssumption
<1>0. TypeOK /\ RequestInv(c) /\ OnItsWay(c) /\ toShell \in Seq(CoreFrames)
  BY DEF IInv, TypeOK
<1>1. pending' = pending /\ sreader' = sreader  BY <1>0, CoreSide DEF shellVars
<1>2. ASSUME task'[c] \in {"draining", "done"} => task[c] \in {"draining", "done"},
             reply'[c] = reply[c], killed' = killed, toShell' = toShell
      PROVE  OnItsWay(c)'
  BY <1>0, <1>1, <1>2 DEF OnItsWay
<1>3. ASSUME NEW d \in Calls, NEW f \in CoreFrames, NEW next \in {"asking", "done"}, Writing(d, f, next)
      PROVE  OnItsWay(c)'
  <2>1. killed' = killed  BY <1>3 DEF Writing
  <2>2. CASE d # c
    <3>1. task'[c] = task[c] /\ reply'[c] = reply[c]
      <4>1. \E where \in {"draining", "waiting", next} : task' = [task EXCEPT ![d] = where]
        BY <1>0, <1>3, WhatEmitLeaves DEF Writing
      <4> QED BY <1>0, <1>3, <2>2, <4>1 DEF Writing, TypeOK
    <3>2. \A i \in DOMAIN toShell : i \in DOMAIN toShell' /\ toShell'[i] = toShell[i]
      <4>1. toShell' = toShell \/ toShell' = Append(toShell, f)
        BY <1>0, <1>3, WhatEmitLeaves DEF Writing
      <4> QED BY <1>0, <4>1
    <3> QED BY <1>0, <1>1, <2>1, <3>1, <3>2 DEF OnItsWay
  <2>3. CASE d = c
    <3>1. CASE task' = [task EXCEPT ![c] = "waiting"]  BY <1>0, <3>1 DEF OnItsWay, TypeOK
    <3>2. CASE sreader # "reading"  BY <1>1, <3>2 DEF OnItsWay
    <3>3. CASE toShell' = Append(toShell, f)
      <4>1. Len(toShell) + 1 \in DOMAIN toShell' /\ toShell'[Len(toShell) + 1] = f
        BY <1>0, <3>3
      <4>2. reply'[c] # Nobody => IsResponse(f, c)
        BY <1>0, <1>3, <2>3 DEF Writing, IsResponse, Frame, RequestInv
      <4> QED BY <4>1, <4>2 DEF OnItsWay
    <3> QED BY <1>0, <1>3, <2>3, <3>1, <3>2, <3>3, WhatEmitLeaves DEF Writing
  <2> QED BY <2>2, <2>3
<1>4. ASSUME NEW d \in Calls, Resume(d) \/ Drained(d) PROVE OnItsWay(c)'
  <2>1. task'[c] \in {"draining", "done"} => task[c] \in {"draining", "done"}
    BY <1>0, <1>4 DEF Resume, Drained, TypeOK
  <2> QED BY <1>2, <1>4, <2>1 DEF Resume, Drained
<1>5. CASE CoreReads
  <2>1. task'[c] \in {"draining", "done"} => task[c] \in {"draining", "done"}
    BY <1>0, <1>5 DEF CoreReads, TypeOK
  <2> QED BY <1>2, <1>5, <2>1 DEF CoreReads
<1>6. CASE ServeReturns
  <2>1. task'[c] = IF Live(c) THEN "cancelled" ELSE task[c]  BY <1>6 DEF ServeReturns
  <2> QED BY <1>2, <1>6, <2>1 DEF ServeReturns
<1>7. CASE CoreReadsEOF \/ Closed \/ Exit \/ Hang
  BY <1>2, <1>7 DEF CoreReadsEOF, Closed, Exit, Hang
<1>8. CASE Dies  BY <1>8 DEF OnItsWay, Dies
<1> QED BY <1>0, <1>3, <1>4, <1>5, <1>6, <1>7, <1>8, CoreMovesSplit DEF OtherCoreMoves, ServerStep

(* Nobody writes or works on behalf of a request once the Core has stopped *)
(* serving, and the writer lock is its draining task's.                    *)
LEMMA CleanExitStep ==
    ASSUME IInv, ShellMoves \/ CoreMoves
    PROVE  CleanExit'
<1> USE ChannelAssumption
<1>0. TypeOK /\ CleanExit /\ \A c \in Calls : RequestInv(c)  BY DEF IInv
<1>1. CASE ShellMoves
  <2>1. core' = core /\ task' = task /\ wlock' = wlock  BY <1>1, ShellSide DEF coreVars
  <2> QED BY <1>0, <2>1 DEF CleanExit, Live
<1>2. ASSUME NEW d \in Calls, NEW f \in CoreFrames, NEW next \in {"asking", "done"}, Writing(d, f, next)
      PROVE  CleanExit'
  <2>1. core' = "serving" /\ task[d] # "draining"  BY <1>2 DEF Writing, Up
  <2>2. wlock' # Nobody => task'[wlock'] = "draining"
    BY <1>0, <1>2, <2>1, WhatEmitLeaves DEF Writing, CleanExit, TypeOK
  <2> QED BY <2>1, <2>2 DEF CleanExit
<1>3. ASSUME NEW d \in Calls, Resume(d) \/ Drained(d) PROVE CleanExit'
  BY <1>0, <1>3 DEF CleanExit, TypeOK, Resume, Drained, Up
<1>4. CASE CoreReads
  <2> DEFINE f == Head(toCore)
  <2>1. f = toCore[1] /\ 1 \in DOMAIN toCore /\ f \in ShellFrames
    BY <1>0, <1>4 DEF CoreReads, TypeOK
  <2>2. f.kind = "request" => task[f.call] = "none"
    BY <1>0, <2>1 DEF RequestInv, IsRequest, ShellFrames
  <2> QED BY <1>0, <1>4, <2>1, <2>2 DEF CleanExit, TypeOK, CoreReads, Up, ShellFrames
<1>5. CASE CoreReadsEOF \/ Closed \/ Exit \/ Hang
  BY <1>0, <1>5 DEF CleanExit, Live, CoreReadsEOF, Closed, Exit, Hang
<1>6. CASE ServeReturns \/ Dies
  <2>1. wlock' = Nobody /\ task' = [c \in Calls |-> IF Live(c) THEN "cancelled" ELSE task[c]]
    BY <1>6 DEF ServeReturns, Dies
  <2> QED BY <2>1 DEF CleanExit, Live
<1> QED BY <1>0, <1>1, <1>2, <1>3, <1>4, <1>5, <1>6, CoreMovesSplit DEF OtherCoreMoves, ServerStep

(* A request is told that the channel is closed when the pipe is empty:    *)
(* a response that was written would still be there.                       *)
LEMMA DeliveredStep ==
    ASSUME IInv, ShellMoves \/ CoreMoves
    PROVE  WrittenIsDelivered'
<1> USE ChannelAssumption
<1>0. TypeOK /\ WrittenIsDelivered /\ ReaderInv /\ \A c \in Calls : RequestInv(c) /\ OnItsWay(c)
  BY DEF IInv
<1> SUFFICES ASSUME NEW c \in Calls, call'[c] = "closed", ~ killed', task'[c] = "done"
             PROVE  FALSE
  BY DEF WrittenIsDelivered
<1>1. CASE ShellMoves
  <2>1. task[c] = "done" /\ ~ killed /\ reply[c] # Nobody
    <3>1. task' = task /\ killed' = killed  BY <1>1, ShellSide DEF coreVars
    <3> QED BY <1>0, <3>1 DEF RequestInv
  <2>2. call[c] # "closed"  BY <1>0, <2>1 DEF WrittenIsDelivered
  <2>3. ASSUME NEW d \in Calls, Obtain(d) \/ Issue(d) \/ Timeout(d) \/ WriteFails(d) PROVE FALSE
    BY <1>0, <2>2, <2>3 DEF Obtain, Issue, Timeout, WriteFails, TypeOK
  <2>4. ASSUME NEW d \in Calls, Write(d) PROVE FALSE
    BY <1>0, <2>1, <2>2, <2>4 DEF Write, Wants, TypeOK, RequestInv
  <2>5. CASE ShellReads /\ RouteResponse(Head(toShell))
    BY <1>0, <2>2, <2>5 DEF RouteResponse, TypeOK
  <2>6. CASE ShellReaderEnds
    <3>1. c \in pending /\ sreader = "reading" /\ toShell = <<>>
      BY <2>2, <2>6 DEF ShellReaderEnds
    <3> QED BY <1>0, <2>1, <3>1 DEF OnItsWay
  <2>7. CASE ShellReaderAborted  BY <2>2, <2>7 DEF ShellReaderAborted
  <2>8. CASE ~ CallMoves  BY <1>1, <2>2, <2>8, OtherShellMoves
  <2> QED BY <2>3, <2>4, <2>5, <2>6, <2>7, <2>8 DEF CallMoves
<1>2. CASE CoreMoves
  <2>1. call[c] = "closed"  BY <1>0, <1>2, CoreSide DEF shellVars
  <2>2. core \in {"leaving", "exited"}  BY <1>0, <2>1 DEF ReaderInv
  <2>3. ~ Up  BY <2>2 DEF Up
  <2>4. Closed \/ Exit \/ Dies \/ Hang
    BY <1>0, <1>2, <2>3, CoreMovesSplit
       DEF OtherCoreMoves, ServerStep, Writing, Resume, Drained, CoreReads, CoreReadsEOF, ServeReturns
  <2>5. task' = task /\ killed' = killed
    <3>1. killed' => FALSE  OBVIOUS
    <3> QED BY <2>4, <3>1 DEF Closed, Exit, Dies, Hang
  <2> QED BY <1>0, <2>1, <2>5 DEF WrittenIsDelivered
<1> QED BY <1>1, <1>2

-----------------------------------------------------------------------------
(* The theorems. *)

(* The invariant is inductive.                                             *)
LEMMA StepKeeps ==
    ASSUME IInv, [Next]_vars
    PROVE  IInv'
<1>0. /\ TypeOK /\ Correlated /\ Tracked /\ ResponseInv /\ ReaderInv /\ BridgeInv
      /\ \A c \in Calls : RequestInv(c)
  BY DEF IInv
<1>1. CASE UNCHANGED vars
  <2>1. UNCHANGED <<call, pending, got, swriter, sreader, held, bridge, asks, answering, late,
                    toCore, toShell, core, hung, reader, stop, task, reply, asked, wlock, killed>>
    BY <1>1 DEF vars, shellVars, coreVars
  <2>2. TypeOK'  BY <1>0, <2>1 DEF TypeOK
  <2>3. Attached' = Attached /\ Tracked' = Tracked /\ CleanExit' = CleanExit
    BY <2>1 DEF Attached, Open, Tracked, CleanExit, Live
  <2> QED BY <2>1, <2>2, <2>3 DEF IInv, Correlated, WrittenIsDelivered, ResponseInv, ReaderInv,
                                  BridgeInv, RequestInv, OnItsWay
<1>2. CASE ShellMoves
  <2>1. TypeOK' /\ Correlated' /\ Tracked' /\ ReaderInv' /\ BridgeInv'
    BY <1>0, <1>2, ShellTypes, CorrelatedStep, TrackedStep, ReaderStep, BridgeStep
  <2>2. WrittenIsDelivered' /\ CleanExit' /\ ResponseInv'
    BY <1>0, <1>2, DeliveredStep, CleanExitStep, ResponsesTrue
  <2>3. \A c \in Calls : RequestInv(c)' /\ OnItsWay(c)'
    BY <1>0, <1>2, ShellKeepsRequests, ShellKeepsAnswers
  <2> QED BY <2>1, <2>2, <2>3 DEF IInv
<1>3. CASE CoreMoves
  <2>1. TypeOK' /\ Correlated' /\ Tracked' /\ ReaderInv' /\ BridgeInv'
    BY <1>0, <1>3, CoreTypes, CoreKeepsShell
  <2>2. WrittenIsDelivered' /\ CleanExit' /\ ResponseInv'
    BY <1>0, <1>3, DeliveredStep, CleanExitStep, ResponsesTrue
  <2>3. \A c \in Calls : RequestInv(c)' /\ OnItsWay(c)'
    BY <1>0, <1>3, CoreKeepsRequests, CoreKeepsAnswers
  <2> QED BY <2>1, <2>2, <2>3 DEF IInv
<1> QED BY <1>1, <1>2, <1>3 DEF Next, ShellMoves, CoreMoves

(* The invariant holds in every state.                                     *)
THEOREM ChannelAlways == Spec => []IInv
<1>1. IInv /\ [Next]_vars => IInv'  BY StepKeeps
<1> QED BY InitHolds, <1>1, PTL DEF Spec

(* However many requests are in flight, and whatever becomes of the Core,  *)
(* each answered one got the response of its own handler, and the map of   *)
(* those still waiting is exact.                                           *)
THEOREM AnswersAlwaysReach == Spec => []AnswersReach
<1>1. IInv => AnswersReach  BY DEF IInv, AnswersReach
<1> QED BY ChannelAlways, <1>1, PTL

(* A response that was written reaches the shell unless the process is     *)
(* killed, and nothing of a request runs on once serving has stopped.      *)
THEOREM AlwaysDelivered == Spec => []Delivered
<1>1. IInv => Delivered  BY DEF IInv, Delivered
<1> QED BY ChannelAlways, <1>1, PTL
=============================================================================
