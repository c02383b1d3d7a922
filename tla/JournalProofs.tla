---------------------------- MODULE JournalProofs ----------------------------
(***************************************************************************)
(* Journal's safety for every set of appends and any number of openings.   *)
(*                                                                         *)
(* While the journal is sound the only thread at work belongs to the       *)
(* holder of the lock, and the log is the head's records, with at most     *)
(* that thread's frame behind them.  What is kept lies in the durable      *)
(* prefix of a log with a durable entry, which no failure, cancellation,   *)
(* crash or opening touches.                                               *)
(***************************************************************************)
EXTENDS Journal, SequenceTheorems, TLAPS

(* The task of a call and its worker thread. *)
CallInv(a) ==
    /\ lock = a <=> pc[a] = "appending"
    /\ pc[a] = "appending" => thread[a] # "idle"
    /\ thread[a] = "queued" \/ (sound /\ thread[a] # "idle") => pc[a] = "appending"
    /\ pc[a] \in {"waiting", "appending"} => isOpen
    /\ ~isOpen => thread[a] = "idle"

(* The log of a sound journal: counted records, then the frame under way.  *)
Counted == Len(file) = 2 * head
OneMore(a) == Len(file) = 2 * head + 2 /\ FrameAt(file, head + 1, a)

SoundInv ==
    isOpen /\ sound =>
        /\ Parses(file, head)
        /\ (\A a \in Appends : thread[a] \notin {"sync", "returned"}) => Counted
        /\ \A a \in Appends : thread[a] \in {"sync", "returned"} => OneMore(a)

ReturnedInv(a) ==
    isOpen /\ lock = a /\ thread[a] = "returned" =>
        /\ answer[a] = head + 1
        /\ sound /\ fsync => synced = Len(file)

KeptInv ==
    \A e \in kept :
        /\ e.seq > 0
        /\ dirEntry = "durable"
        /\ fsync => /\ 2 * e.seq <= synced
                    /\ isOpen => e.seq <= head
                    /\ Parses(file, e.seq) /\ FrameAt(file, e.seq, e.rec)

IInv ==
    /\ TypeOK /\ SoundInv /\ KeptInv
    /\ \A a \in Appends : CallInv(a) /\ ReturnedInv(a)

-----------------------------------------------------------------------------
(* The log. *)

Agree(log, more, k) ==
    /\ k \in Nat /\ k <= Len(log) /\ k <= Len(more)
    /\ \A j \in 1 .. k : more[j] = log[j]

(* A frame within the agreeing part is a frame of both logs. *)
LEMMA FrameKept ==
    ASSUME NEW log \in Seq(Chunk), NEW more \in Seq(Chunk), NEW k, Agree(log, more, k),
           NEW i \in Nat, i > 0, 2 * i <= k, NEW a, FrameAt(log, i, a)
    PROVE  FrameAt(more, i, a)
<1>1. 2 * i \in 1 .. k /\ 2 * i - 1 \in 1 .. k
  BY DEF Agree
<1> QED
  BY <1>1 DEF FrameAt, Agree

(* A log that agrees with another so far parses as far.                    *)
LEMMA ParsesKept ==
    ASSUME NEW log \in Seq(Chunk), NEW more \in Seq(Chunk), NEW k, Agree(log, more, k),
           NEW i \in Nat, 2 * i <= k, Parses(log, i)
    PROVE  Parses(more, i)
<1> SUFFICES ASSUME NEW j \in 1 .. i PROVE \E a \in Appends : FrameAt(more, j, a)
  BY DEF Parses
<1>1. PICK a \in Appends : FrameAt(log, j, a)
  BY DEF Parses
<1>2. j \in Nat /\ j > 0 /\ 2 * j <= k
  BY DEF Agree
<1> QED
  BY <1>1, <1>2, FrameKept

(* A log that parses so far parses less far.                               *)
LEMMA ParsesLess ==
    ASSUME NEW log, NEW m \in Nat, NEW i \in Nat, i <= m, Parses(log, m)
    PROVE  Parses(log, i)
BY DEF Parses

(* A frame behind what parses parses too.                                  *)
LEMMA ParsesOneMore ==
    ASSUME NEW log, NEW h \in Nat, Parses(log, h), NEW a \in Appends, FrameAt(log, h + 1, a)
    PROVE  Parses(log, h + 1)
<1>1. \A j \in 1 .. h + 1 : j \in 1 .. h \/ j = h + 1
  OBVIOUS
<1> QED
  BY <1>1 DEF Parses

(* The two halves of a frame are chunks.                                   *)
LEMMA ChunkFacts ==
    ASSUME NEW a \in Appends
    PROVE  /\ First(a) \in Chunk /\ Second(a) \in Chunk
           /\ <<First(a), Second(a)>> \in Seq(Chunk)
BY DEF First, Second, Chunk

(* What a write leaves: the log goes on where it was. *)
LEMMA WriteWhole ==
    ASSUME NEW log \in Seq(Chunk), NEW a \in Appends, NEW more,
           more = log \o <<First(a), Second(a)>>
    PROVE  /\ more \in Seq(Chunk) /\ Len(more) = Len(log) + 2 /\ Agree(log, more, Len(log))
           /\ more[Len(log) + 1] = First(a) /\ more[Len(log) + 2] = Second(a)
<1>1. <<First(a), Second(a)>> \in Seq(Chunk) /\ Len(<<First(a), Second(a)>>) = 2
  BY ChunkFacts
<1>2. more \in Seq(Chunk) /\ Len(more) = Len(log) + 2
  BY <1>1, ConcatProperties
<1>3. \A j \in 1 .. Len(log) : more[j] = log[j]
  BY <1>1, ConcatProperties
<1>4. more[Len(log) + 1] = First(a) /\ more[Len(log) + 2] = Second(a)
  BY <1>1, ConcatProperties
<1> QED
  BY <1>2, <1>3, <1>4 DEF Agree

(* Writing a half of a frame changes nothing before it.                    *)
LEMMA WriteHalf ==
    ASSUME NEW log \in Seq(Chunk), NEW a \in Appends, NEW more, more = Append(log, First(a))
    PROVE  more \in Seq(Chunk) /\ Len(more) = Len(log) + 1 /\ Agree(log, more, Len(log))
<1>1. /\ more \in Seq(Chunk) /\ Len(more) = Len(log) + 1
      /\ \A j \in 1 .. Len(log) : more[j] = log[j]
  BY ChunkFacts, AppendProperties
<1> QED
  BY <1>1 DEF Agree

(* Cutting a log changes nothing before the cut.                           *)
LEMMA Cut ==
    ASSUME NEW log \in Seq(Chunk), NEW n \in 0 .. Len(log), NEW more, more = SubSeq(log, 1, n)
    PROVE  more \in Seq(Chunk) /\ Len(more) = n /\ Agree(log, more, n)
<1>1. /\ more \in Seq(Chunk) /\ Len(more) = n
      /\ \A j \in 1 .. n : more[j] = log[j]
  BY SubSeqProperties
<1> QED
  BY <1>1 DEF Agree

-----------------------------------------------------------------------------
(* Types. *)

(* The types hold at the start.                                            *)
LEMMA TypeInit == Init => TypeOK
<1> SUFFICES ASSUME Init PROVE TypeOK
  OBVIOUS
<1>1. file \in Seq(Chunk) /\ Len(file) = 0
  BY EmptySeq DEF Init
<1>2. fsync \in BOOLEAN /\ isOpen \in BOOLEAN /\ sound \in BOOLEAN
  BY DEF Init
<1>3. synced \in 0 .. Len(file) /\ opens \in 0 .. MaxOpens
  BY <1>1, JournalAssumption DEF Init
<1> QED
  BY <1>1, <1>2, <1>3 DEF Init, TypeOK

(* A write keeps what the file held.                                       *)
LEMMA ThreadWriteShape ==
    ASSUME TypeOK, NEW a \in Appends, ThreadWrites(a)
    PROVE  file' \in Seq(Chunk) /\ Len(file) <= Len(file') /\ Agree(file, file', Len(file))
<1>0. file \in Seq(Chunk) /\ Len(file) \in Nat
  BY DEF TypeOK
<1>1. CASE file' = file \o <<First(a), Second(a)>>
  <2>1. file' \in Seq(Chunk) /\ Len(file') = Len(file) + 2 /\ Agree(file, file', Len(file))
    BY <1>0, <1>1, WriteWhole
  <2> QED
    BY <1>0, <2>1
<1>2. CASE file' = Append(file, First(a))
  <2>1. file' \in Seq(Chunk) /\ Len(file') = Len(file) + 1 /\ Agree(file, file', Len(file))
    BY <1>0, <1>2, WriteHalf
  <2> QED
    BY <1>0, <2>1
<1>3. CASE file' = file
  BY <1>0, <1>3 DEF Agree
<1> QED
  BY <1>1, <1>2, <1>3 DEF ThreadWrites

(* What a step of the thread may write. *)
LEMMA FinishShape ==
    ASSUME TypeOK, NEW a \in Appends, Finish(a)
    PROVE  /\ answer' \in [Appends -> Nat]
           /\ thread' \in [Appends -> {"idle", "queued", "write", "sync", "returned", "failed"}]
BY DEF Finish, TypeOK

(* Every step keeps the types.                                             *)
LEMMA TypeNext == TypeOK /\ [Next]_vars => TypeOK'
<1> SUFFICES ASSUME TypeOK, [Next]_vars PROVE TypeOK'
  OBVIOUS
<1> USE JournalAssumption
<1>1. ASSUME NEW a \in Appends, CallAppend(a) \/ Acquire(a) \/ ThreadStarts(a) \/ Cancel(a)
      PROVE  TypeOK'
  BY <1>1 DEF CallAppend, Acquire, ThreadStarts, Cancel, TypeOK, diskVars, historyVars
<1>2. ASSUME NEW a \in Appends, ThreadWrites(a) PROVE TypeOK'
  <2>1. /\ thread' \in [Appends -> {"idle", "queued", "write", "sync", "returned", "failed"}]
        /\ answer' \in [Appends -> Nat]
    BY <1>2, FinishShape DEF ThreadWrites, TypeOK
  <2>2. sound' \in BOOLEAN
    BY <1>2, Zenon DEF ThreadWrites, TypeOK
  <2>3. file' \in Seq(Chunk) /\ Len(file) <= Len(file')
    BY <1>2, ThreadWriteShape
  <2>4. synced' \in 0 .. Len(file')
    BY <1>2, <2>3 DEF ThreadWrites, TypeOK
  <2>5. dirEntry' \in {"none", "made", "durable"}
    BY <1>2 DEF ThreadWrites, Creates, TypeOK
  <2> QED
    BY <1>2, <2>1, <2>2, <2>3, <2>4, <2>5 DEF ThreadWrites, TypeOK
<1>3. ASSUME NEW a \in Appends, ThreadSyncs(a) PROVE TypeOK'
  <2>1. /\ thread' \in [Appends -> {"idle", "queued", "write", "sync", "returned", "failed"}]
        /\ answer' \in [Appends -> Nat]
    BY <1>3, FinishShape DEF ThreadSyncs, TypeOK
  <2>2. sound' \in BOOLEAN
    BY <1>3, Zenon DEF ThreadSyncs, TypeOK
  <2>3. synced' \in 0 .. Len(file')
    BY <1>3 DEF ThreadSyncs, TypeOK
  <2> QED
    BY <1>3, <2>1, <2>2, <2>3 DEF ThreadSyncs, TypeOK
<1>4. ASSUME NEW a \in Appends, Return(a) PROVE TypeOK'
  <2>1. [rec |-> a, seq |-> answer[a]] \in Entry
    BY DEF TypeOK, Entry
  <2>2. kept' \subseteq promised' /\ promised' \subseteq Entry /\ head' \in Nat
    BY <1>4, <2>1 DEF Return, TypeOK
  <2> QED
    BY <1>4, <2>2 DEF Return, TypeOK, diskVars
<1>5. CASE Crash
  <2>1. file' \in Seq(Chunk) /\ synced' \in 0 .. Len(file')
    <3>1. CASE file' = <<>> /\ synced' = 0
      BY <3>1, EmptySeq
    <3>2. CASE UNCHANGED synced /\ \E n \in synced .. Len(file) : file' = SubSeq(file, 1, n)
      <4>1. PICK n \in synced .. Len(file) : file' = SubSeq(file, 1, n)
        BY <3>2
      <4>2. n \in 0 .. Len(file) /\ synced \in 0 .. n
        BY DEF TypeOK
      <4>3. file' \in Seq(Chunk) /\ Len(file') = n
        BY <4>1, <4>2, Cut DEF TypeOK
      <4> QED
        BY <3>2, <4>2, <4>3
    <3> QED
      BY <1>5, <3>1, <3>2 DEF Crash
  <2>2. dirEntry' \in {"none", "made", "durable"}
    BY <1>5 DEF Crash, TypeOK
  <2>5. pc' \in [Appends -> {"start", "waiting", "appending", "done"}]
    BY <1>5 DEF Crash
  <2>6. thread' \in [Appends -> {"idle", "queued", "write", "sync", "returned", "failed"}]
    BY <1>5 DEF Crash
  <2> QED
    BY <1>5, <2>1, <2>2, <2>5, <2>6 DEF Crash, TypeOK, historyVars
<1>6. CASE Open
  <2>1. PICK n \in 0 .. Len(file) :
          /\ Scan(file, n) /\ head' = n /\ file' = SubSeq(file, 1, 2 * n)
          /\ synced' = IF synced <= 2 * n THEN synced ELSE 2 * n
    BY <1>6 DEF Open
  <2>2. 2 * n \in 0 .. Len(file)
    <3>1. CASE n = 0
      BY <3>1 DEF TypeOK
    <3>2. CASE n > 0
      BY <2>1, <3>2 DEF Scan, Parses, FrameAt, TypeOK
    <3> QED
      BY <3>1, <3>2
  <2>3. file' \in Seq(Chunk) /\ Len(file') = 2 * n
    BY <2>1, <2>2, Cut DEF TypeOK
  <2> QED
    BY <1>6, <2>1, <2>2, <2>3 DEF Open, TypeOK
<1>7. CASE UNCHANGED vars
  BY <1>7 DEF vars, processVars, diskVars, historyVars, TypeOK
<1> QED
  BY <1>1, <1>2, <1>3, <1>4, <1>5, <1>6, <1>7 DEF Next, ThreadStep

(* Every variable keeps its type. *)
THEOREM TypeCorrect == Spec => []TypeOK
<1> QED
  BY TypeInit, TypeNext, PTL DEF Spec

-----------------------------------------------------------------------------
(* The inductive invariant. *)

(* The strengthened invariant holds at the start.                          *)
LEMMA IInvInit == Init => IInv
<1> SUFFICES ASSUME Init PROVE IInv
  OBVIOUS
<1>1. TypeOK
  BY TypeInit
<1>2. SoundInv /\ KeptInv
  BY DEF Init, SoundInv, KeptInv
<1>3. \A a \in Appends : CallInv(a) /\ ReturnedInv(a)
  BY JournalAssumption DEF Init, CallInv, ReturnedInv
<1> QED
  BY <1>1, <1>2, <1>3 DEF IInv

(* In a sound journal only the holder of the lock has a thread at work. *)
LEMMA OneThread ==
    ASSUME IInv, sound, NEW a \in Appends, thread[a] # "idle"
    PROVE  lock = a /\ pc[a] = "appending" /\ isOpen
BY DEF IInv, CallInv

(* What is kept lies in the durable prefix: a step that leaves this alone  *)
(* leaves what is kept alone.                                              *)
LEMMA EntryKept ==
    ASSUME TypeOK, TypeOK', KeptInv, fsync, NEW e \in kept,
           NEW k, Agree(file, file', k), synced <= k
    PROVE  Parses(file', e.seq) /\ FrameAt(file', e.seq, e.rec)
<1>1. file \in Seq(Chunk) /\ file' \in Seq(Chunk) /\ synced \in Nat
  BY DEF TypeOK
<1>2. e.seq \in Nat /\ e.rec \in Appends
  BY DEF TypeOK, Entry
<1>3. e.seq > 0 /\ 2 * e.seq <= synced /\ Parses(file, e.seq) /\ FrameAt(file, e.seq, e.rec)
  BY DEF KeptInv
<1>4. 2 * e.seq <= k
  BY <1>1, <1>2, <1>3 DEF Agree
<1> QED
  BY <1>1, <1>2, <1>3, <1>4, ParsesKept, FrameKept

(* Steps that touch neither the log nor what is counted. *)
LEMMA QuietKept ==
    ASSUME KeptInv, UNCHANGED <<fsync, isOpen, head, file, synced, dirEntry, kept>>
    PROVE  KeptInv'
BY DEF KeptInv, Parses, FrameAt

(* Calling, waiting and starting keep the invariant.                       *)
LEMMA WaitPreserves ==
    ASSUME IInv, TypeOK', NEW a \in Appends, CallAppend(a) \/ Acquire(a) \/ ThreadStarts(a)
    PROVE  IInv'
<1>1. TypeOK /\ UNCHANGED <<fsync, isOpen, head, file, synced, dirEntry, sound, kept, answer>>
  BY DEF IInv, CallAppend, Acquire, ThreadStarts, diskVars, historyVars
<1>2. KeptInv'
  <2>1. KeptInv /\ UNCHANGED <<fsync, isOpen, head, file, synced, dirEntry, kept>>
    BY <1>1 DEF IInv
  <2> QED BY <2>1, QuietKept
<1>3. ASSUME NEW b \in Appends PROVE CallInv(b)'
  <2>1. CallInv(a) /\ CallInv(b)
    BY DEF IInv
  <2> QED
    BY <1>1, <2>1, JournalAssumption DEF CallInv, CallAppend, Acquire, ThreadStarts, TypeOK
<1>4. \A b \in Appends : thread'[b] \in {"sync", "returned"} => thread'[b] = thread[b]
  BY <1>1 DEF CallAppend, Acquire, ThreadStarts, TypeOK
<1>5. ASSUME isOpen, sound PROVE
         \A b \in Appends : thread[b] \in {"sync", "returned"} <=> thread'[b] \in {"sync", "returned"}
  <2> SUFFICES ASSUME NEW b \in Appends, thread[b] \in {"sync", "returned"}
               PROVE  thread'[b] = thread[b]
    BY <1>4
  <2>1. lock = b /\ pc[b] = "appending"
    BY <1>5, OneThread
  <2>2. lock # Nobody
    BY <2>1, JournalAssumption
  <2>3. a = b => thread[a] # "queued" /\ pc[a] # "start"
    BY <2>1
  <2> QED
    BY <1>1, <2>1, <2>2, <2>3 DEF CallAppend, Acquire, ThreadStarts, TypeOK
<1>6. SoundInv'
  BY <1>1, <1>5 DEF IInv, SoundInv, Counted, OneMore, Parses, FrameAt
<1>7. ASSUME NEW b \in Appends PROVE ReturnedInv(b)'
  <2>1. ReturnedInv(b)
    BY DEF IInv
  <2>2. CASE lock = b
    BY <1>1, <1>4, <2>1, <2>2 DEF ReturnedInv
  <2>3. CASE lock # b /\ lock' = b
    BY <1>1, <2>3 DEF ReturnedInv, CallAppend, Acquire, ThreadStarts, TypeOK
  <2> QED
    BY <2>2, <2>3 DEF ReturnedInv
<1> QED
  BY <1>2, <1>3, <1>6, <1>7 DEF IInv

(* A cancel keeps the invariant: the thread goes on.                       *)
LEMMA CancelPreserves ==
    ASSUME IInv, TypeOK', NEW a \in Appends, Cancel(a)
    PROVE  IInv'
<1>1. TypeOK /\ UNCHANGED <<fsync, isOpen, head, file, synced, dirEntry, kept, answer>>
  BY DEF IInv, Cancel, diskVars
<1>2. KeptInv'
  BY <1>1, QuietKept DEF IInv
<1>3. lock' = lock \/ lock' = Nobody
  BY DEF Cancel
<1>4. \A b \in Appends : b # a => thread'[b] = thread[b] /\ pc'[b] = pc[b]
  BY <1>1 DEF Cancel, TypeOK
<1>5. sound' => sound /\ (thread'[a] = thread[a] \/ thread[a] \in {"queued", "failed"})
  BY DEF Cancel
<1>6. thread'[a] = thread[a] \/ thread'[a] = "idle"
  BY <1>1 DEF Cancel, TypeOK
<1>7. pc'[a] = "done" /\ lock' # a
  <2>1. CallInv(a)
    BY DEF IInv
  <2> QED
    BY <1>1, <2>1, JournalAssumption DEF Cancel, CallInv, TypeOK
<1>8. ASSUME sound' PROVE thread'[a] = "idle"
  <2>1. CallInv(a)
    BY DEF IInv
  <2> QED
    BY <1>1, <1>8, <2>1 DEF Cancel, CallInv, TypeOK
<1>9. ASSUME NEW b \in Appends PROVE CallInv(b)'
  <2>1. CallInv(b) /\ CallInv(a)
    BY DEF IInv
  <2>2. CASE b = a
    BY <1>1, <1>6, <1>7, <1>8, <2>1, <2>2 DEF CallInv, Cancel, TypeOK
  <2>3. CASE b # a
    <3>1. lock' = b <=> lock = b
      BY <1>1, <2>1, <2>3, JournalAssumption DEF Cancel, CallInv
    <3> QED
      BY <1>1, <1>4, <1>5, <2>1, <2>3, <3>1 DEF CallInv
  <2> QED
    BY <2>2, <2>3
<1>10. ASSUME sound', NEW b \in Appends
       PROVE  thread[b] \in {"sync", "returned"} <=> thread'[b] \in {"sync", "returned"}
  <2>1. CallInv(a)
    BY DEF IInv
  <2> QED
    BY <1>1, <1>4, <1>10, <2>1 DEF Cancel, CallInv, TypeOK
<1>11. SoundInv'
  BY <1>1, <1>5, <1>10 DEF IInv, SoundInv, Counted, OneMore, Parses, FrameAt
<1>12. ASSUME NEW b \in Appends PROVE ReturnedInv(b)'
  <2>1. ReturnedInv(b)
    BY DEF IInv
  <2> QED
    BY <1>1, <1>3, <1>4, <1>5, <1>7, <2>1, JournalAssumption DEF ReturnedInv
<1> QED
  BY <1>2, <1>9, <1>11, <1>12 DEF IInv

(* A write keeps the invariant.                                            *)
LEMMA WritePreserves ==
    ASSUME IInv, TypeOK', NEW a \in Appends, ThreadWrites(a)
    PROVE  IInv'
<1>1. TypeOK /\ UNCHANGED <<fsync, isOpen, head, lock, pc, synced, kept>>
  BY DEF IInv, ThreadWrites
<1>2. Agree(file, file', Len(file))
  BY <1>1, ThreadWriteShape
<1>3. KeptInv'
  <2>1. synced <= Len(file)
    BY <1>1 DEF TypeOK
  <2>2. ASSUME fsync, NEW e \in kept
        PROVE  Parses(file', e.seq) /\ FrameAt(file', e.seq, e.rec)
    BY <1>1, <1>2, <2>1, <2>2, EntryKept DEF IInv
  <2>3. dirEntry = "durable" => dirEntry' = "durable"
    BY DEF ThreadWrites, Creates
  <2> QED
    BY <1>1, <2>2, <2>3 DEF IInv, KeptInv
<1>4. thread[a] = "write" /\ thread'[a] \in {"sync", "returned", "failed"}
  BY <1>1 DEF ThreadWrites, Finish, TypeOK
<1>5. \A b \in Appends : b # a => thread'[b] = thread[b] /\ answer'[b] = answer[b]
  BY <1>1 DEF ThreadWrites, Finish, TypeOK
<1>6. sound' => sound
  BY DEF ThreadWrites
<1>7. isOpen
  BY <1>4 DEF IInv, CallInv
<1>8. ASSUME NEW b \in Appends PROVE CallInv(b)'
  BY <1>1, <1>4, <1>5, <1>6, <1>7 DEF IInv, CallInv
<1>9. ASSUME sound, NEW b \in Appends, b # a PROVE thread[b] = "idle" /\ lock # b
  BY <1>4, <1>9, OneThread
<1>10. ASSUME sound PROVE Parses(file, head) /\ Len(file) = 2 * head
  BY <1>4, <1>7, <1>9, <1>10 DEF IInv, SoundInv, Counted
<1>11. ASSUME sound' PROVE Parses(file', head)
  BY <1>1, <1>2, <1>6, <1>10, <1>11, ParsesKept DEF TypeOK
<1>12. ASSUME sound', thread'[a] # "failed"
       PROVE  Len(file') = 2 * head + 2 /\ FrameAt(file', head + 1, a)
  <2>1. file' = file \o <<First(a), Second(a)>>
    BY <1>1, <1>12 DEF ThreadWrites, TypeOK
  <2>2. /\ Len(file') = Len(file) + 2
        /\ file'[Len(file) + 1] = First(a) /\ file'[Len(file) + 2] = Second(a)
    BY <1>1, <2>1, WriteWhole DEF TypeOK
  <2>3. head \in Nat
    BY <1>1 DEF TypeOK
  <2> QED
    BY <1>6, <1>10, <1>12, <2>2, <2>3 DEF FrameAt
<1>13. ASSUME sound', thread'[a] = "failed" PROVE Len(file') = 2 * head
  <2>1. file' = file
    BY <1>1, <1>13 DEF ThreadWrites, Finish, TypeOK
  <2> QED
    BY <1>6, <1>10, <1>13, <2>1
<1>14. SoundInv'
  BY <1>1, <1>4, <1>5, <1>6, <1>9, <1>11, <1>12, <1>13 DEF SoundInv, Counted, OneMore
<1>15. ASSUME NEW b \in Appends PROVE ReturnedInv(b)'
  <2>1. CASE b = a
    BY <1>1, <2>1 DEF ReturnedInv, ThreadWrites, Finish, TypeOK
  <2>2. CASE b # a
    BY <1>1, <1>5, <1>6, <1>9, <2>2 DEF IInv, ReturnedInv
  <2> QED
    BY <2>1, <2>2
<1> QED
  BY <1>3, <1>8, <1>14, <1>15 DEF IInv

(* A sync keeps the invariant.                                             *)
LEMMA SyncPreserves ==
    ASSUME IInv, TypeOK', NEW a \in Appends, ThreadSyncs(a)
    PROVE  IInv'
<1>1. TypeOK /\ UNCHANGED <<fsync, isOpen, head, lock, pc, file, dirEntry, kept>>
  BY DEF IInv, ThreadSyncs
<1>2. thread[a] = "sync" /\ thread'[a] \in {"returned", "failed"}
  BY <1>1 DEF ThreadSyncs, Finish, TypeOK
<1>3. \A b \in Appends : b # a => thread'[b] = thread[b] /\ answer'[b] = answer[b]
  BY <1>1 DEF ThreadSyncs, Finish, TypeOK
<1>4. sound' => sound
  BY DEF ThreadSyncs
<1>5. isOpen
  BY <1>2 DEF IInv, CallInv
<1>6. synced <= synced'
  BY <1>1 DEF ThreadSyncs, TypeOK
<1>7. KeptInv'
  <2>1. \A e \in kept : e.seq \in Nat
    BY <1>1 DEF TypeOK, Entry
  <2> QED
    BY <1>1, <1>6, <2>1 DEF IInv, KeptInv, Parses, FrameAt, TypeOK
<1>8. ASSUME NEW b \in Appends PROVE CallInv(b)'
  BY <1>1, <1>2, <1>3, <1>4, <1>5 DEF IInv, CallInv
<1>9. ASSUME sound, NEW b \in Appends, b # a PROVE thread[b] = "idle" /\ lock # b
  BY <1>2, <1>9, OneThread
<1>10. sound' => thread'[a] = "returned"
  BY <1>1 DEF ThreadSyncs, Finish, TypeOK
<1>11. SoundInv'
  BY <1>1, <1>2, <1>3, <1>4, <1>9, <1>10
     DEF IInv, SoundInv, Counted, OneMore, Parses, FrameAt
<1>12. ASSUME NEW b \in Appends PROVE ReturnedInv(b)'
  <2>1. CASE b = a
    BY <1>1, <2>1 DEF ReturnedInv, ThreadSyncs, Finish, TypeOK
  <2>2. CASE b # a
    BY <1>1, <1>3, <1>4, <1>9, <2>2 DEF IInv, ReturnedInv
  <2> QED
    BY <2>1, <2>2
<1> QED
  BY <1>7, <1>8, <1>11, <1>12 DEF IInv

(* A return keeps the invariant.                                           *)
LEMMA ReturnPreserves ==
    ASSUME IInv, TypeOK', NEW a \in Appends, Return(a)
    PROVE  IInv'
<1>1. TypeOK /\ UNCHANGED <<fsync, isOpen, answer, file, synced, dirEntry, sound>>
  BY DEF IInv, Return, diskVars
<1>2. lock = a /\ lock' = Nobody /\ isOpen
  BY DEF IInv, CallInv, Return
<1>3. /\ thread'[a] = "idle" /\ pc'[a] = "done"
      /\ \A b \in Appends : b # a => thread'[b] = thread[b] /\ pc'[b] = pc[b]
  BY <1>1 DEF Return, TypeOK
<1>4. ASSUME NEW b \in Appends PROVE CallInv(b)'
  BY <1>1, <1>2, <1>3, JournalAssumption DEF IInv, CallInv
<1>5. ASSUME NEW b \in Appends PROVE ReturnedInv(b)'
  BY <1>2, JournalAssumption DEF ReturnedInv
<1>6. ASSUME sound, NEW b \in Appends, b # a PROVE thread[b] = "idle"
  BY <1>2, <1>6, OneThread
<1>7. thread[a] \in {"returned", "failed"}
  BY DEF Return
<1>8. ASSUME thread[a] = "returned"
      PROVE  head' = head + 1 /\ answer[a] = head + 1
             /\ (sound /\ fsync => synced = Len(file))
  BY <1>1, <1>2, <1>8 DEF IInv, ReturnedInv, Return
<1>9. ASSUME sound, thread[a] = "returned"
      PROVE  Parses(file, head + 1) /\ FrameAt(file, head + 1, a) /\ Len(file) = 2 * head + 2
  <2>1. Parses(file, head) /\ FrameAt(file, head + 1, a) /\ Len(file) = 2 * head + 2
    BY <1>2, <1>9 DEF IInv, SoundInv, OneMore
  <2> QED
    BY <1>1, <2>1, ParsesOneMore DEF TypeOK
<1>10. ASSUME thread[a] = "failed" PROVE UNCHANGED <<head, kept>>
  BY <1>10 DEF Return
<1>11. SoundInv'
  <2>1. CASE thread[a] = "returned"
    <3>1. sound => Parses(file, head)' /\ Len(file') = 2 * head'
      BY <1>1, <1>8, <1>9, <2>1 DEF Parses, FrameAt, TypeOK
    <3>2. sound => \A b \in Appends : thread'[b] = "idle"
      BY <1>3, <1>6
    <3> QED
      BY <1>1, <3>1, <3>2 DEF SoundInv, Counted
  <2>2. CASE thread[a] = "failed"
    <3>1. sound => Parses(file, head) /\ Len(file) = 2 * head
      BY <1>2, <1>6, <2>2 DEF IInv, SoundInv, Counted
    <3>2. sound => \A b \in Appends : thread'[b] = "idle"
      BY <1>3, <1>6
    <3> QED
      BY <1>1, <1>10, <2>2, <3>1, <3>2 DEF SoundInv, Counted, Parses, FrameAt
  <2> QED
    BY <1>7, <2>1, <2>2
<1>12. KeptInv'
  <2>1. head <= head'
    BY <1>1, <1>7, <1>8, <1>10 DEF TypeOK
  <2>2. ASSUME NEW e \in kept
        PROVE  /\ e.seq > 0 /\ dirEntry = "durable"
               /\ fsync => /\ 2 * e.seq <= synced /\ e.seq <= head'
                           /\ Parses(file, e.seq) /\ FrameAt(file, e.seq, e.rec)
    <3>1. e.seq \in Nat /\ head \in Nat /\ head' \in Nat
      BY <1>1 DEF TypeOK, Entry
    <3> QED
      BY <1>2, <2>1, <3>1 DEF IInv, KeptInv
  <2>3. ASSUME NEW e \in kept' \ kept
        PROVE  /\ e.seq > 0 /\ dirEntry = "durable"
               /\ fsync => /\ 2 * e.seq <= synced /\ e.seq <= head'
                           /\ Parses(file, e.seq) /\ FrameAt(file, e.seq, e.rec)
    <3>1. sound /\ dirEntry = "durable" /\ thread[a] = "returned" /\ e = [rec |-> a, seq |-> answer[a]]
      BY <2>3 DEF Return
    <3>2. e.rec = a /\ e.seq = head + 1 /\ head' = head + 1 /\ head \in Nat
      BY <1>1, <1>8, <3>1 DEF TypeOK
    <3> QED
      BY <1>8, <1>9, <3>1, <3>2
  <2>4. \A e \in kept' : (e.seq > 0 /\ dirEntry = "durable" /\ (fsync => /\ 2 * e.seq <= synced /\ e.seq <= head'
                           /\ Parses(file, e.seq) /\ FrameAt(file, e.seq, e.rec)))
    BY <2>2, <2>3
  <2> QED
    BY <1>1, <2>4 DEF KeptInv, Parses, FrameAt
<1> QED
  BY <1>4, <1>5, <1>11, <1>12 DEF IInv

(* A crash keeps the invariant: what was synced is there.                  *)
LEMMA CrashPreserves == ASSUME IInv, TypeOK', Crash PROVE IInv'
<1>1. TypeOK /\ UNCHANGED <<fsync, kept>> /\ isOpen' = FALSE /\ lock' = Nobody
  BY DEF IInv, Crash, historyVars
<1>2. SoundInv'
  BY <1>1 DEF SoundInv
<1>3. ASSUME NEW b \in Appends PROVE CallInv(b)' /\ ReturnedInv(b)'
  BY <1>1, JournalAssumption DEF CallInv, ReturnedInv, Crash
<1>4. CASE kept = {}
  <2>1. KeptInv'
    BY <1>1, <1>4 DEF KeptInv
  <2> QED BY <1>2, <1>3, <2>1 DEF IInv
<1>5. CASE kept # {}
  <2>1. dirEntry = "durable"
    BY <1>5 DEF IInv, KeptInv
  <2>2. PICK n \in synced .. Len(file) : file' = SubSeq(file, 1, n)
    BY <2>1 DEF Crash
  <2>3. n \in 0 .. Len(file) /\ synced <= n
    BY <1>1 DEF TypeOK
  <2>4. Agree(file, file', n)
    BY <1>1, <2>2, <2>3, Cut DEF TypeOK
  <2>5. ASSUME fsync, NEW e \in kept
        PROVE  Parses(file', e.seq) /\ FrameAt(file', e.seq, e.rec)
    BY <1>1, <2>3, <2>4, <2>5, EntryKept DEF IInv
  <2>6. dirEntry' = "durable" /\ UNCHANGED synced
    BY <2>1 DEF Crash
  <2>7. KeptInv'
    BY <1>1, <2>5, <2>6 DEF IInv, KeptInv
  <2> QED BY <1>2, <1>3, <2>7 DEF IInv
<1> QED
  BY <1>4, <1>5

(* Opening again keeps the invariant.                                      *)
LEMMA OpenPreserves == ASSUME IInv, TypeOK', Open PROVE IInv'
<1>1. /\ TypeOK /\ UNCHANGED <<fsync, kept, lock, pc, thread, answer, dirEntry>>
      /\ ~isOpen /\ isOpen' = TRUE
  BY DEF IInv, Open
<1>2. ASSUME NEW b \in Appends PROVE thread'[b] = "idle" /\ lock # b
  BY <1>1 DEF IInv, CallInv
<1>3. ASSUME NEW b \in Appends PROVE CallInv(b)' /\ ReturnedInv(b)'
  BY <1>1, <1>2 DEF IInv, CallInv, ReturnedInv
<1>4. PICK n \in 0 .. Len(file) :
        /\ Scan(file, n) /\ head' = n /\ file' = SubSeq(file, 1, 2 * n)
        /\ synced' = IF synced <= 2 * n THEN synced ELSE 2 * n
  BY DEF Open
<1>5. Parses(file, n) /\ ~Parses(file, n + 1) /\ n \in Nat
  BY <1>4 DEF Scan
<1>6. 2 * n \in 0 .. Len(file)
  <2>1. CASE n = 0
    BY <1>1, <2>1 DEF TypeOK
  <2>2. CASE n > 0
    BY <1>5, <2>2 DEF Parses, FrameAt
  <2> QED
    BY <1>5, <2>1, <2>2
<1>7. file \in Seq(Chunk) /\ file' \in Seq(Chunk) /\ Len(file') = 2 * n
      /\ Agree(file, file', 2 * n)
  <2>1. file \in Seq(Chunk)
    BY <1>1 DEF TypeOK
  <2> DEFINE m == 2 * n
  <2>2. file' = SubSeq(file, 1, m) /\ m \in 0 .. Len(file)
    BY <1>4, <1>6
  <2> HIDE DEF m
  <2>3. file' \in Seq(Chunk) /\ Len(file') = m /\ Agree(file, file', m)
    BY <2>1, <2>2, Cut
  <2> QED
    BY <2>1, <2>3 DEF m
<1>8. Parses(file', n)
  BY <1>5, <1>7, ParsesKept
<1>9. SoundInv'
  BY <1>2, <1>4, <1>7, <1>8 DEF SoundInv, Counted
<1>10. ASSUME fsync, NEW e \in kept
       PROVE  /\ 2 * e.seq <= synced' /\ e.seq <= n
              /\ Parses(file', e.seq) /\ FrameAt(file', e.seq, e.rec)
  <2>1. e.seq \in Nat /\ e.seq > 0 /\ 2 * e.seq <= synced /\ e.rec \in Appends
        /\ Parses(file, e.seq) /\ FrameAt(file, e.seq, e.rec)
    BY <1>1, <1>10 DEF IInv, KeptInv, TypeOK, Entry
  <2>2. e.seq <= n
    <3>1. SUFFICES ASSUME n + 1 <= e.seq PROVE FALSE
      BY <1>5, <2>1
    <3> QED
      BY <1>5, <2>1, <3>1, ParsesLess
  <2>3. 2 * e.seq <= 2 * n
    BY <1>5, <2>1, <2>2
  <2>4. 2 * e.seq <= synced'
    BY <1>1, <1>4, <1>5, <2>1, <2>3 DEF TypeOK
  <2>5. Parses(file', e.seq) /\ FrameAt(file', e.seq, e.rec)
    BY <1>7, <2>1, <2>3, ParsesKept, FrameKept
  <2> QED
    BY <2>2, <2>4, <2>5
<1>11. KeptInv'
  BY <1>1, <1>4, <1>10 DEF IInv, KeptInv
<1> QED
  BY <1>3, <1>9, <1>11 DEF IInv

(* Every step keeps the strengthened invariant.                            *)
LEMMA IInvNext == IInv /\ [Next]_vars => IInv'
<1> SUFFICES ASSUME IInv, [Next]_vars PROVE IInv'
  OBVIOUS
<1>1. TypeOK'
  BY TypeNext DEF IInv
<1>2. CASE UNCHANGED vars
  BY <1>1, <1>2 DEF vars, processVars, diskVars, historyVars, IInv, SoundInv, Counted,
     OneMore, KeptInv, CallInv, ReturnedInv, Parses, FrameAt
<1>3. ASSUME NEW a \in Appends,
             CallAppend(a) \/ Acquire(a) \/ ThreadStep(a) \/ Return(a) \/ Cancel(a)
      PROVE  IInv'
  BY <1>1, <1>3, WaitPreserves, CancelPreserves, WritePreserves, SyncPreserves,
     ReturnPreserves DEF ThreadStep
<1> QED
  BY <1>1, <1>2, <1>3, CrashPreserves, OpenPreserves DEF Next

(* Sound journals, kept records and the calls' threads agree in every      *)
(* reachable state.                                                        *)
THEOREM Invariant == Spec => []IInv
BY IInvInit, IInvNext, PTL DEF Spec

(* With fsync, a record acknowledged while the journal was sound is read   *)
(* back at its number for ever, however many appends fail, are cancelled   *)
(* or die in a crash, and however often the log is cut on opening.         *)
THEOREM DurableAlways == Spec => []Durable
<1>1. IInv => Durable
  BY DEF IInv, KeptInv, Durable
<1> QED
  BY <1>1, Invariant, PTL

(* The head of a sound journal at rest is what a scan would find.          *)
THEOREM HeadCountsAlways == Spec => []HeadCounts
<1>1. ASSUME IInv PROVE HeadCounts
  <2> SUFFICES ASSUME isOpen, sound, lock = Nobody
               PROVE  Scan(file, head) /\ Len(file) = 2 * head
    BY DEF HeadCounts
  <2>1. \A a \in Appends : thread[a] = "idle"
    BY <1>1, OneThread, JournalAssumption
  <2>2. Parses(file, head) /\ Len(file) = 2 * head /\ head \in Nat
    BY <1>1, <2>1 DEF IInv, SoundInv, Counted, TypeOK
  <2>3. ~Parses(file, head + 1)
    BY <2>2 DEF Parses, FrameAt
  <2> QED
    BY <2>2, <2>3 DEF Scan
<1> QED
  BY <1>1, Invariant, PTL

(* No number is given out twice while the journal is open, and the number  *)
(* of a durable record never again.                                        *)
THEOREM NumbersAdvanceAlways == Spec => NumbersAdvance
<1>1. ASSUME IInv, [Next]_vars, NEW e \in promised' \ promised
      PROVE  e.seq > head /\ (fsync => \A k \in kept : e.seq > k.seq)
  <2>1. PICK a \in Appends : Return(a) /\ thread[a] = "returned"
                             /\ e = [rec |-> a, seq |-> answer[a]]
    BY <1>1 DEF Next, CallAppend, Acquire, ThreadStep, ThreadStarts, ThreadWrites,
       ThreadSyncs, Return, Cancel, Crash, Open, vars, historyVars
  <2>2. lock = a /\ isOpen
    BY <1>1, <2>1 DEF IInv, CallInv, Return
  <2>3. e.seq = head + 1 /\ head \in Nat
    BY <1>1, <2>1, <2>2 DEF IInv, ReturnedInv, TypeOK
  <2>4. ASSUME fsync, NEW k \in kept PROVE k.seq \in Nat /\ k.seq <= head
    BY <1>1, <2>2, <2>4 DEF IInv, KeptInv, TypeOK, Entry
  <2> QED
    BY <2>3, <2>4
<1>2. IInv /\ [Next]_vars =>
        [\A e \in promised' \ promised :
            e.seq > head /\ (fsync => \A k \in kept : e.seq > k.seq)]_vars
  BY <1>1
<1> QED
  BY <1>2, Invariant, PTL DEF Spec, NumbersAdvance

(* The log is sound (append, read_head): what was acknowledged durable is  *)
(* there in order, and head counts it.                                     *)
THEOREM LogSoundAlways == Spec => []LogSound
<1>1. IInv => TypeOK
  BY DEF IInv
<1> QED BY <1>1, Invariant, DurableAlways, HeadCountsAlways, PTL DEF LogSound
=============================================================================
