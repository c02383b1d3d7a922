------------------------------ MODULE Journal ------------------------------
(***************************************************************************)
(* The append-only event journal (depo/journal.py): tasks append under an  *)
(* asyncio lock, each append runs in a worker thread of its own, and       *)
(* opening the log scans it and cuts off what does not parse.              *)
(*                                                                         *)
(* A record is the append that wrote it.  The frame of a record is two     *)
(* chunks, its first and its second half; a scan reads whole frames from   *)
(* the start and stops at the first place where the two halves of one      *)
(* record do not follow each other (there the checksum or the length is    *)
(* wrong).  A write that fails may leave the first half behind.  A crash   *)
(* keeps at least what fsync has made durable, of a log that it keeps: the *)
(* append that creates the log does not sync its directory.                *)
(***************************************************************************)
EXTENDS Naturals, Sequences

CONSTANTS
    Appends,        \* calls of append, each with a record of its own
    Nobody,         \* no call
    MaxOpens        \* bound: times the journal is opened

ASSUME JournalAssumption ==
    /\ Nobody \notin Appends
    /\ MaxOpens \in Nat \ {0}

VARIABLES
    fsync,          \* the journal was configured to fsync each append
    (* the process *)
    opens,          \* times the journal was opened
    isOpen,         \* the process is up, with the journal open
    head,           \* Journal._head
    lock,           \* _append_lock: its holder, or Nobody
    pc,             \* where each call stands
    thread,         \* what the worker thread of each call is about to do
    answer,         \* the number each thread returns
    (* the disk *)
    file,           \* the log: a sequence of chunks
    synced,         \* the length of it that is durable
    dirEntry,       \* whether its directory has it: "made" may be lost
    (* history *)
    sound,          \* since the journal was opened, no append has left
                    \* something in the log without counting it
    promised,       \* acknowledged records, with their numbers
    kept            \* those acknowledged while sound, in a log that is
                    \* not lost any more

processVars == <<isOpen, head, lock, pc, thread, answer>>
diskVars == <<file, synced, dirEntry>>
historyVars == <<sound, promised, kept>>
vars == <<fsync, opens, processVars, diskVars, historyVars>>

-----------------------------------------------------------------------------
(* The log. *)

Chunk == [rec : Appends, half : {1, 2}]
First(a) == [rec |-> a, half |-> 1]
Second(a) == [rec |-> a, half |-> 2]

FrameAt(log, i, a) ==
    /\ 2 * i <= Len(log)
    /\ log[2 * i - 1] = First(a) /\ log[2 * i] = Second(a)

(* A scan of the log reads at least i records. *)
Parses(log, i) == \A j \in 1 .. i : \E a \in Appends : FrameAt(log, j, a)

(* It reads exactly n. *)
Scan(log, n) == Parses(log, n) /\ ~Parses(log, n + 1)

-----------------------------------------------------------------------------
(* Journal.append *)

CallAppend(a) ==
    /\ isOpen /\ pc[a] = "start"
    /\ pc' = [pc EXCEPT ![a] = "waiting"]
    /\ UNCHANGED <<fsync, opens, isOpen, head, lock, thread, answer>>
    /\ UNCHANGED <<diskVars, historyVars>>

(* The lock is a's: its write is handed to a worker thread.  (Waiters are  *)
(* served in order of arrival; here in any order.)                         *)
Acquire(a) ==
    /\ pc[a] = "waiting" /\ lock = Nobody
    /\ lock' = a
    /\ pc' = [pc EXCEPT ![a] = "appending"]
    /\ thread' = [thread EXCEPT ![a] = "queued"]
    /\ UNCHANGED <<fsync, opens, isOpen, head, answer, diskVars, historyVars>>

ThreadStarts(a) ==
    /\ thread[a] = "queued"
    /\ thread' = [thread EXCEPT ![a] = "write"]
    /\ UNCHANGED <<fsync, opens, isOpen, head, lock, pc, answer>>
    /\ UNCHANGED <<diskVars, historyVars>>

(* Mutant: the thread returns the number of the last record counted. *)
FinishStale(a) ==
    /\ thread' = [thread EXCEPT ![a] = "returned"]
    /\ answer' = [answer EXCEPT ![a] = head]

(* The thread returns the number after the last one counted. *)
Finish(a) ==
    /\ thread' = [thread EXCEPT ![a] = "returned"]
    /\ answer' = [answer EXCEPT ![a] = head + 1]

(* The log is opened for appending, which creates it.                      *)
Creates == dirEntry' = IF dirEntry = "none" THEN "made" ELSE dirEntry

ThreadWrites(a) ==
    /\ thread[a] = "write"
    /\ \/ /\ Creates
          /\ file' = file \o <<First(a), Second(a)>>
          /\ IF fsync
             THEN thread' = [thread EXCEPT ![a] = "sync"] /\ UNCHANGED answer
             ELSE Finish(a)
          /\ UNCHANGED sound
       \/ /\ \/ Creates /\ file' \in {file, Append(file, First(a))}
             \/ UNCHANGED <<file, dirEntry>>
          /\ thread' = [thread EXCEPT ![a] = "failed"]
          /\ sound' = (sound /\ file' = file)
          /\ UNCHANGED answer
    /\ UNCHANGED <<fsync, opens, isOpen, head, lock, pc, synced, promised, kept>>

(* fsync makes what the log holds durable, or fails. *)
ThreadSyncs(a) ==
    /\ thread[a] = "sync"
    /\ \/ Finish(a) /\ synced' = Len(file) /\ UNCHANGED sound
       \/ /\ thread' = [thread EXCEPT ![a] = "failed"]
          /\ sound' = FALSE
          /\ UNCHANGED <<answer, synced>>
    /\ UNCHANGED <<fsync, opens, isOpen, head, lock, pc, file, dirEntry, promised, kept>>

(* The task resumes: the number becomes the head and is returned, or the   *)
(* thread's exception is raised.                                           *)
Return(a) ==
    /\ pc[a] = "appending" /\ thread[a] \in {"returned", "failed"}
    /\ \/ /\ thread[a] = "returned"
          /\ head' = answer[a]
          /\ promised' = promised \cup {[rec |-> a, seq |-> answer[a]]}
          /\ kept' = IF sound /\ dirEntry = "durable"
                     THEN kept \cup {[rec |-> a, seq |-> answer[a]]} ELSE kept
       \/ /\ thread[a] = "failed"
          /\ UNCHANGED <<head, promised, kept>>
    /\ lock' = Nobody
    /\ pc' = [pc EXCEPT ![a] = "done"]
    /\ thread' = [thread EXCEPT ![a] = "idle"]
    /\ UNCHANGED <<fsync, opens, isOpen, answer, diskVars, sound>>

(* Mutant: a cancelled append keeps the lock. *)
CancelHoldingLock(a) ==
    /\ pc[a] = "appending" /\ thread[a] = "queued"
    /\ pc' = [pc EXCEPT ![a] = "done"]
    /\ thread' = [thread EXCEPT ![a] = "idle"]
    /\ UNCHANGED <<fsync, opens, isOpen, head, lock, answer, diskVars, historyVars>>

(* A cancelled append releases the lock.  A write that has not started is  *)
(* dropped; one that has started goes on, and nobody counts it.            *)
Cancel(a) ==
    /\ \/ /\ pc[a] = "waiting"
          /\ UNCHANGED <<lock, thread, sound>>
       \/ /\ pc[a] = "appending" /\ lock' = Nobody
          /\ \/ thread[a] \in {"queued", "failed"}
                /\ thread' = [thread EXCEPT ![a] = "idle"] /\ UNCHANGED sound
             \/ thread[a] \in {"write", "sync", "returned"}
                /\ sound' = FALSE /\ UNCHANGED thread
    /\ pc' = [pc EXCEPT ![a] = "done"]
    /\ UNCHANGED <<fsync, opens, isOpen, head, answer, diskVars, promised, kept>>

-----------------------------------------------------------------------------
(* The machine stops; the disk keeps what was durable and, of the rest,    *)
(* some of the beginning.  Whatever is torn in the rest reads like its     *)
(* end.  A log that was only just made may be gone altogether; if it is    *)
(* there, it stays.                                                        *)

Crash ==
    /\ isOpen
    /\ isOpen' = FALSE
    /\ \/ /\ dirEntry = "made"
          /\ dirEntry' = "none" /\ file' = <<>> /\ synced' = 0
       \/ /\ \E n \in synced .. Len(file) : file' = SubSeq(file, 1, n)
          /\ dirEntry' = IF dirEntry = "made" THEN "durable" ELSE dirEntry
          /\ UNCHANGED synced
    /\ lock' = Nobody
    /\ pc' = [a \in Appends |-> IF pc[a] = "start" THEN "start" ELSE "done"]
    /\ thread' = [a \in Appends |-> "idle"]
    /\ UNCHANGED <<fsync, opens, head, answer, historyVars>>

(* Mutant: the log is not cut behind the last record read. *)
OpenWithoutTruncate ==
    /\ ~isOpen /\ opens < MaxOpens
    /\ opens' = opens + 1 /\ isOpen' = TRUE
    /\ \E n \in 0 .. Len(file) : Scan(file, n) /\ head' = n
    /\ sound' = TRUE
    /\ UNCHANGED <<fsync, lock, pc, thread, answer, diskVars, promised, kept>>

(* Journal.open: the scan decides the head, and what it did not read goes. *)
Open ==
    /\ ~isOpen /\ opens < MaxOpens
    /\ opens' = opens + 1 /\ isOpen' = TRUE
    /\ \E n \in 0 .. Len(file) :
        /\ Scan(file, n)
        /\ head' = n
        /\ file' = SubSeq(file, 1, 2 * n)
        /\ synced' = IF synced <= 2 * n THEN synced ELSE 2 * n
    /\ sound' = TRUE
    /\ UNCHANGED <<fsync, lock, pc, thread, answer, dirEntry, promised, kept>>

-----------------------------------------------------------------------------

Init ==
    /\ fsync \in BOOLEAN
    /\ opens = 0 /\ isOpen = FALSE /\ head = 0 /\ lock = Nobody
    /\ pc = [a \in Appends |-> "start"]
    /\ thread = [a \in Appends |-> "idle"]
    /\ answer = [a \in Appends |-> 0]
    /\ file = <<>> /\ synced = 0 /\ dirEntry \in {"none", "durable"}
    /\ sound = TRUE /\ promised = {} /\ kept = {}

ThreadStep(a) == ThreadStarts(a) \/ ThreadWrites(a) \/ ThreadSyncs(a)

Next ==
    \/ \E a \in Appends :
        CallAppend(a) \/ Acquire(a) \/ ThreadStep(a) \/ Return(a) \/ Cancel(a)
    \/ Crash
    \/ Open

Spec == Init /\ [][Next]_vars

(* The loop and the threads run; nothing obliges a call or a crash.        *)
Fairness ==
    \A a \in Appends :
        WF_vars(Acquire(a)) /\ WF_vars(ThreadStep(a)) /\ WF_vars(Return(a))

FairSpec == Spec /\ Fairness

-----------------------------------------------------------------------------
(* Properties. *)

Entry == [rec : Appends, seq : Nat]

(* Every variable keeps its type. *)
TypeOK ==
    /\ fsync \in BOOLEAN /\ isOpen \in BOOLEAN /\ sound \in BOOLEAN
    /\ opens \in 0 .. MaxOpens /\ head \in Nat
    /\ lock \in Appends \cup {Nobody}
    /\ pc \in [Appends -> {"start", "waiting", "appending", "done"}]
    /\ thread \in [Appends -> {"idle", "queued", "write", "sync", "returned", "failed"}]
    /\ answer \in [Appends -> Nat]
    /\ file \in Seq(Chunk) /\ synced \in 0 .. Len(file)
    /\ dirEntry \in {"none", "made", "durable"}
    /\ kept \subseteq promised /\ promised \subseteq Entry

(* A record acknowledged while the journal was sound is read back at its   *)
(* own number for ever: through later appends that fail or are cancelled,  *)
(* through crashes, and before and after the log is cut on opening.  That  *)
(* is, once the log's own directory entry has outlived a crash: until then *)
(* a crash may take the log away, and every record in it.                  *)
Durable ==
    fsync => \A e \in kept : Parses(file, e.seq) /\ FrameAt(file, e.seq, e.rec)

(* While the journal is sound and nobody appends, the head is the number   *)
(* of records a scan reads.                                                *)
HeadCounts == isOpen /\ sound /\ lock = Nobody => Scan(file, head) /\ Len(file) = 2 * head

(* The log is sound: what was acknowledged durably is read back at its own *)
(* number, and the head counts what a scan reads.                          *)
LogSound == TypeOK /\ Durable /\ HeadCounts

(* Cancelled and failed appends notwithstanding, a number once             *)
(* acknowledged is not given out again before the journal is opened anew,  *)
(* and one kept durable never again.                                       *)
NumbersAdvance ==
    [][\A e \in promised' \ promised :
        e.seq > head /\ (fsync => \A k \in kept : e.seq > k.seq)]_vars

(* No append waits for ever: a failure, a cancellation or a crash always   *)
(* gives the lock back.                                                    *)
AppendEnds == \A a \in Appends : (pc[a] # "start") ~> (pc[a] = "done")

(* Opening cuts "a torn or bad-CRC trailing record", with "no silent data  *)
(* loss" (journal.py:7): every acknowledged record is still read, at least *)
(* before the first crash.                                                 *)
NoSilentLoss ==
    fsync /\ isOpen /\ opens = 1 =>
        \A e \in promised : \E i \in 1 .. Len(file) : Parses(file, i) /\ FrameAt(file, i, e.rec)
=============================================================================
