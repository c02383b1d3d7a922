----------------------------- MODULE BlobStore -----------------------------
(***************************************************************************)
(* The content-addressed blob store (depo/blobs.py): the bytes of a blob   *)
(* are a file, its reference count a row of the workspace database.        *)
(*                                                                         *)
(* Clients put a blob, retain it, and may release it later; collectors     *)
(* read the referenced hashes and then unlink, file by file, whatever they *)
(* did not read.  Files are handled by worker threads, the rows by the     *)
(* database (module Database), whose lock lets one transaction run at a    *)
(* time, but whose reads outside a transaction use the same connection and *)
(* so see the open transaction's rows.  Blobs and database are configured  *)
(* to be durable (fsync).  A crash may undo a rename or an unlink whose    *)
(* directory was not synced afterwards, and may take away a shard          *)
(* directory that a put made, since what lists it is never synced.  Each   *)
(* blob has a shard of its own.                                            *)
(***************************************************************************)
EXTENDS Naturals, FiniteSets

CONSTANTS
    Clients,        \* each puts, retains and releases one blob, once
    Collectors,     \* calls of collect_garbage
    Blobs,          \* contents
    Nobody,         \* no client; no blob
    MaxCrashes      \* bound: crashes of the process or the machine

ASSUME BlobStoreAssumption ==
    /\ Nobody \notin Clients \cup Blobs
    /\ IsFiniteSet(Clients) /\ MaxCrashes \in Nat

VARIABLES
    (* the clients *)
    wants,          \* the blob of each client
    pc,             \* where each client stands
    put,            \* the worker thread of its put
    (* the collectors *)
    sweep,          \* where each collector, and its worker thread, stands
    referenced,     \* the hashes it read
    todo,           \* the names its sweep has still to come to
    doomed,         \* the file it is about to unlink, or Nobody
    (* the database *)
    tx,             \* the client whose transaction is open, or Nobody
    rows,           \* blob_refcount, as the connection sees it
    committed,      \* and as it is on the disk
    (* the directory *)
    present,        \* the blobs whose file is there
    durable,        \* those whose shard is synced, with the file in it
    limbo,          \* those whose shard may have the file after a crash or not
    shards,         \* those whose shard is there after a crash
    (* history *)
    crashes,
    atRisk,         \* clients that retain what a collection under way or
                    \* a crash can take from under them
    fresh           \* blobs written since each collector at work read the rows

clientVars == <<wants, pc, put>>
sweepVars == <<sweep, referenced, todo, doomed>>
rowVars == <<tx, rows, committed>>
fileVars == <<present, durable, limbo, shards>>
historyVars == <<crashes, atRisk, fresh>>
vars == <<clientVars, sweepVars, rowVars, fileVars, historyVars>>

Goto(c, where) == pc' = [pc EXCEPT ![c] = where]
Thread(c, where) == put' = [put EXCEPT ![c] = where]
(* The thread ends; with its client cancelled, nobody reads its answer.    *)
Answer(c, outcome) == Thread(c, IF pc[c] = "putting" THEN outcome ELSE "idle")

Collecting(g) == sweep[g] \in {"read", "sweeping"}

(* c has begun to store what it has not yet retained. *)
Exposed(c) == put[c] # "idle" \/ pc[c] \in {"stored", "retaining"}

-----------------------------------------------------------------------------
(* put *)

Put(c) ==
    /\ pc[c] = "start"
    /\ Goto(c, "putting") /\ Thread(c, "check")
    /\ UNCHANGED <<wants, sweepVars, rowVars, fileVars, historyVars>>

(* A file that exists is taken for stored. *)
PutCheck(c) ==
    /\ put[c] = "check"
    /\ IF wants[c] \in present THEN Answer(c, "stored") ELSE Thread(c, "write")
    /\ atRisk' = IF \/ wants[c] \in limbo \/ wants[c] \notin shards
                    \/ \E g \in Collectors : Collecting(g)
                 THEN atRisk \cup {c} ELSE atRisk
    /\ UNCHANGED <<wants, pc, sweepVars, rowVars, fileVars, crashes, fresh>>

(* The temporary file is written, synced and renamed, or something fails.  *)
PutReplace(c) ==
    /\ put[c] = "write"
    /\ \/ /\ Thread(c, "renamed")
          /\ present' = present \cup {wants[c]}
          /\ limbo' = IF wants[c] \in durable THEN limbo ELSE limbo \cup {wants[c]}
          /\ fresh' = [g \in Collectors |->
                IF Collecting(g) THEN fresh[g] \cup {wants[c]} ELSE fresh[g]]
       \/ Answer(c, "failed") /\ UNCHANGED <<present, limbo, fresh>>
    /\ UNCHANGED <<wants, pc, sweepVars, rowVars, durable, shards, crashes, atRisk>>

(* Mutant: the directory is not synced. *)
PutSyncNothing(c) ==
    /\ put[c] = "renamed"
    /\ Answer(c, "stored")
    /\ UNCHANGED <<wants, pc, sweepVars, rowVars, fileVars, historyVars>>

(* The shard is synced: whatever it holds is durable, as long as it is.   *)
PutSync(c) ==
    /\ put[c] = "renamed"
    /\ \/ /\ Answer(c, "stored")
          /\ limbo' = limbo \ {wants[c]}
          /\ durable' = IF wants[c] \in present THEN durable \cup {wants[c]} ELSE durable
       \/ Answer(c, "failed") /\ UNCHANGED <<limbo, durable>>
    /\ UNCHANGED <<wants, pc, sweepVars, rowVars, present, shards, historyVars>>

PutReturns(c) ==
    /\ pc[c] = "putting" /\ put[c] \in {"stored", "failed"}
    /\ Goto(c, IF put[c] = "stored" THEN "stored" ELSE "done")
    /\ Thread(c, "idle")
    /\ UNCHANGED <<wants, sweepVars, rowVars, fileVars, historyVars>>

(* The client's task is cancelled; the thread goes on. *)
CancelPut(c) ==
    /\ pc[c] = "putting"
    /\ Goto(c, "done")
    /\ IF put[c] \in {"stored", "failed"} THEN Thread(c, "idle") ELSE UNCHANGED put
    /\ UNCHANGED <<wants, sweepVars, rowVars, fileVars, historyVars>>

-----------------------------------------------------------------------------
(* retain and release: one transaction each *)

Change(c, from, to, count) ==
    /\ pc[c] = from /\ tx = Nobody
    /\ tx' = c
    /\ rows' = [rows EXCEPT ![wants[c]] = count]
    /\ Goto(c, to)
    /\ UNCHANGED <<wants, put, committed, sweepVars, fileVars, historyVars>>

Retain(c) == Change(c, "stored", "retaining", rows[wants[c]] + 1)

(* A row that is not there is not counted down. *)
Release(c) ==
    Change(c, "holding", "releasing",
           IF rows[wants[c]] > 0 THEN rows[wants[c]] - 1 ELSE 0)

(* COMMIT.  A client cancelled while it runs is not told: its reference    *)
(* stays for ever.                                                         *)
Commit(c) ==
    /\ tx = c
    /\ tx' = Nobody /\ committed' = rows
    /\ \/ pc[c] = "retaining" /\ (Goto(c, "holding") \/ Goto(c, "leaked"))
       \/ pc[c] = "releasing" /\ Goto(c, "done")
    /\ UNCHANGED <<wants, put, rows, sweepVars, fileVars, historyVars>>

Rollback(c) ==
    /\ tx = c
    /\ tx' = Nobody /\ rows' = committed
    /\ Goto(c, IF pc[c] = "retaining" THEN "done" ELSE "unreleased")
    /\ UNCHANGED <<wants, put, committed, sweepVars, fileVars, historyVars>>

-----------------------------------------------------------------------------
(* collect_garbage *)

(* The referenced hashes, as the connection sees them now. *)
Collect(g) ==
    /\ sweep[g] = "start"
    /\ sweep' = [sweep EXCEPT ![g] = "read"]
    /\ referenced' = [referenced EXCEPT ![g] = {b \in Blobs : rows[b] > 0}]
    /\ atRisk' = atRisk \cup {c \in Clients : Exposed(c)}
    /\ UNCHANGED <<clientVars, rowVars, fileVars, todo, doomed, crashes, fresh>>

(* The collection is over, and with it what it remembers. *)
End(g, how) ==
    /\ sweep' = [sweep EXCEPT ![g] = how]
    /\ referenced' = [referenced EXCEPT ![g] = {}]
    /\ todo' = [todo EXCEPT ![g] = {}]
    /\ fresh' = [fresh EXCEPT ![g] = {}]

(* The worker thread starts, or the collector is cancelled before.         *)
Sweep(g) ==
    /\ sweep[g] = "read"
    /\ \/ /\ sweep' = [sweep EXCEPT ![g] = "sweeping"]
          /\ todo' = [todo EXCEPT ![g] = Blobs]
          /\ UNCHANGED <<referenced, fresh>>
       \/ End(g, "failed")
    /\ UNCHANGED <<clientVars, doomed, rowVars, fileVars, crashes, atRisk>>

(* Mutant: the sweep comes to the same name again. *)
VisitAgain(g, b) ==
    /\ sweep[g] = "sweeping" /\ doomed[g] = Nobody /\ b \in todo[g]
    /\ doomed' = IF b \in present \ referenced[g] THEN [doomed EXCEPT ![g] = b] ELSE doomed
    /\ UNCHANGED <<clientVars, sweep, referenced, todo, rowVars, fileVars, historyVars>>

(* It comes to the name b; there may be no such file. *)
Visit(g, b) ==
    /\ sweep[g] = "sweeping" /\ doomed[g] = Nobody /\ b \in todo[g]
    /\ todo' = [todo EXCEPT ![g] = @ \ {b}]
    /\ doomed' = IF b \in present \ referenced[g] THEN [doomed EXCEPT ![g] = b] ELSE doomed
    /\ UNCHANGED <<clientVars, sweep, referenced, rowVars, fileVars, historyVars>>

(* Mutant: the file is counted, not unlinked. *)
UnlinkNothing(g) ==
    /\ doomed[g] # Nobody
    /\ doomed' = [doomed EXCEPT ![g] = Nobody]
    /\ UNCHANGED <<clientVars, sweep, referenced, todo, rowVars, fileVars, historyVars>>

(* Should another sweep have taken the file, unlink raises. *)
Unlink(g) ==
    /\ doomed[g] # Nobody
    /\ \/ /\ doomed[g] \in present
          /\ present' = present \ {doomed[g]}
          /\ durable' = durable \ {doomed[g]}
          /\ limbo' = limbo \cup {doomed[g]}
          /\ UNCHANGED <<shards, sweep, referenced, todo, fresh>>
       \/ /\ doomed[g] \notin present
          /\ End(g, "failed")
          /\ UNCHANGED fileVars
    /\ doomed' = [doomed EXCEPT ![g] = Nobody]
    /\ UNCHANGED <<clientVars, rowVars, crashes, atRisk>>

SweepEnds(g) ==
    /\ sweep[g] = "sweeping" /\ todo[g] = {} /\ doomed[g] = Nobody
    /\ End(g, "swept")
    /\ UNCHANGED <<clientVars, doomed, rowVars, fileVars, crashes, atRisk>>

-----------------------------------------------------------------------------
(* References are kept by their owners through a crash; an unfinished      *)
(* transaction is not.                                                     *)
Crash ==
    /\ crashes < MaxCrashes /\ crashes' = crashes + 1
    /\ pc' = [c \in Clients |->
                CASE pc[c] \in {"start", "holding", "unreleased", "leaked"} -> pc[c]
                  [] pc[c] = "releasing" -> "unreleased"
                  [] OTHER -> "done"]
    /\ put' = [c \in Clients |-> "idle"]
    /\ tx' = Nobody /\ rows' = committed
    /\ sweep' = [g \in Collectors |-> IF Collecting(g) THEN "failed" ELSE sweep[g]]
    /\ doomed' = [g \in Collectors |-> Nobody]
    /\ \E some \in SUBSET limbo, laid \in SUBSET (durable \cup limbo) :
          /\ shards' = shards \cup laid
          /\ present' = (durable \cup some) \cap shards'
    /\ durable' = present' /\ limbo' = {}
    /\ referenced' = [g \in Collectors |-> {}] /\ todo' = [g \in Collectors |-> {}]
    /\ fresh' = [g \in Collectors |-> {}]
    /\ UNCHANGED <<wants, committed, atRisk>>

-----------------------------------------------------------------------------

Init ==
    /\ wants \in [Clients -> Blobs]
    /\ pc = [c \in Clients |-> "start"] /\ put = [c \in Clients |-> "idle"]
    /\ sweep = [g \in Collectors |-> "start"]
    /\ referenced = [g \in Collectors |-> {}] /\ todo = [g \in Collectors |-> {}]
    /\ doomed = [g \in Collectors |-> Nobody]
    /\ tx = Nobody
    /\ rows = [b \in Blobs |-> 0] /\ committed = [b \in Blobs |-> 0]
    /\ present = {} /\ durable = {} /\ limbo = {} /\ shards \in SUBSET Blobs
    /\ crashes = 0 /\ atRisk = {} /\ fresh = [g \in Collectors |-> {}]

PutThread(c) == PutCheck(c) \/ PutReplace(c) \/ PutSync(c)
EndTransaction(c) == Commit(c) \/ Rollback(c)
SweepThread(g) == Sweep(g) \/ (\E b \in Blobs : Visit(g, b)) \/ Unlink(g) \/ SweepEnds(g)

Next ==
    \/ \E c \in Clients :
        \/ Put(c) \/ PutThread(c) \/ PutReturns(c) \/ CancelPut(c)
        \/ Retain(c) \/ Release(c) \/ EndTransaction(c)
    \/ \E g \in Collectors : Collect(g) \/ SweepThread(g)
    \/ Crash

Spec == Init /\ [][Next]_vars

(* Threads run to their end, their tasks resume, and transactions end.     *)
Fairness ==
    /\ \A c \in Clients :
        WF_vars(PutThread(c)) /\ WF_vars(PutReturns(c)) /\ WF_vars(EndTransaction(c))
    /\ \A g \in Collectors : WF_vars(SweepThread(g))

FairSpec == Spec /\ Fairness

-----------------------------------------------------------------------------
(* Properties. *)

(* Every variable keeps its type. *)
TypeOK ==
    /\ wants \in [Clients -> Blobs]
    /\ pc \in [Clients -> {"start", "putting", "stored", "retaining", "holding",
                           "releasing", "unreleased", "leaked", "done"}]
    /\ put \in [Clients -> {"idle", "check", "write", "renamed", "stored", "failed"}]
    /\ sweep \in [Collectors -> {"start", "read", "sweeping", "swept", "failed"}]
    /\ referenced \in [Collectors -> SUBSET Blobs] /\ todo \in [Collectors -> SUBSET Blobs]
    /\ doomed \in [Collectors -> Blobs \cup {Nobody}]
    /\ tx \in Clients \cup {Nobody}
    /\ rows \in [Blobs -> Nat] /\ committed \in [Blobs -> Nat]
    /\ present \subseteq Blobs /\ durable \subseteq present /\ limbo \subseteq Blobs \ durable
    /\ shards \subseteq Blobs
    /\ crashes \in 0 .. MaxCrashes /\ atRisk \subseteq Clients
    /\ fresh \in [Collectors -> SUBSET Blobs]

Referring(b) ==
    {c \in Clients : wants[c] = b /\ pc[c] \in {"holding", "releasing", "unreleased", "leaked"}}

(* The committed count of a blob is the number of references to it,        *)
(* through failed transactions and crashes, and outside a transaction the  *)
(* connection sees nothing else.                                           *)
Balanced ==
    /\ \A b \in Blobs : committed[b] = Cardinality(Referring(b))
    /\ tx = Nobody => rows = committed

(* A blob whose client stored and retained it while nothing was collected, *)
(* in a shard that had outlived a crash, stays there, through every later  *)
(* collection and crash, until its client sets about releasing it.         *)
HeldUnlessRaced ==
    \A c \in Clients \ atRisk : pc[c] = "holding" => wants[c] \in durable \cap shards

(* The store keeps count: rows are the references there are, and what is   *)
(* held is stored unless a collection raced with it.                       *)
CountsHold == TypeOK /\ Balanced /\ HeldUnlessRaced

(* A sweep that ends leaves no file that it had not read as referenced,    *)
(* except those written meanwhile (blobs.py:11, orphans are swept too).    *)
NoOrphanLeft ==
    [][\A g \in Collectors :
        sweep[g] # "swept" /\ sweep'[g] = "swept" => present \subseteq referenced[g] \cup fresh[g]]_vars

(* Puts and collections end, whatever they race with. *)
CallsEnd ==
    /\ \A c \in Clients : pc[c] = "putting" ~> pc[c] # "putting"
    /\ \A g \in Collectors : Collecting(g) ~> ~Collecting(g)

(* A blob is reclaimed "only when nothing references it" (blobs.py:11).    *)
HeldIsStored == \A c \in Clients : pc[c] = "holding" => wants[c] \in present
=============================================================================
