--------------------------- MODULE BlobStoreProofs --------------------------
(***************************************************************************)
(* The blob store's counts and files for any clients, collections, blobs   *)
(* and crashes.                                                            *)
(*                                                                         *)
(* The connection's rows differ from the committed ones by the change of   *)
(* the one transaction that is open.  A client that no collection, no      *)
(* unfinished rename and no new shard endangered has its blob on the disk  *)
(* from the end of its put: no collection is at work until it holds its    *)
(* reference, and every later one reads that reference.                    *)
(***************************************************************************)
EXTENDS BlobStore, FiniteSetTheorems, TLAPS

(* What the transaction of c has changed so far. *)
TxInv(c) ==
    /\ tx = c <=> pc[c] \in {"retaining", "releasing"}
    /\ tx = c =>
        rows = [committed EXCEPT ![wants[c]] = IF pc[c] = "retaining" THEN @ + 1 ELSE @ - 1]

(* A put's thread and its client. *)
ThreadInv(c) ==
    /\ put[c] # "idle" => pc[c] \in {"putting", "done"}
    /\ put[c] \in {"stored", "failed"} => pc[c] = "putting"

SweepInv(g) ==
    doomed[g] # Nobody => sweep[g] = "sweeping" /\ doomed[g] \notin referenced[g]

FileInv == present \subseteq durable \cup limbo

(* c has looked for its file and does not hold its reference yet. *)
Underway(c) ==
    \/ pc[c] = "putting" /\ put[c] \in {"write", "renamed", "stored"}
    \/ pc[c] \in {"stored", "retaining"}

Kept(c) == put[c] = "stored" \/ pc[c] \in {"stored", "retaining", "holding"}

SafeInv(c) ==
    c \notin atRisk =>
        /\ Underway(c) => \A g \in Collectors : ~Collecting(g)
        /\ pc[c] = "putting" /\ put[c] = "renamed" => wants[c] \in present
        /\ Kept(c) => wants[c] \in durable
        /\ Underway(c) \/ pc[c] = "holding" => wants[c] \in shards
        /\ pc[c] = "holding" =>
            \A g \in Collectors : Collecting(g) => wants[c] \in referenced[g]

IInv ==
    /\ TypeOK /\ Balanced /\ FileInv
    /\ \A c \in Clients : TxInv(c) /\ ThreadInv(c) /\ SafeInv(c)
    /\ \A g \in Collectors : SweepInv(g)





-----------------------------------------------------------------------------
(* References and their number. *)

Refers(where) == where \in {"holding", "releasing", "unreleased", "leaked"}

(* The references to a blob are finitely many, and a natural number.       *)
LEMMA ReferringFinite ==
    ASSUME NEW b
    PROVE  IsFiniteSet(Referring(b)) /\ Cardinality(Referring(b)) \in Nat
<1>1. Referring(b) \in SUBSET Clients /\ IsFiniteSet(Clients)
  BY BlobStoreAssumption DEF Referring
<1> QED
  BY <1>1, FS_Subset, FS_CardinalityType

(* A blob somebody refers to has a count, and one more if another does.    *)
LEMMA ReferringCounts ==
    ASSUME NEW b, NEW c, c \in Referring(b)
    PROVE  /\ Cardinality(Referring(b)) >= 1
           /\ \A d \in Referring(b) : d # c => Cardinality(Referring(b)) >= 2
<1>1. Cardinality({c}) = 1 /\ {c} \in SUBSET Referring(b)
  BY FS_Singleton
<1>2. Cardinality(Referring(b)) >= 1
  BY <1>1, ReferringFinite, FS_Subset
<1>3. ASSUME NEW d \in Referring(b), d # c PROVE Cardinality(Referring(b)) >= 2
  <2>1. Cardinality(Referring(b)) = 1 => {c} = Referring(b)
    BY <1>1, ReferringFinite, FS_Subset
  <2> QED
    BY <2>1, <1>2, <1>3, ReferringFinite
<1> QED
  BY <1>2, <1>3

(* Who refers to a blob depends on where the clients stand, and is left    *)
(* alone by whatever moves none of them into or out of a reference.        *)
LEMMA SameReferences ==
    ASSUME wants' = wants, \A c \in Clients : Refers(pc'[c]) <=> Refers(pc[c]),
           NEW b
    PROVE  Referring(b)' = Referring(b)
BY DEF Referring, Refers

-----------------------------------------------------------------------------
(* The types. *)

(* Initially every part holds.                                             *)
LEMMA InitHolds == Init => IInv
<1> SUFFICES ASSUME Init PROVE IInv
  OBVIOUS
<1>1. TypeOK
  BY BlobStoreAssumption DEF Init, TypeOK
<1>2. \A b \in Blobs : Referring(b) = {}
  BY DEF Init, Referring
<1>3. Balanced
  BY <1>2, FS_EmptySet DEF Init, Balanced
<1>4. ASSUME NEW c \in Clients PROVE TxInv(c) /\ ThreadInv(c) /\ SafeInv(c)
  BY BlobStoreAssumption DEF Init, TxInv, ThreadInv, SafeInv, Underway, Kept
<1>5. FileInv /\ \A g \in Collectors : SweepInv(g)
  BY DEF Init, FileInv, SweepInv
<1> QED
  BY <1>1, <1>3, <1>4, <1>5 DEF IInv

(* Every step keeps the types; a count is taken down only where it is not  *)
(* zero.                                                                   *)
LEMMA TypeStep ==
    ASSUME TypeOK, [Next]_vars
    PROVE  TypeOK'
<1> USE DEF TypeOK
<1>1. CASE UNCHANGED vars
  BY <1>1 DEF vars, clientVars, sweepVars, rowVars, fileVars, historyVars
<1>2. ASSUME NEW c \in Clients, Put(c) \/ PutCheck(c) \/ PutSync(c) \/ PutReturns(c) \/ CancelPut(c)
      PROVE  TypeOK'
  BY <1>2 DEF Put, PutCheck, PutSync, PutReturns, CancelPut, Goto, Thread, Answer,
     sweepVars, rowVars, fileVars, historyVars
<1>3. ASSUME NEW c \in Clients, PutReplace(c) PROVE TypeOK'
  BY <1>3 DEF PutReplace, Thread, Answer, sweepVars, rowVars
<1>4. ASSUME NEW c \in Clients, Retain(c) \/ Release(c) \/ EndTransaction(c) PROVE TypeOK'
  BY <1>4 DEF Retain, Release, Change, EndTransaction, Commit, Rollback, Goto,
     sweepVars, fileVars, historyVars
<1>5. ASSUME NEW g \in Collectors, Collect(g) \/ SweepThread(g) PROVE TypeOK'
  BY <1>5 DEF Collect, SweepThread, Sweep, Visit, Unlink, SweepEnds, End,
     clientVars, rowVars, fileVars, historyVars
<1>6. CASE Crash
  BY <1>6, BlobStoreAssumption DEF Crash, Collecting
<1> QED
  BY <1>1, <1>2, <1>3, <1>4, <1>5, <1>6 DEF Next, PutThread

-----------------------------------------------------------------------------
(* The rows. *)

InTransaction(where) == where \in {"retaining", "releasing"}

(* A step that moves nobody into a transaction, out of one, or into or out *)
(* of a reference leaves the balance alone.                                *)
LEMMA BalanceKept ==
    ASSUME Balanced, \A c \in Clients : TxInv(c),
           UNCHANGED <<wants, tx, rows, committed>>,
           \A c \in Clients : /\ Refers(pc'[c]) <=> Refers(pc[c])
                              /\ InTransaction(pc'[c]) <=> InTransaction(pc[c])
                              /\ InTransaction(pc[c]) => pc'[c] = pc[c]
    PROVE  Balanced' /\ \A c \in Clients : TxInv(c)'
<1>1. \A b \in Blobs : Referring(b)' = Referring(b)
  BY SameReferences
<1>2. Balanced'
  BY <1>1 DEF Balanced
<1>3. ASSUME NEW c \in Clients PROVE TxInv(c)'
  BY <1>3 DEF TxInv, InTransaction
<1> QED
  BY <1>2, <1>3

(* The committed counts are the references, and the rows differ from them  *)
(* by the open transaction only, after every step.                         *)
LEMMA BalancedStep ==
    ASSUME IInv, TypeOK', [Next]_vars
    PROVE  Balanced' /\ \A c \in Clients : TxInv(c)'
<1> USE DEF TypeOK, IInv
<1>1. CASE UNCHANGED vars
  BY <1>1, BalanceKept DEF vars, clientVars, rowVars
<1>2. ASSUME NEW c \in Clients, Put(c) \/ PutThread(c) \/ PutReturns(c) \/ CancelPut(c)
      PROVE  Balanced' /\ \A d \in Clients : TxInv(d)'
  <2>1. UNCHANGED <<wants, tx, rows, committed>>
    BY <1>2 DEF Put, PutThread, PutCheck, PutReplace, PutSync, PutReturns, CancelPut, rowVars
  <2>2. \A d \in Clients : pc'[d] # pc[d] =>
            pc[d] \in {"start", "putting"} /\ pc'[d] \in {"putting", "stored", "done"}
    BY <1>2 DEF Put, PutThread, PutCheck, PutReplace, PutSync, PutReturns, CancelPut, Goto
  <2> QED
    BY <2>1, <2>2, BalanceKept DEF Refers, InTransaction
<1>3. ASSUME NEW c \in Clients, Retain(c) \/ Release(c)
      PROVE  Balanced' /\ \A d \in Clients : TxInv(d)'
  <2>1. /\ UNCHANGED <<wants, committed>> /\ tx = Nobody /\ tx' = c
        /\ c # Nobody /\ rows = committed
    BY <1>3, BlobStoreAssumption DEF Retain, Release, Change, Balanced
  <2>2. Retain(c) => /\ pc[c] = "stored" /\ pc' = [pc EXCEPT ![c] = "retaining"]
                     /\ rows' = [rows EXCEPT ![wants[c]] = @ + 1]
    BY DEF Retain, Change, Goto
  <2>3. Release(c) => c \in Referring(wants[c])
    BY DEF Release, Change, Referring
  <2>4. Release(c) => rows[wants[c]] > 0
    BY <2>1, <2>3, ReferringCounts, ReferringFinite DEF Balanced
  <2>5. Release(c) => /\ pc[c] = "holding" /\ pc' = [pc EXCEPT ![c] = "releasing"]
                      /\ rows' = [rows EXCEPT ![wants[c]] = @ - 1]
    BY <2>4 DEF Release, Change, Goto
  <2>6. \A b \in Blobs : Referring(b)' = Referring(b)
    BY <1>3, <2>1, <2>2, <2>5, SameReferences DEF Refers
  <2>7. Balanced'
    BY <2>1, <2>6 DEF Balanced
  <2>8. ASSUME NEW d \in Clients PROVE TxInv(d)'
    <3>1. ~InTransaction(pc[d])
      BY <2>1, BlobStoreAssumption DEF TxInv, InTransaction
    <3>2. CASE d = c
      BY <1>3, <2>1, <2>2, <2>5, <3>2 DEF TxInv
    <3>3. CASE d # c
      BY <1>3, <2>1, <2>2, <2>5, <3>1, <3>3 DEF TxInv, InTransaction
    <3> QED
      BY <3>2, <3>3
  <2> QED
    BY <2>7, <2>8
<1>4. ASSUME NEW c \in Clients, Commit(c)
      PROVE  Balanced' /\ \A d \in Clients : TxInv(d)'
  <2>1. /\ UNCHANGED <<wants, rows>> /\ tx = c /\ tx' = Nobody /\ committed' = rows
        /\ rows = [committed EXCEPT ![wants[c]] =
                     IF pc[c] = "retaining" THEN @ + 1 ELSE @ - 1]
    BY <1>4 DEF Commit, TxInv
  <2>2. ASSUME NEW b \in Blobs PROVE committed'[b] = Cardinality(Referring(b)')
    <3>1. CASE pc[c] = "retaining"
      <4>1. pc' = [pc EXCEPT ![c] = "holding"] \/ pc' = [pc EXCEPT ![c] = "leaked"]
        BY <1>4, <3>1 DEF Commit, Goto
      <4>2. Referring(b)' = IF wants[c] = b THEN Referring(b) \cup {c} ELSE Referring(b)
        BY <2>1, <4>1 DEF Referring
      <4>3. c \notin Referring(b)
        BY <3>1 DEF Referring
      <4>4. Cardinality(Referring(b) \cup {c}) = Cardinality(Referring(b)) + 1
        BY <4>3, ReferringFinite, FS_AddElement
      <4>5. committed'[b] = IF wants[c] = b THEN committed[b] + 1 ELSE committed[b]
        BY <2>1, <3>1
      <4> QED
        BY <4>2, <4>4, <4>5 DEF Balanced
    <3>2. CASE pc[c] = "releasing"
      <4>1. pc' = [pc EXCEPT ![c] = "done"]
        BY <1>4, <3>2 DEF Commit, Goto
      <4>2. Referring(b)' = Referring(b) \ {c}
        BY <2>1, <4>1 DEF Referring
      <4>3. c \in Referring(b) <=> wants[c] = b
        BY <3>2 DEF Referring
      <4>4. Cardinality(Referring(b) \ {c}) =
                IF wants[c] = b THEN Cardinality(Referring(b)) - 1 ELSE Cardinality(Referring(b))
        BY <4>3, ReferringFinite, FS_RemoveElement
      <4>5. committed'[b] = IF wants[c] = b THEN committed[b] - 1 ELSE committed[b]
        BY <2>1, <3>2
      <4> QED
        BY <4>2, <4>4, <4>5 DEF Balanced
    <3> QED
      BY <1>4, <3>1, <3>2 DEF Commit
  <2>3. ASSUME NEW d \in Clients PROVE TxInv(d)'
    <3>1. d # c => pc'[d] = pc[d]
      BY <1>4 DEF Commit, Goto
    <3>3. d # c => ~InTransaction(pc[d])
      BY <2>1 DEF TxInv, InTransaction
    <3>2. ~InTransaction(pc'[c])
      BY <1>4 DEF Commit, Goto, InTransaction
    <3> QED
      BY <2>1, <3>1, <3>2, <3>3, BlobStoreAssumption DEF TxInv, InTransaction
  <2> QED
    BY <2>1, <2>2, <2>3 DEF Balanced
<1>5. ASSUME NEW c \in Clients, Rollback(c)
      PROVE  Balanced' /\ \A d \in Clients : TxInv(d)'
  <2>1. /\ UNCHANGED <<wants, committed>> /\ tx = c /\ tx' = Nobody /\ rows' = committed
        /\ pc' = [pc EXCEPT ![c] = IF pc[c] = "retaining" THEN "done" ELSE "unreleased"]
    BY <1>5 DEF Rollback, Goto
  <2>2. InTransaction(pc[c])
    BY <2>1 DEF TxInv, InTransaction
  <2>3. \A b \in Blobs : Referring(b)' = Referring(b)
    BY <2>1, <2>2, SameReferences DEF Refers, InTransaction
  <2>4. ASSUME NEW d \in Clients PROVE TxInv(d)'
    <3>1. ~InTransaction(pc'[d])
      BY <2>1, <2>2 DEF TxInv, InTransaction
    <3> QED
      BY <2>1, <3>1, BlobStoreAssumption DEF TxInv, InTransaction
  <2> QED
    BY <2>1, <2>3, <2>4 DEF Balanced
<1>6. ASSUME NEW g \in Collectors, Collect(g) \/ SweepThread(g)
      PROVE  Balanced' /\ \A d \in Clients : TxInv(d)'
  BY <1>6, BalanceKept DEF Collect, SweepThread, Sweep, Visit, Unlink, SweepEnds,
     clientVars, rowVars
<1>7. CASE Crash
  <2>1. UNCHANGED <<wants, committed>> /\ tx' = Nobody /\ rows' = committed
    BY <1>7 DEF Crash
  <2>2. \A d \in Clients : /\ Refers(pc'[d]) <=> Refers(pc[d])
                           /\ ~InTransaction(pc'[d])
    BY <1>7 DEF Crash, Refers, InTransaction
  <2>3. \A b \in Blobs : Referring(b)' = Referring(b)
    BY <2>1, <2>2, SameReferences
  <2>4. ASSUME NEW d \in Clients PROVE TxInv(d)'
    BY <2>1, <2>2, BlobStoreAssumption DEF TxInv, InTransaction
  <2> QED
    BY <2>1, <2>3, <2>4 DEF Balanced
<1> QED
  BY <1>1, <1>2, <1>3, <1>4, <1>5, <1>6, <1>7 DEF Next, EndTransaction

-----------------------------------------------------------------------------
(* Threads and files. *)

(* A thread is its client's, and what a sweep is about to unlink it did    *)
(* not read as referenced, after every step.                               *)
LEMMA ThreadStep ==
    ASSUME IInv, [Next]_vars
    PROVE  (\A c \in Clients : ThreadInv(c)') /\ \A g \in Collectors : SweepInv(g)'
<1> USE DEF TypeOK, IInv
<1>1. CASE UNCHANGED vars
  BY <1>1 DEF vars, clientVars, sweepVars, ThreadInv, SweepInv
<1>2. ASSUME NEW c \in Clients, Put(c) \/ PutThread(c) \/ PutReturns(c) \/ CancelPut(c)
      PROVE  (\A d \in Clients : ThreadInv(d)') /\ \A g \in Collectors : SweepInv(g)'
  <2>1. \A g \in Collectors : SweepInv(g)'
    BY <1>2 DEF Put, PutThread, PutCheck, PutReplace, PutSync, PutReturns, CancelPut,
       sweepVars, SweepInv
  <2>2. \A d \in Clients : d # c => pc'[d] = pc[d] /\ put'[d] = put[d]
    BY <1>2 DEF Put, PutThread, PutCheck, PutReplace, PutSync, PutReturns, CancelPut,
       Goto, Thread, Answer
  <2>3. ThreadInv(c)'
    BY <1>2 DEF Put, PutThread, PutCheck, PutReplace, PutSync, PutReturns, CancelPut,
       Goto, Thread, Answer, ThreadInv
  <2> QED
    BY <2>1, <2>2, <2>3 DEF ThreadInv
<1>3. ASSUME NEW c \in Clients, Retain(c) \/ Release(c) \/ EndTransaction(c)
      PROVE  (\A d \in Clients : ThreadInv(d)') /\ \A g \in Collectors : SweepInv(g)'
  <2>1. UNCHANGED <<put, sweepVars>>
    BY <1>3 DEF Retain, Release, Change, EndTransaction, Commit, Rollback
  <2>2. \A d \in Clients : pc'[d] # pc[d] => put[d] = "idle"
    BY <1>3 DEF Retain, Release, Change, EndTransaction, Commit, Rollback, Goto, ThreadInv, TxInv
  <2> QED
    BY <2>1, <2>2 DEF ThreadInv, SweepInv, sweepVars
<1>4. ASSUME NEW g \in Collectors, Collect(g) \/ SweepThread(g)
      PROVE  (\A d \in Clients : ThreadInv(d)') /\ \A h \in Collectors : SweepInv(h)'
  <2>1. \A d \in Clients : ThreadInv(d)'
    BY <1>4 DEF Collect, SweepThread, Sweep, Visit, Unlink, SweepEnds, clientVars, ThreadInv
  <2>2. ASSUME NEW h \in Collectors PROVE SweepInv(h)'
    BY <1>4 DEF Collect, SweepThread, Sweep, Visit, Unlink, SweepEnds, End, SweepInv
  <2> QED
    BY <2>1, <2>2
<1>5. CASE Crash
  BY <1>5 DEF Crash, ThreadInv, SweepInv
<1> QED
  BY <1>1, <1>2, <1>3, <1>4, <1>5 DEF Next

(* Every file there is is durable or may be lost, after every step.        *)
LEMMA FileStep ==
    ASSUME IInv, [Next]_vars
    PROVE  FileInv'
<1> USE DEF TypeOK, IInv, FileInv
<1>1. CASE UNCHANGED fileVars
  BY <1>1 DEF fileVars
<1>2. ASSUME NEW c \in Clients, PutReplace(c) \/ PutSync(c) PROVE FileInv'
  BY <1>2 DEF PutReplace, PutSync
<1>3. ASSUME NEW g \in Collectors, Unlink(g) PROVE FileInv'
  BY <1>3 DEF Unlink, fileVars
<1>4. CASE Crash
  BY <1>4 DEF Crash
<1>5. ASSUME NEW c \in Clients, ~PutReplace(c), ~PutSync(c),
             Put(c) \/ PutThread(c) \/ PutReturns(c) \/ CancelPut(c)
             \/ Retain(c) \/ Release(c) \/ EndTransaction(c)
      PROVE  UNCHANGED fileVars
  BY <1>5 DEF Put, PutThread, PutCheck, PutReturns, CancelPut,
     Retain, Release, Change, EndTransaction, Commit, Rollback
<1>6. ASSUME NEW g \in Collectors, ~Unlink(g), Collect(g) \/ SweepThread(g)
      PROVE  UNCHANGED fileVars
  BY <1>6 DEF Collect, SweepThread, Sweep, Visit, SweepEnds
<1>7. CASE UNCHANGED vars
  BY <1>7, <1>1 DEF vars
<1> QED
  BY <1>1, <1>2, <1>3, <1>4, <1>5, <1>6, <1>7 DEF Next

-----------------------------------------------------------------------------
(* What is held. *)

(* The connection always sees a count for a blob somebody holds: an open   *)
(* release by another leaves this reference.                               *)
LEMMA HeldIsCounted ==
    ASSUME IInv, NEW d \in Clients, pc[d] = "holding"
    PROVE  rows[wants[d]] > 0
<1> USE DEF TypeOK, IInv
<1>1. d \in Referring(wants[d]) /\ wants[d] \in Blobs
  BY DEF Referring
<1>2. committed[wants[d]] = Cardinality(Referring(wants[d])) /\ committed[wants[d]] >= 1
  BY <1>1, ReferringCounts DEF Balanced
<1>3. CASE tx = Nobody
  BY <1>2, <1>3 DEF Balanced
<1>4. ASSUME NEW c \in Clients, tx = c PROVE rows[wants[d]] > 0
  <2>1. /\ c # d /\ pc[c] \in {"retaining", "releasing"}
        /\ rows = [committed EXCEPT ![wants[c]] =
                     IF pc[c] = "retaining" THEN @ + 1 ELSE @ - 1]
    BY <1>4 DEF TxInv
  <2>2. CASE wants[c] # wants[d]
    BY <1>1, <1>2, <2>1, <2>2
  <2>3. CASE pc[c] = "retaining"
    BY <1>1, <1>2, <2>1, <2>3
  <2>4. CASE pc[c] = "releasing" /\ wants[c] = wants[d]
    <3>1. c \in Referring(wants[d])
      BY <2>4 DEF Referring
    <3>2. committed[wants[d]] >= 2
      BY <1>1, <1>2, <2>1, <3>1, ReferringCounts
    <3> QED
      BY <1>1, <2>1, <2>4, <3>2
  <2> QED
    BY <2>1, <2>2, <2>3, <2>4
<1> QED
  BY <1>3, <1>4

(* A client that neither moves nor loses its file stays safe when no       *)
(* collection starts and none forgets what it read.                        *)
LEMMA SafeKept ==
    ASSUME NEW d \in Clients, SafeInv(d), atRisk \subseteq atRisk', shards \subseteq shards',
           wants'[d] = wants[d], pc'[d] = pc[d], put'[d] = put[d],
           wants[d] \in present => wants[d] \in present',
           wants[d] \in durable => wants[d] \in durable',
           \A g \in Collectors :
               Collecting(g)' => Collecting(g) /\ referenced'[g] = referenced[g]
    PROVE  SafeInv(d)'
BY DEF SafeInv, Underway, Kept

(* A client that nothing endangered keeps its blob, after every step.      *)
LEMMA SafeStep ==
    ASSUME IInv, [Next]_vars, NEW d \in Clients
    PROVE  SafeInv(d)'
<1> USE DEF TypeOK, IInv
<1>1. CASE UNCHANGED vars
  BY <1>1, SafeKept DEF vars, clientVars, sweepVars, fileVars, historyVars, Collecting
<1>2. ASSUME NEW c \in Clients, Put(c) \/ PutThread(c) \/ PutReturns(c) \/ CancelPut(c)
      PROVE  SafeInv(d)'
  <2>1. /\ UNCHANGED <<wants, sweep, referenced>> /\ atRisk \subseteq atRisk'
        /\ present \subseteq present' /\ durable \subseteq durable' /\ UNCHANGED shards
    BY <1>2 DEF Put, PutThread, PutCheck, PutReplace, PutSync, PutReturns, CancelPut,
       sweepVars, fileVars, historyVars
  <2>2. CASE d # c
    <3>1. pc'[d] = pc[d] /\ put'[d] = put[d]
      BY <1>2, <2>2 DEF Put, PutThread, PutCheck, PutReplace, PutSync, PutReturns, CancelPut,
         Goto, Thread, Answer
    <3> QED
      BY <2>1, <3>1, SafeKept DEF Collecting
  <2>3. CASE d = c /\ (Put(c) \/ CancelPut(c))
    BY <2>3 DEF Put, CancelPut, Goto, Thread, SafeInv, Underway, Kept
  <2>4. CASE d = c /\ PutCheck(c)
    <3>1. c \notin atRisk' => /\ wants[c] \notin limbo /\ wants[c] \in shards
                           /\ \A g \in Collectors : ~Collecting(g)
      BY <2>4 DEF PutCheck
    <3>2. UNCHANGED <<pc, present, durable>> /\ put[c] = "check"
      BY <2>4 DEF PutCheck, fileVars
    <3>3. \/ wants[c] \in present /\ put'[c] = (IF pc[c] = "putting" THEN "stored" ELSE "idle")
          \/ put'[c] = "write"
      BY <2>4 DEF PutCheck, Answer, Thread
    <3>4. pc[c] \in {"putting", "done"}
      BY <3>2 DEF ThreadInv
    <3> QED
      BY <2>1, <2>4, <3>1, <3>2, <3>3, <3>4 DEF SafeInv, Underway, Kept, FileInv, Collecting
  <2>5. CASE d = c /\ PutReplace(c)
    <3>1. /\ UNCHANGED <<pc, durable, atRisk>> /\ put[c] = "write"
          /\ \/ put'[c] = "renamed" /\ wants[c] \in present'
             \/ put'[c] \in {"failed", "idle"}
      BY <2>5 DEF PutReplace, Answer, Thread
    <3>2. pc[c] \in {"putting", "done"}
      BY <3>1 DEF ThreadInv
    <3> QED
      BY <2>1, <2>5, <3>1, <3>2 DEF SafeInv, Underway, Kept, Collecting
  <2>6. CASE d = c /\ PutSync(c)
    <3>1. /\ UNCHANGED <<pc, present, atRisk>> /\ put[c] = "renamed"
          /\ \/ /\ put'[c] = (IF pc[c] = "putting" THEN "stored" ELSE "idle")
                /\ wants[c] \in present => wants[c] \in durable'
             \/ put'[c] \in {"failed", "idle"}
      BY <2>6 DEF PutSync, Answer, Thread, historyVars
    <3>2. pc[c] \in {"putting", "done"}
      BY <3>1 DEF ThreadInv
    <3> QED
      BY <2>1, <2>6, <3>1, <3>2 DEF SafeInv, Underway, Kept, Collecting
  <2>7. CASE d = c /\ PutReturns(c)
    <3>1. /\ UNCHANGED <<present, durable, atRisk>> /\ pc[c] = "putting" /\ put'[c] = "idle"
          /\ \/ put[c] = "stored" /\ pc'[c] = "stored"
             \/ pc'[c] = "done"
      BY <2>7 DEF PutReturns, Goto, Thread, fileVars, historyVars
    <3> QED
      BY <2>1, <2>7, <3>1 DEF SafeInv, Underway, Kept, Collecting
  <2> QED
    BY <1>2, <2>2, <2>3, <2>4, <2>5, <2>6, <2>7 DEF PutThread
<1>3. ASSUME NEW c \in Clients, Retain(c) \/ Release(c) \/ EndTransaction(c)
      PROVE  SafeInv(d)'
  <2>1. UNCHANGED <<wants, put, sweep, referenced, present, durable, shards, atRisk>>
    BY <1>3 DEF Retain, Release, Change, EndTransaction, Commit, Rollback,
       sweepVars, fileVars, historyVars
  <2>2. CASE d # c
    <3>1. pc'[d] = pc[d]
      BY <1>3, <2>2 DEF Retain, Release, Change, EndTransaction, Commit, Rollback, Goto
    <3> QED
      BY <2>1, <3>1, SafeKept DEF Collecting
  <2>3. CASE d = c
    <3>1. \/ pc[c] = "stored" /\ pc'[c] = "retaining"
          \/ pc[c] = "retaining" /\ pc'[c] = "holding"
          \/ pc'[c] \in {"releasing", "leaked", "done", "unreleased"}
      BY <1>3 DEF Retain, Release, Change, EndTransaction, Commit, Rollback, Goto
    <3>2. pc[c] \notin {"putting", "done"} => put[c] = "idle"
      BY DEF ThreadInv
    <3>3. put[c] = "stored" => pc[c] = "putting"
      BY DEF ThreadInv
    <3>4. pc[c] \notin {"putting", "start"}
      BY <1>3 DEF Retain, Release, Change, EndTransaction, Commit, Rollback, TxInv
    <3> QED
      BY <2>1, <2>3, <3>1, <3>2, <3>3, <3>4 DEF SafeInv, Underway, Kept, Collecting
  <2> QED
    BY <2>2, <2>3
<1>4. ASSUME NEW g \in Collectors, Collect(g) PROVE SafeInv(d)'
  <2>1. /\ UNCHANGED <<wants, pc, put, present, durable, shards>>
        /\ atRisk' = atRisk \cup {c \in Clients : Exposed(c)}
        /\ referenced' = [referenced EXCEPT ![g] = {b \in Blobs : rows[b] > 0}]
        /\ \A h \in Collectors : h # g => sweep'[h] = sweep[h]
    BY <1>4 DEF Collect, clientVars, fileVars
  <2>2. d \notin atRisk' => d \notin atRisk /\ ~Underway(d)
    BY <2>1 DEF Exposed, Underway
  <2>3. pc[d] = "holding" => wants[d] \in referenced'[g]
    BY <2>1, HeldIsCounted
  <2>4. UNCHANGED <<Underway(d), Kept(d)>>
    BY <2>1 DEF Underway, Kept
  <2>5. ASSUME d \notin atRisk', pc[d] = "holding", NEW h \in Collectors, Collecting(h)'
        PROVE  wants[d] \in referenced'[h]
    BY <2>1, <2>2, <2>3, <2>5 DEF SafeInv, Collecting
  <2>6. d \notin atRisk' => ~(pc[d] = "putting" /\ put[d] = "renamed")
    BY <2>2 DEF Underway
  <2> QED
    BY <2>1, <2>2, <2>4, <2>5, <2>6 DEF SafeInv
<1>5. ASSUME NEW g \in Collectors, SweepThread(g) PROVE SafeInv(d)'
  <2>1. /\ UNCHANGED <<wants, pc, put, shards, atRisk>>
        /\ \A h \in Collectors :
              Collecting(h)' => Collecting(h) /\ referenced'[h] = referenced[h]
    BY <1>5 DEF SweepThread, Sweep, Visit, Unlink, SweepEnds, End, Collecting,
       clientVars, fileVars, historyVars
  <2>2. CASE UNCHANGED <<present, durable>>
    BY <2>1, <2>2, SafeKept
  <2>3. CASE /\ doomed[g] # Nobody /\ present' = present \ {doomed[g]}
             /\ durable' = durable \ {doomed[g]}
    <3>1. Collecting(g) /\ doomed[g] \notin referenced[g]
      BY <2>3 DEF SweepInv, Collecting
    <3>2. d \notin atRisk /\ (Kept(d) \/ Underway(d)) => wants[d] # doomed[g]
      BY <3>1 DEF SafeInv, ThreadInv, Underway, Kept
    <3>3. UNCHANGED <<Underway(d), Kept(d)>>
      BY <2>1 DEF Underway, Kept
    <3>4. pc[d] = "putting" /\ put[d] = "renamed" => Underway(d)
      BY DEF Underway
    <3> QED
      BY <2>1, <2>3, <3>2, <3>3, <3>4 DEF SafeInv
  <2> QED
    BY <1>5, <2>2, <2>3 DEF SweepThread, Sweep, Visit, Unlink, SweepEnds, fileVars
<1>6. CASE Crash
  <2>1. /\ UNCHANGED <<wants, atRisk>> /\ durable \cap shards \subseteq durable' \cap shards'
        /\ put'[d] = "idle"
        /\ pc'[d] \in {"start", "holding", "unreleased", "leaked", "done"}
    BY <1>6 DEF Crash
  <2>3. pc'[d] = "holding" => pc[d] = "holding"
    BY <1>6 DEF Crash
  <2>2. \A g \in Collectors : ~Collecting(g)'
    BY <1>6 DEF Crash, Collecting
  <2> QED
    BY <2>1, <2>2, <2>3 DEF SafeInv, Underway, Kept
<1> QED
  BY <1>1, <1>2, <1>3, <1>4, <1>5, <1>6 DEF Next

-----------------------------------------------------------------------------
(* The strengthened invariant holds always.                                *)
THEOREM Invariance == Spec => []IInv
<1>1. IInv /\ [Next]_vars => IInv'
  <2> SUFFICES ASSUME IInv, [Next]_vars PROVE IInv'
    OBVIOUS
  <2>1. TypeOK'
    BY TypeStep DEF IInv
  <2>2. Balanced' /\ \A c \in Clients : TxInv(c)'
    BY <2>1, BalancedStep
  <2>3. (\A c \in Clients : ThreadInv(c)') /\ \A g \in Collectors : SweepInv(g)'
    BY ThreadStep
  <2>4. FileInv' /\ \A c \in Clients : SafeInv(c)'
    BY FileStep, SafeStep
  <2> QED
    BY <2>1, <2>2, <2>3, <2>4 DEF IInv
<1> QED
  BY <1>1, InitHolds, PTL DEF Spec

(* The committed count of a blob is the number of its references, and a    *)
(* blob whose client stored and retained it while nothing was collected,   *)
(* in a shard that had outlived a crash, stays on the disk until it is     *)
(* released: through failed transactions, lost answers, later collections  *)
(* and any number of crashes.                                              *)
THEOREM CountsAlwaysHold == Spec => []CountsHold
<1>1. IInv => CountsHold
  <2> SUFFICES ASSUME IInv PROVE CountsHold
    OBVIOUS
  <2>1. HeldUnlessRaced
    BY DEF IInv, SafeInv, Kept, HeldUnlessRaced
  <2> QED
    BY <2>1 DEF IInv, CountsHold
<1> QED
  BY <1>1, Invariance, PTL

-----------------------------------------------------------------------------
(* What a sweep has come by.                                               *)

(* A file that is there was read as referenced, is new, or is still to be  *)
(* come to or unlinked.                                                    *)
SweptInv(g) ==
    sweep[g] = "sweeping" => present \subseteq referenced[g] \cup fresh[g] \cup todo[g] \cup {doomed[g]}

(* Whatever is written, swept by another or lost meanwhile, a sweep passes *)
(* by no other file.                                                       *)
LEMMA SweptStep ==
    ASSUME IInv, [Next]_vars, NEW g \in Collectors, SweptInv(g)
    PROVE  SweptInv(g)'
<1> USE DEF TypeOK, IInv, SweptInv
<1>1. CASE UNCHANGED <<sweepVars, present, fresh>>
  BY <1>1 DEF sweepVars
<1>2. ASSUME NEW c \in Clients, PutReplace(c) PROVE SweptInv(g)'
  BY <1>2 DEF PutReplace, sweepVars, Collecting
<1>3. ASSUME NEW h \in Collectors, Collect(h) \/ Sweep(h) PROVE SweptInv(g)'
  BY <1>3 DEF Collect, Sweep, End, fileVars
<1>4. ASSUME NEW h \in Collectors, NEW b \in Blobs, Visit(h, b) PROVE SweptInv(g)'
  <2>1. CASE h = g
    <3>1. /\ UNCHANGED <<sweep, referenced, present, fresh>>
          /\ todo'[g] = todo[g] \ {b} /\ doomed[g] = Nobody /\ Nobody \notin present
      BY <1>4, <2>1, BlobStoreAssumption DEF Visit, fileVars, historyVars
    <3>2. CASE b \in present \ referenced[g]
      <4>1. doomed'[g] = b
        BY <1>4, <2>1, <3>2 DEF Visit
      <4> QED
        BY <3>1, <4>1
    <3>3. CASE b \notin present \ referenced[g]
      BY <3>1, <3>3
    <3> QED
      BY <3>2, <3>3
  <2>2. CASE h # g
    BY <1>4, <2>2 DEF Visit, fileVars, historyVars
  <2> QED
    BY <2>1, <2>2
<1>5. ASSUME NEW h \in Collectors, Unlink(h) PROVE SweptInv(g)'
  <2>1. CASE h = g
    BY <1>5, <2>1 DEF Unlink, End, fileVars
  <2>2. CASE h # g
    BY <1>5, <2>2 DEF Unlink, End, fileVars
  <2> QED
    BY <2>1, <2>2
<1>6. ASSUME NEW h \in Collectors, SweepEnds(h) PROVE SweptInv(g)'
  BY <1>6 DEF SweepEnds, End, fileVars
<1>7. CASE Crash
  BY <1>7 DEF Crash, Collecting
<1>8. CASE UNCHANGED vars
  BY <1>1, <1>8 DEF vars, fileVars, historyVars
<1>9. ASSUME NEW c \in Clients, Put(c) \/ PutCheck(c) \/ PutSync(c) \/ PutReturns(c) \/ CancelPut(c)
      PROVE  SweptInv(g)'
  BY <1>1, <1>9 DEF Put, PutCheck, PutSync, PutReturns, CancelPut, fileVars, historyVars
<1>10. ASSUME NEW c \in Clients, Retain(c) \/ Release(c) \/ EndTransaction(c) PROVE SweptInv(g)'
  BY <1>1, <1>10 DEF Retain, Release, Change, EndTransaction, Commit, Rollback, fileVars, historyVars
<1> QED
  BY <1>2, <1>3, <1>4, <1>5, <1>6, <1>7, <1>8, <1>9, <1>10 DEF Next, PutThread, SweepThread

(* A sweep that ends leaves no file that it had not read as referenced,    *)
(* except those written meanwhile: for any number of clients, of sweeps    *)
(* that overtake each other, of blobs and of crashes.                      *)
THEOREM NoOrphanIsLeft == Spec => NoOrphanLeft
<1>1. Init => \A g \in Collectors : SweptInv(g)
  BY DEF Init, SweptInv
<1>2. IInv /\ (\A g \in Collectors : SweptInv(g)) /\ [Next]_vars
        => (\A g \in Collectors : SweptInv(g))'
  <2> SUFFICES ASSUME IInv, \A h \in Collectors : SweptInv(h), [Next]_vars, NEW g \in Collectors
               PROVE  SweptInv(g)'
    OBVIOUS
  <2> QED
    BY SweptStep
<1>3. IInv /\ (\A g \in Collectors : SweptInv(g)) /\ [Next]_vars
        => [\A g \in Collectors : sweep[g] # "swept" /\ sweep'[g] = "swept"
                => present \subseteq referenced[g] \cup fresh[g]]_vars
  <2> SUFFICES ASSUME IInv, \A h \in Collectors : SweptInv(h), [Next]_vars,
                      NEW g \in Collectors, sweep[g] # "swept", sweep'[g] = "swept"
               PROVE  present \subseteq referenced[g] \cup fresh[g]
    OBVIOUS
  <2>1. SweepEnds(g)
    <3>1. ~ UNCHANGED sweep
      OBVIOUS
    <3>2. ASSUME NEW c \in Clients, \/ Put(c) \/ PutThread(c) \/ PutReturns(c) \/ CancelPut(c)
                                    \/ Retain(c) \/ Release(c) \/ EndTransaction(c)
          PROVE  FALSE
      BY <3>1, <3>2 DEF Put, PutThread, PutCheck, PutReplace, PutSync, PutReturns, CancelPut,
         Retain, Release, Change, EndTransaction, Commit, Rollback, sweepVars
    <3>3. ASSUME NEW h \in Collectors, Collect(h) \/ SweepThread(h) PROVE SweepEnds(g)
      BY <3>3 DEF Collect, SweepThread, Sweep, Visit, Unlink, SweepEnds, End, IInv, TypeOK
    <3>4. ~ Crash
      BY DEF Crash
    <3> QED
      BY <3>1, <3>2, <3>3, <3>4 DEF Next, vars, sweepVars
  <2> QED
    BY <2>1, BlobStoreAssumption DEF SweepEnds, SweptInv, IInv, TypeOK
<1> QED
  BY <1>1, <1>2, <1>3, Invariance, PTL DEF Spec, NoOrphanLeft

=============================================================================
