---------------------------- MODULE CallersProofs ---------------------------
(***************************************************************************)
(* Proofs about Dispatch, for any number of calls and ids, and about who   *)
(* makes calls through it: Nesting, whose calls are made by the work of    *)
(* other calls, and Tools, whose calls are made over a changing set of     *)
(* plugins and skills.  The steps of these two are those of Dispatch, so   *)
(* that what is proved of any bounded call holds of theirs.                *)
(***************************************************************************)
EXTENDS Nesting, Tools, TLAPS

-----------------------------------------------------------------------------
(* Dispatch: callers are told the truth, nothing is left running, every    *)
(* call that shares its id with no other can be cancelled, and a           *)
(* cancellation while permission is asked is heeded.                       *)
(*                                                                         *)
(* The inductive invariant adds to what is claimed that a tracked token    *)
(* belongs to a call in flight with that key (KeyInv, TrackInv), and how   *)
(* the place of a call, its work and what it saw go together (WorkInv).    *)

KeyOK(c) ==
    /\ pc[c] \in InFlight => key[c] \in Keys
    /\ pc[c] = "idle" => key[c] = Nobody
KeyInv == \A c \in Calls : KeyOK(c)

TableTypes ==
    /\ key \in [Calls -> Keys \cup {Nobody}]
    /\ pc \in [Calls -> {"idle", "done"} \cup InFlight]
    /\ tracked \in [Keys -> Calls \cup {Nobody}]

TrackOK(k) == tracked[k] # Nobody => key[tracked[k]] = k /\ pc[tracked[k]] \in InFlight
TrackInv == \A k \in Keys : TrackOK(k)

Alone(c) == \A d \in Calls \ {c} : key[d] # key[c]
FoundOK(c) == pc[c] \in InFlight /\ Alone(c) => tracked[key[c]] = c
FoundInv == \A c \in Calls : FoundOK(c)

WorkOK(c) ==
    /\ pc[c] \in {"idle", "asking"} => work[c] = "none"
    /\ pc[c] = "idle" => ~ fired[c]
    /\ pc[c] = "racing" => work[c] \in {"running", "returned", "raised", "stopped"}
    /\ pc[c] = "settling" =>
           /\ work[c] \in {"cancelling", "returned", "raised", "stopped"}
           /\ seen[c] # "nothing"
           /\ seen[c] = "work" => work[c] # "cancelling"
           /\ seen[c] = "token" => fired[c]
    /\ pc[c] # "done" => outcome[c] = "none"
    /\ pc[c] = "done" /\ work[c] \in Running =>
           outcome[c] = "interrupted" /\ work[c] = "cancelling"
WorkInv == \A c \in Calls : WorkOK(c)

TruthOK(c) ==
    /\ outcome[c] = "result" => work[c] = "returned" /\ seen[c] = "work"
    /\ outcome[c] = "failed" => work[c] = "raised"
    /\ outcome[c] \in {"denied", "not found"} => work[c] = "none"
    /\ outcome[c] = "cancelled" => fired[c] /\ work[c] # "raised"
    /\ outcome[c] = "timeout" => work[c] \in {"returned", "stopped"}

CallInv ==
    CallTypeOK /\ KeyInv /\ TrackInv /\ FoundInv /\ WorkInv
    /\ \A c \in Calls : TruthOK(c)

(* Calls are registered under keys of tools; nobody is neither a call nor  *)
(* a key.                                                                  *)
LEMMA KeysAre ==
    /\ \A i \in Ids : <<"tool", i>> \in Keys
    /\ Nobody \notin Calls /\ Nobody \notin Keys
BY DispatchAssumption DEF Keys, Kinds

(* Every step keeps the types.                                             *)
LEMMA TypeStep ==
    ASSUME CallInv, [CallStep]_callVars
    PROVE  CallTypeOK'
<1>1. ASSUME NEW c \in Calls, NotFound(c) PROVE CallTypeOK'
  BY <1>1, KeysAre DEF NotFound, Goto, CallInv, CallTypeOK, InFlight, Running, Ended,
     KeyInv, KeyOK, WorkInv, WorkOK
<1>2. ASSUME NEW c \in Calls, NEW k \in Keys, BeginRun(c, k) PROVE CallTypeOK'
  BY <1>2, KeysAre DEF BeginRun, Register, Race, Goto, CallInv, CallTypeOK, InFlight,
     Running, Ended, KeyInv, KeyOK, WorkInv, WorkOK
<1>3. ASSUME NEW c \in Calls, NEW i \in Ids, DeniedAtOnce(c, i) PROVE CallTypeOK'
  BY <1>3, KeysAre DEF DeniedAtOnce, Goto, CallInv, CallTypeOK, InFlight, Running,
     Ended, KeyInv, KeyOK, WorkInv, WorkOK
<1>4. ASSUME NEW c \in Calls, NEW i \in Ids, BeginAsking(c, i) PROVE CallTypeOK'
  BY <1>4, KeysAre DEF BeginAsking, Register, Goto, CallInv, CallTypeOK, InFlight,
     Running, Ended, KeyInv, KeyOK, WorkInv, WorkOK
<1>5. ASSUME NEW c \in Calls, GateDenies(c) PROVE CallTypeOK'
  BY <1>5, KeysAre DEF GateDenies, Leave, Goto, Unregister, CallInv, CallTypeOK,
     InFlight, Running, Ended, KeyInv, KeyOK, WorkInv, WorkOK
<1>6. ASSUME NEW c \in Calls, AllowedTooLate(c) PROVE CallTypeOK'
  BY <1>6, KeysAre DEF AllowedTooLate, Leave, Goto, Unregister, CallInv, CallTypeOK,
     InFlight, Running, Ended, KeyInv, KeyOK, WorkInv, WorkOK
<1>7. ASSUME NEW c \in Calls, Allowed(c) PROVE CallTypeOK'
  BY <1>7, KeysAre DEF Allowed, Race, Goto, CallInv, CallTypeOK, InFlight, Running,
     Ended, KeyInv, KeyOK, WorkInv, WorkOK
<1>8. ASSUME NEW c \in Calls, NEW how \in Ended, WorkEnds(c, how) PROVE CallTypeOK'
  BY <1>8, KeysAre DEF WorkEnds, CallInv, CallTypeOK, InFlight, Running, Ended, KeyInv,
     KeyOK, WorkInv, WorkOK
<1>9. ASSUME NEW c \in Calls, NEW what \in {"work", "token", "deadline"}, Wake(c, what) PROVE CallTypeOK'
  BY <1>9, KeysAre DEF Wake, Goto, CallInv, CallTypeOK, InFlight, Running, Ended,
     KeyInv, KeyOK, WorkInv, WorkOK
<1>10. ASSUME NEW c \in Calls, Settle(c) PROVE CallTypeOK'
  BY <1>10, KeysAre DEF Settle, Leave, Goto, Unregister, CallInv, CallTypeOK, InFlight,
     Running, Ended, KeyInv, KeyOK, WorkInv, WorkOK
<1>11. ASSUME NEW c \in Calls, GiveUp(c) PROVE CallTypeOK'
  BY <1>11, KeysAre DEF GiveUp, Leave, Goto, Unregister, CallInv, CallTypeOK, InFlight,
     Running, Ended, KeyInv, KeyOK, WorkInv, WorkOK
<1>12. ASSUME NEW c \in Calls, Swallow(c) PROVE CallTypeOK'
  BY <1>12 DEF Swallow, CallInv, CallTypeOK
<1>13. ASSUME NEW k \in Keys, CancelKey(k) PROVE CallTypeOK'
  BY <1>13 DEF CancelKey, CallInv, CallTypeOK
<1>14. CASE UNCHANGED callVars
  BY <1>14 DEF callVars, CallInv, CallTypeOK
<1> QED BY <1>1, <1>2, <1>3, <1>4, <1>5, <1>6, <1>7, <1>8, <1>9, <1>10, <1>11, <1>12, <1>13, <1>14 DEF CallStep, GateAnswers, RaceStep

(* Every step keeps which keys a call may hold.                            *)
LEMMA KeyStep ==
    ASSUME NEW d \in Calls, CallInv, [CallStep]_callVars
    PROVE  KeyOK(d)'
<1>1. ASSUME NEW c \in Calls, NotFound(c) PROVE KeyOK(d)'
  BY <1>1, KeysAre DEF NotFound, Goto, CallInv, CallTypeOK, InFlight, Running, Ended,
     KeyInv, KeyOK
<1>2. ASSUME NEW c \in Calls, NEW k \in Keys, BeginRun(c, k) PROVE KeyOK(d)'
  BY <1>2, KeysAre DEF BeginRun, Register, Race, Goto, CallInv, CallTypeOK, InFlight,
     Running, Ended, KeyInv, KeyOK
<1>3. ASSUME NEW c \in Calls, NEW i \in Ids, DeniedAtOnce(c, i) PROVE KeyOK(d)'
  BY <1>3, KeysAre DEF DeniedAtOnce, Goto, CallInv, CallTypeOK, InFlight, Running,
     Ended, KeyInv, KeyOK
<1>4. ASSUME NEW c \in Calls, NEW i \in Ids, BeginAsking(c, i) PROVE KeyOK(d)'
  BY <1>4, KeysAre DEF BeginAsking, Register, Goto, CallInv, CallTypeOK, InFlight,
     Running, Ended, KeyInv, KeyOK
<1>5. ASSUME NEW c \in Calls, GateDenies(c) PROVE KeyOK(d)'
  BY <1>5, KeysAre DEF GateDenies, Leave, Goto, Unregister, CallInv, CallTypeOK,
     InFlight, Running, Ended, KeyInv, KeyOK
<1>6. ASSUME NEW c \in Calls, AllowedTooLate(c) PROVE KeyOK(d)'
  BY <1>6, KeysAre DEF AllowedTooLate, Leave, Goto, Unregister, CallInv, CallTypeOK,
     InFlight, Running, Ended, KeyInv, KeyOK
<1>7. ASSUME NEW c \in Calls, Allowed(c) PROVE KeyOK(d)'
  BY <1>7, KeysAre DEF Allowed, Race, Goto, CallInv, CallTypeOK, InFlight, Running,
     Ended, KeyInv, KeyOK
<1>8. ASSUME NEW c \in Calls, NEW how \in Ended, WorkEnds(c, how) PROVE KeyOK(d)'
  BY <1>8, KeysAre DEF WorkEnds, CallInv, CallTypeOK, InFlight, Running, Ended, KeyInv,
     KeyOK
<1>9. ASSUME NEW c \in Calls, NEW what \in {"work", "token", "deadline"}, Wake(c, what) PROVE KeyOK(d)'
  BY <1>9, KeysAre DEF Wake, Goto, CallInv, CallTypeOK, InFlight, Running, Ended,
     KeyInv, KeyOK
<1>10. ASSUME NEW c \in Calls, Settle(c) PROVE KeyOK(d)'
  BY <1>10, KeysAre DEF Settle, Leave, Goto, Unregister, CallInv, CallTypeOK, InFlight,
     Running, Ended, KeyInv, KeyOK
<1>11. ASSUME NEW c \in Calls, GiveUp(c) PROVE KeyOK(d)'
  BY <1>11, KeysAre DEF GiveUp, Leave, Goto, Unregister, CallInv, CallTypeOK, InFlight,
     Running, Ended, KeyInv, KeyOK
<1>12. ASSUME NEW c \in Calls, Swallow(c) PROVE KeyOK(d)'
  BY <1>12, KeysAre DEF Swallow, CallInv, CallTypeOK, InFlight, Running, Ended, KeyInv,
     KeyOK
<1>13. ASSUME NEW k \in Keys, CancelKey(k) PROVE KeyOK(d)'
  BY <1>13, KeysAre DEF CancelKey, CallInv, CallTypeOK, InFlight, Running, Ended,
     KeyInv, KeyOK
<1>14. CASE UNCHANGED callVars
  BY <1>14 DEF callVars, CallInv, KeyInv, KeyOK
<1> QED BY <1>1, <1>2, <1>3, <1>4, <1>5, <1>6, <1>7, <1>8, <1>9, <1>10, <1>11, <1>12, <1>13, <1>14 DEF CallStep, GateAnswers, RaceStep

(* Every step keeps who is registered under a key.                         *)
LEMMA TrackStep ==
    ASSUME NEW q \in Keys, TableTypes, KeyInv, TrackOK(q), [CallStep]_callVars
    PROVE  TrackOK(q)'
<1>1. ASSUME NEW c \in Calls, NotFound(c) PROVE TrackOK(q)'
  BY <1>1, KeysAre DEF NotFound, Goto, TableTypes, KeyOK, TrackOK, InFlight
<1>2. ASSUME NEW c \in Calls, NEW k \in Keys, BeginRun(c, k) PROVE TrackOK(q)'
  BY <1>2, KeysAre DEF BeginRun, Register, Race, Goto, TableTypes, KeyOK, TrackOK,
     InFlight
<1>3. ASSUME NEW c \in Calls, NEW i \in Ids, DeniedAtOnce(c, i) PROVE TrackOK(q)'
  BY <1>3, KeysAre DEF DeniedAtOnce, Goto, TableTypes, KeyOK, TrackOK, InFlight
<1>4. ASSUME NEW c \in Calls, NEW i \in Ids, BeginAsking(c, i) PROVE TrackOK(q)'
  BY <1>4, KeysAre DEF BeginAsking, Register, Goto, TableTypes, KeyOK, TrackOK, InFlight
<1>5. ASSUME NEW c \in Calls, GateDenies(c) PROVE TrackOK(q)'
  BY <1>5, KeysAre DEF GateDenies, Leave, Goto, Unregister, TableTypes, KeyOK, TrackOK,
     InFlight
<1>6. ASSUME NEW c \in Calls, AllowedTooLate(c) PROVE TrackOK(q)'
  BY <1>6, KeysAre DEF AllowedTooLate, Leave, Goto, Unregister, TableTypes, KeyOK,
     TrackOK, InFlight
<1>7. ASSUME NEW c \in Calls, Allowed(c) PROVE TrackOK(q)'
  BY <1>7, KeysAre DEF Allowed, Race, Goto, TableTypes, KeyOK, TrackOK, InFlight
<1>8. ASSUME NEW c \in Calls, NEW how \in Ended, WorkEnds(c, how) PROVE TrackOK(q)'
  BY <1>8, KeysAre DEF WorkEnds, TableTypes, KeyOK, TrackOK, InFlight
<1>9. ASSUME NEW c \in Calls, NEW what \in {"work", "token", "deadline"}, Wake(c, what) PROVE TrackOK(q)'
  BY <1>9, KeysAre DEF Wake, Goto, TableTypes, KeyOK, TrackOK, InFlight
<1>10. ASSUME NEW c \in Calls, Settle(c) PROVE TrackOK(q)'
  BY <1>10, KeysAre DEF Settle, Leave, Goto, Unregister, TableTypes, KeyOK, TrackOK,
     InFlight
<1>11. ASSUME NEW c \in Calls, GiveUp(c) PROVE TrackOK(q)'
  BY <1>11, KeysAre DEF GiveUp, Leave, Goto, Unregister, TableTypes, KeyOK, TrackOK,
     InFlight
<1>12. ASSUME NEW c \in Calls, Swallow(c) PROVE TrackOK(q)'
  BY <1>12, KeysAre DEF Swallow, TableTypes, KeyOK, TrackOK, InFlight
<1>13. ASSUME NEW k \in Keys, CancelKey(k) PROVE TrackOK(q)'
  BY <1>13, KeysAre DEF CancelKey, TableTypes, KeyOK, TrackOK, InFlight
<1>14. CASE UNCHANGED callVars
  BY <1>14 DEF callVars, TrackOK
<1> QED BY <1>1, <1>2, <1>3, <1>4, <1>5, <1>6, <1>7, <1>8, <1>9, <1>10, <1>11, <1>12, <1>13, <1>14 DEF CallStep, GateAnswers, RaceStep

(* Every step keeps what a cancel found.                                   *)
LEMMA FoundStep ==
    ASSUME NEW d \in Calls, TableTypes, KeyInv, FoundOK(d), [CallStep]_callVars
    PROVE  FoundOK(d)'
<1>1. ASSUME NEW c \in Calls, NotFound(c) PROVE FoundOK(d)'
  BY <1>1, KeysAre DEF NotFound, Goto, TableTypes, KeyInv, KeyOK, FoundOK, Alone,
     InFlight
<1>2. ASSUME NEW c \in Calls, NEW k \in Keys, BeginRun(c, k) PROVE FoundOK(d)'
  BY <1>2, KeysAre DEF BeginRun, Register, Race, Goto, TableTypes, KeyInv, KeyOK,
     FoundOK, Alone, InFlight
<1>3. ASSUME NEW c \in Calls, NEW i \in Ids, DeniedAtOnce(c, i) PROVE FoundOK(d)'
  BY <1>3, KeysAre DEF DeniedAtOnce, Goto, TableTypes, KeyInv, KeyOK, FoundOK, Alone,
     InFlight
<1>4. ASSUME NEW c \in Calls, NEW i \in Ids, BeginAsking(c, i) PROVE FoundOK(d)'
  BY <1>4, KeysAre DEF BeginAsking, Register, Goto, TableTypes, KeyInv, KeyOK, FoundOK,
     Alone, InFlight
<1>5. ASSUME NEW c \in Calls, GateDenies(c) PROVE FoundOK(d)'
  BY <1>5, KeysAre DEF GateDenies, Leave, Goto, Unregister, TableTypes, KeyInv, KeyOK,
     FoundOK, Alone, InFlight
<1>6. ASSUME NEW c \in Calls, AllowedTooLate(c) PROVE FoundOK(d)'
  BY <1>6, KeysAre DEF AllowedTooLate, Leave, Goto, Unregister, TableTypes, KeyInv,
     KeyOK, FoundOK, Alone, InFlight
<1>7. ASSUME NEW c \in Calls, Allowed(c) PROVE FoundOK(d)'
  BY <1>7, KeysAre DEF Allowed, Race, Goto, TableTypes, KeyInv, KeyOK, FoundOK, Alone,
     InFlight
<1>8. ASSUME NEW c \in Calls, NEW how \in Ended, WorkEnds(c, how) PROVE FoundOK(d)'
  BY <1>8, KeysAre DEF WorkEnds, TableTypes, KeyInv, KeyOK, FoundOK, Alone, InFlight
<1>9. ASSUME NEW c \in Calls, NEW what \in {"work", "token", "deadline"}, Wake(c, what) PROVE FoundOK(d)'
  BY <1>9, KeysAre DEF Wake, Goto, TableTypes, KeyInv, KeyOK, FoundOK, Alone, InFlight
<1>10. ASSUME NEW c \in Calls, Settle(c) PROVE FoundOK(d)'
  BY <1>10, KeysAre DEF Settle, Leave, Goto, Unregister, TableTypes, KeyInv, KeyOK,
     FoundOK, Alone, InFlight
<1>11. ASSUME NEW c \in Calls, GiveUp(c) PROVE FoundOK(d)'
  BY <1>11, KeysAre DEF GiveUp, Leave, Goto, Unregister, TableTypes, KeyInv, KeyOK,
     FoundOK, Alone, InFlight
<1>12. ASSUME NEW c \in Calls, Swallow(c) PROVE FoundOK(d)'
  BY <1>12, KeysAre DEF Swallow, TableTypes, KeyInv, KeyOK, FoundOK, Alone, InFlight
<1>13. ASSUME NEW k \in Keys, CancelKey(k) PROVE FoundOK(d)'
  BY <1>13, KeysAre DEF CancelKey, TableTypes, KeyInv, KeyOK, FoundOK, Alone, InFlight
<1>14. CASE UNCHANGED callVars
  BY <1>14 DEF callVars, FoundOK, Alone
<1> QED BY <1>1, <1>2, <1>3, <1>4, <1>5, <1>6, <1>7, <1>8, <1>9, <1>10, <1>11, <1>12, <1>13, <1>14 DEF CallStep, GateAnswers, RaceStep

(* Every step keeps what the work of a call may be.                        *)
LEMMA WorkStep ==
    ASSUME NEW d \in Calls, CallInv, [CallStep]_callVars
    PROVE  WorkOK(d)'
<1>1. ASSUME NEW c \in Calls, NotFound(c) PROVE WorkOK(d)'
  BY <1>1, KeysAre DEF NotFound, Goto, CallInv, CallTypeOK, InFlight, Running, Ended,
     WorkInv, WorkOK
<1>2. ASSUME NEW c \in Calls, NEW k \in Keys, BeginRun(c, k) PROVE WorkOK(d)'
  BY <1>2, KeysAre DEF BeginRun, Register, Race, Goto, CallInv, CallTypeOK, InFlight,
     Running, Ended, WorkInv, WorkOK
<1>3. ASSUME NEW c \in Calls, NEW i \in Ids, DeniedAtOnce(c, i) PROVE WorkOK(d)'
  BY <1>3, KeysAre DEF DeniedAtOnce, Goto, CallInv, CallTypeOK, InFlight, Running,
     Ended, WorkInv, WorkOK
<1>4. ASSUME NEW c \in Calls, NEW i \in Ids, BeginAsking(c, i) PROVE WorkOK(d)'
  BY <1>4, KeysAre DEF BeginAsking, Register, Goto, CallInv, CallTypeOK, InFlight,
     Running, Ended, WorkInv, WorkOK
<1>5. ASSUME NEW c \in Calls, GateDenies(c) PROVE WorkOK(d)'
  BY <1>5, KeysAre DEF GateDenies, Leave, Goto, Unregister, CallInv, CallTypeOK,
     InFlight, Running, Ended, WorkInv, WorkOK
<1>6. ASSUME NEW c \in Calls, AllowedTooLate(c) PROVE WorkOK(d)'
  BY <1>6, KeysAre DEF AllowedTooLate, Leave, Goto, Unregister, CallInv, CallTypeOK,
     InFlight, Running, Ended, WorkInv, WorkOK
<1>7. ASSUME NEW c \in Calls, Allowed(c) PROVE WorkOK(d)'
  BY <1>7, KeysAre DEF Allowed, Race, Goto, CallInv, CallTypeOK, InFlight, Running,
     Ended, WorkInv, WorkOK
<1>8. ASSUME NEW c \in Calls, NEW how \in Ended, WorkEnds(c, how) PROVE WorkOK(d)'
  BY <1>8, KeysAre DEF WorkEnds, CallInv, CallTypeOK, InFlight, Running, Ended, WorkInv,
     WorkOK
<1>9. ASSUME NEW c \in Calls, NEW what \in {"work", "token", "deadline"}, Wake(c, what) PROVE WorkOK(d)'
  BY <1>9, KeysAre DEF Wake, Goto, CallInv, CallTypeOK, InFlight, Running, Ended,
     WorkInv, WorkOK
<1>10. ASSUME NEW c \in Calls, Settle(c) PROVE WorkOK(d)'
  BY <1>10, KeysAre DEF Settle, Leave, Goto, Unregister, CallInv, CallTypeOK, InFlight,
     Running, Ended, WorkInv, WorkOK
<1>11. ASSUME NEW c \in Calls, GiveUp(c) PROVE WorkOK(d)'
  BY <1>11, KeysAre DEF GiveUp, Leave, Goto, Unregister, CallInv, CallTypeOK, InFlight,
     Running, Ended, WorkInv, WorkOK
<1>12. ASSUME NEW c \in Calls, Swallow(c) PROVE WorkOK(d)'
  BY <1>12 DEF Swallow, CallInv, WorkInv, WorkOK
<1>13. ASSUME NEW k \in Keys, CancelKey(k) PROVE WorkOK(d)'
  <2>1. TableTypes /\ TrackOK(k)
    BY DEF CallInv, CallTypeOK, TableTypes, TrackInv
  <2>2. tracked[k] \in Calls /\ pc[tracked[k]] # "idle"
    BY <1>13, <2>1 DEF CancelKey, TableTypes, TrackOK, InFlight
  <2> QED BY <1>13, <2>2 DEF CancelKey, CallInv, CallTypeOK, WorkInv, WorkOK
<1>14. CASE UNCHANGED callVars
  BY <1>14 DEF callVars, CallInv, WorkInv, WorkOK
<1> QED BY <1>1, <1>2, <1>3, <1>4, <1>5, <1>6, <1>7, <1>8, <1>9, <1>10, <1>11, <1>12, <1>13, <1>14 DEF CallStep, GateAnswers, RaceStep

(* Every step keeps that answers tell what became of the work.             *)
LEMMA TruthStep ==
    ASSUME NEW d \in Calls, CallInv, [CallStep]_callVars
    PROVE  TruthOK(d)'
<1>1. ASSUME NEW c \in Calls, NotFound(c) PROVE TruthOK(d)'
  <2>1. /\ outcome'[d] = (IF d = c THEN "not found" ELSE outcome[d])
        /\ UNCHANGED <<work, seen, fired>>
    BY <1>1 DEF NotFound, CallInv, CallTypeOK
  <2>2. d = c => work[d] = "none"
    BY <1>1 DEF NotFound, CallInv, WorkInv, WorkOK
  <2> QED BY <2>1, <2>2 DEF CallInv, TruthOK
<1>2. ASSUME NEW c \in Calls, NEW k \in Keys, BeginRun(c, k) PROVE TruthOK(d)'
  <2>1. /\ work'[d] = (IF d = c THEN "running" ELSE work[d])
        /\ UNCHANGED <<outcome, seen, fired>>
    BY <1>2 DEF BeginRun, Race, CallInv, CallTypeOK
  <2>2. d = c => outcome[d] = "none"
    BY <1>2 DEF BeginRun, Register, CallInv, WorkInv, WorkOK
  <2> QED BY <2>1, <2>2 DEF CallInv, TruthOK
<1>3. ASSUME NEW c \in Calls, NEW i \in Ids, DeniedAtOnce(c, i) PROVE TruthOK(d)'
  <2>1. /\ outcome'[d] = (IF d = c THEN "denied" ELSE outcome[d])
        /\ UNCHANGED <<work, seen, fired>>
    BY <1>3 DEF DeniedAtOnce, CallInv, CallTypeOK
  <2>2. d = c => work[d] = "none"
    BY <1>3 DEF DeniedAtOnce, CallInv, WorkInv, WorkOK
  <2> QED BY <2>1, <2>2 DEF CallInv, TruthOK
<1>4. ASSUME NEW c \in Calls, NEW i \in Ids, BeginAsking(c, i) PROVE TruthOK(d)'
  BY <1>4 DEF BeginAsking, CallInv, TruthOK
<1>5. ASSUME NEW c \in Calls, GateDenies(c) PROVE TruthOK(d)'
  <2>1. /\ outcome'[d] = (IF d = c THEN "denied" ELSE outcome[d])
        /\ UNCHANGED <<work, seen, fired>>
    BY <1>5 DEF GateDenies, Leave, CallInv, CallTypeOK
  <2>2. d = c => work[d] = "none"
    BY <1>5 DEF GateDenies, CallInv, WorkInv, WorkOK
  <2> QED BY <2>1, <2>2 DEF CallInv, TruthOK
<1>6. ASSUME NEW c \in Calls, AllowedTooLate(c) PROVE TruthOK(d)'
  <2>1. /\ outcome'[d] = (IF d = c THEN "cancelled" ELSE outcome[d])
        /\ UNCHANGED <<work, seen, fired>>
    BY <1>6 DEF AllowedTooLate, Leave, CallInv, CallTypeOK
  <2>2. d = c => work[d] = "none" /\ fired[d]
    BY <1>6 DEF AllowedTooLate, CallInv, WorkInv, WorkOK
  <2> QED BY <2>1, <2>2 DEF CallInv, TruthOK
<1>7. ASSUME NEW c \in Calls, Allowed(c) PROVE TruthOK(d)'
  <2>1. /\ work'[d] = (IF d = c THEN "running" ELSE work[d])
        /\ UNCHANGED <<outcome, seen, fired>>
    BY <1>7 DEF Allowed, Race, CallInv, CallTypeOK
  <2>2. d = c => outcome[d] = "none"
    BY <1>7 DEF Allowed, CallInv, WorkInv, WorkOK
  <2> QED BY <2>1, <2>2 DEF CallInv, TruthOK
<1>8. ASSUME NEW c \in Calls, NEW how \in Ended, WorkEnds(c, how) PROVE TruthOK(d)'
  <2>1. /\ work'[d] = (IF d = c THEN how ELSE work[d])
        /\ UNCHANGED <<outcome, seen, fired>>
    BY <1>8 DEF WorkEnds, CallInv, CallTypeOK
  <2>2. d = c => outcome[d] \in {"none", "interrupted"}
    BY <1>8 DEF WorkEnds, CallInv, CallTypeOK, WorkInv, WorkOK
  <2> QED BY <2>1, <2>2 DEF CallInv, TruthOK
<1>9. ASSUME NEW c \in Calls, NEW what \in {"work", "token", "deadline"}, Wake(c, what) PROVE TruthOK(d)'
  <2>1. /\ d # c => work'[d] = work[d] /\ seen'[d] = seen[d]
        /\ UNCHANGED <<outcome, fired>>
    BY <1>9 DEF Wake, CallInv, CallTypeOK
  <2>2. d = c => outcome[d] = "none"
    BY <1>9 DEF Wake, CallInv, WorkInv, WorkOK
  <2> QED BY <2>1, <2>2 DEF CallInv, TruthOK
<1>10. ASSUME NEW c \in Calls, Settle(c) PROVE TruthOK(d)'
  <2>1. CASE d # c
    <3>1. outcome'[d] = outcome[d] /\ UNCHANGED <<work, seen, fired>>
      BY <1>10, <2>1 DEF Settle, Leave, CallInv, CallTypeOK
    <3> QED BY <3>1 DEF CallInv, TruthOK
  <2>2. CASE d = c
    <3>1. /\ outcome'[c] = CASE work[c] = "raised" -> "failed"
                             [] work[c] # "raised" /\ seen[c] = "token" -> "cancelled"
                             [] work[c] # "raised" /\ seen[c] = "deadline" -> "timeout"
                             [] work[c] = "returned" /\ seen[c] = "work" -> "result"
                             [] work[c] = "stopped" /\ seen[c] = "work" -> "interrupted"
          /\ UNCHANGED <<work, seen, fired>>
      BY <1>10 DEF Settle, Leave, CallInv, CallTypeOK
    <3>2. /\ work[c] \in {"returned", "raised", "stopped"}
          /\ seen[c] \in {"work", "token", "deadline"}
          /\ seen[c] = "token" => fired[c]
      BY <1>10 DEF Settle, CallInv, CallTypeOK, Running, WorkInv, WorkOK
    <3> QED BY <2>2, <3>1, <3>2 DEF TruthOK
  <2> QED BY <2>1, <2>2
<1>11. ASSUME NEW c \in Calls, GiveUp(c) PROVE TruthOK(d)'
  <2>1. /\ outcome'[d] = (IF d = c THEN "interrupted" ELSE outcome[d])
        /\ work'[d] = (IF d = c /\ work[d] = "running" THEN "cancelling" ELSE work[d])
        /\ UNCHANGED <<seen, fired>>
    BY <1>11 DEF GiveUp, Leave, CallInv, CallTypeOK
  <2> QED BY <2>1 DEF CallInv, TruthOK
<1>12. ASSUME NEW c \in Calls, Swallow(c) PROVE TruthOK(d)'
  BY <1>12 DEF Swallow, CallInv, TruthOK
<1>13. ASSUME NEW k \in Keys, CancelKey(k) PROVE TruthOK(d)'
  <2>1. /\ fired[d] => fired'[d]
        /\ UNCHANGED <<outcome, work, seen>>
    BY <1>13 DEF CancelKey, CallInv, CallTypeOK
  <2> QED BY <2>1 DEF CallInv, TruthOK
<1>14. CASE UNCHANGED callVars
  BY <1>14 DEF callVars, CallInv, TruthOK
<1> QED BY <1>1, <1>2, <1>3, <1>4, <1>5, <1>6, <1>7, <1>8, <1>9, <1>10, <1>11, <1>12, <1>13, <1>14 DEF CallStep, GateAnswers, RaceStep

(* The invariant of the dispatcher holds always.                           *)
LEMMA CallInductive == CallInit /\ [][CallStep]_callVars => []CallInv
<1>1. CallInit => CallInv
  <2> SUFFICES ASSUME CallInit PROVE CallInv  OBVIOUS
  <2>1. CallTypeOK  BY KeysAre DEF CallInit, CallTypeOK
  <2>2. KeyInv /\ TrackInv /\ FoundInv
    BY DEF CallInit, KeyInv, KeyOK, TrackInv, TrackOK, FoundInv, FoundOK, InFlight
  <2>3. WorkInv /\ \A c \in Calls : TruthOK(c)
    BY DEF CallInit, WorkInv, WorkOK, TruthOK, Running
  <2> QED BY <2>1, <2>2, <2>3 DEF CallInv
<1>2. CallInv /\ [CallStep]_callVars => CallInv'
  <2> SUFFICES ASSUME CallInv, [CallStep]_callVars PROVE CallInv'  OBVIOUS
  <2>1. CallTypeOK'  BY TypeStep
  <2>2. KeyInv' /\ TrackInv' /\ FoundInv'
    <3>1. TableTypes /\ KeyInv  BY DEF CallInv, CallTypeOK, TableTypes
    <3>2. (\A k \in Keys : TrackOK(k)) /\ \A c \in Calls : FoundOK(c)
      BY DEF CallInv, TrackInv, FoundInv
    <3> QED BY <3>1, <3>2, KeyStep, TrackStep, FoundStep DEF KeyInv, TrackInv, FoundInv
  <2>3. WorkInv' /\ (\A c \in Calls : TruthOK(c))'
    BY WorkStep, TruthStep DEF WorkInv
  <2> QED BY <2>1, <2>2, <2>3 DEF CallInv
<1> QED BY <1>1, <1>2, PTL

(* The invariant gives what the dispatcher promises.                       *)
LEMMA InvPromises == CallInv => CallTypeOK /\ Truthful /\ NoOrphan /\ Cancellable
<1> SUFFICES ASSUME CallInv PROVE CallTypeOK /\ Truthful /\ NoOrphan /\ Cancellable
  OBVIOUS
<1>1. CallTypeOK  BY DEF CallInv
<1>2. Truthful  BY DEF CallInv, TruthOK, Truthful
<1>3. NoOrphan
  <2> SUFFICES ASSUME NEW c \in Calls, work[c] \in Running
               PROVE  \/ pc[c] \in {"racing", "settling"}
                      \/ outcome[c] = "interrupted" /\ work[c] = "cancelling"
    BY DEF NoOrphan
  <2> QED BY DEF CallInv, CallTypeOK, WorkInv, WorkOK, Running, InFlight
<1>4. Cancellable
  BY DEF CallInv, FoundInv, FoundOK, Alone, TrackInv, TrackOK, Cancellable
<1> QED BY <1>1, <1>2, <1>3, <1>4

(* Every variable keeps its type. *)
THEOREM TypeCorrect == CallSpec => []CallTypeOK
<1>1. CallInv => CallTypeOK  BY InvPromises
<1> QED BY <1>1, CallInductive, PTL DEF CallSpec

(* What the caller is told is what happened to the work. *)
THEOREM ToldTheTruth == CallSpec => []Truthful
<1>1. CallInv => Truthful  BY InvPromises
<1> QED BY <1>1, CallInductive, PTL DEF CallSpec

(* Once the caller has its answer nothing of the call runs, unless the     *)
(* caller itself was cancelled while the work raced.                       *)
THEOREM NothingLeftRunning == CallSpec => []NoOrphan
<1>1. CallInv => NoOrphan  BY InvPromises
<1> QED BY <1>1, CallInductive, PTL DEF CallSpec

(* A call in flight whose id no other call was given is found by cancel;   *)
(* one that has ended is found by none.                                    *)
THEOREM CanBeCancelled == CallSpec => []Cancellable
<1>1. CallInv => Cancellable  BY InvPromises
<1> QED BY <1>1, CallInductive, PTL DEF CallSpec

(* Both: the answer tells the end of the work. *)
THEOREM AnswersAreTrue == CallSpec => []AnsweredTruly
BY ToldTheTruth, NothingLeftRunning, PTL DEF AnsweredTruly

(* A call whose token fired before its work began never begins it.         *)
LEMMA HeededBySteps == CallInit /\ [][CallStep]_callVars => CancelHeeded
<1> DEFINE Heeded == \A c \in Calls : fired[c] /\ work[c] = "none" => work'[c] = "none"
<1>1. CallInv /\ [CallStep]_callVars => [Heeded]_callVars
  <2> SUFFICES ASSUME CallInv, CallStep, NEW d \in Calls, fired[d], work[d] = "none"
               PROVE  work'[d] = "none"
    BY DEF Heeded
  <2>1. ASSUME NEW c \in Calls, NotFound(c) PROVE work'[d] = "none"
    BY <2>1 DEF NotFound, Goto, CallInv, CallTypeOK, WorkInv, WorkOK, Running, Ended
  <2>2. ASSUME NEW c \in Calls, NEW k \in Keys, BeginRun(c, k) PROVE work'[d] = "none"
    BY <2>2 DEF BeginRun, Register, Race, Goto, CallInv, CallTypeOK, WorkInv, WorkOK,
     Running, Ended
  <2>3. ASSUME NEW c \in Calls, NEW i \in Ids, DeniedAtOnce(c, i) PROVE work'[d] = "none"
    BY <2>3 DEF DeniedAtOnce, Goto, CallInv, CallTypeOK, WorkInv, WorkOK, Running, Ended
  <2>4. ASSUME NEW c \in Calls, NEW i \in Ids, BeginAsking(c, i) PROVE work'[d] = "none"
    BY <2>4 DEF BeginAsking, Register, Goto, CallInv, CallTypeOK, WorkInv, WorkOK,
     Running, Ended
  <2>5. ASSUME NEW c \in Calls, GateDenies(c) PROVE work'[d] = "none"
    BY <2>5 DEF GateDenies, Leave, Goto, Unregister, CallInv, CallTypeOK, WorkInv,
     WorkOK, Running, Ended
  <2>6. ASSUME NEW c \in Calls, AllowedTooLate(c) PROVE work'[d] = "none"
    BY <2>6 DEF AllowedTooLate, Leave, Goto, Unregister, CallInv, CallTypeOK, WorkInv,
     WorkOK, Running, Ended
  <2>7. ASSUME NEW c \in Calls, Allowed(c) PROVE work'[d] = "none"
    BY <2>7 DEF Allowed, Race, Goto, CallInv, CallTypeOK, WorkInv, WorkOK, Running,
     Ended
  <2>8. ASSUME NEW c \in Calls, NEW how \in Ended, WorkEnds(c, how) PROVE work'[d] = "none"
    BY <2>8 DEF WorkEnds, CallInv, CallTypeOK, WorkInv, WorkOK, Running, Ended
  <2>9. ASSUME NEW c \in Calls, NEW what \in {"work", "token", "deadline"}, Wake(c, what) PROVE work'[d] = "none"
    BY <2>9 DEF Wake, Goto, CallInv, CallTypeOK, WorkInv, WorkOK, Running, Ended
  <2>10. ASSUME NEW c \in Calls, Settle(c) PROVE work'[d] = "none"
    BY <2>10 DEF Settle, Leave, Goto, Unregister, CallInv, CallTypeOK, WorkInv, WorkOK,
     Running, Ended
  <2>11. ASSUME NEW c \in Calls, GiveUp(c) PROVE work'[d] = "none"
    BY <2>11 DEF GiveUp, Leave, Goto, Unregister, CallInv, CallTypeOK, WorkInv, WorkOK,
     Running, Ended
  <2>12. ASSUME NEW c \in Calls, Swallow(c) PROVE work'[d] = "none"
    BY <2>12 DEF Swallow, CallInv, CallTypeOK, WorkInv, WorkOK, Running, Ended
  <2>13. ASSUME NEW k \in Keys, CancelKey(k) PROVE work'[d] = "none"
    BY <2>13 DEF CancelKey, CallInv, CallTypeOK, WorkInv, WorkOK, Running, Ended
  <2> QED BY <2>1, <2>2, <2>3, <2>4, <2>5, <2>6, <2>7, <2>8, <2>9, <2>10, <2>11, <2>12, <2>13 DEF CallStep, GateAnswers, RaceStep
<1> QED BY <1>1, CallInductive, PTL DEF CancelHeeded

(* A call cancelled while permission is asked never executes. *)
THEOREM CancellationHeeded == CallSpec => CancelHeeded
BY HeededBySteps, PTL DEF CallSpec

(* Both: a cancellation by id finds its call, and the call heeds it. *)
THEOREM CancellationWorks == CallSpec => CancelWorks
BY CanBeCancelled, CancellationHeeded, PTL DEF CancelWorks

-----------------------------------------------------------------------------
(* Nesting, for any calls, kinds and scopes, however deep: cancelling a    *)
(* run cancels all of it.                                                  *)
(*                                                                         *)
(* The inductive invariant: the maker of a call in flight works and has    *)
(* not met its cancellation (MakerOK), and has no second call in flight    *)
(* (OnlyOne).  What is claimed of works follows with the invariant of      *)
(* Dispatch: a work that nobody cancelled belongs to a race, hence to a    *)
(* call in flight, hence to a maker that works and was told nothing.       *)


NestTypes ==
    /\ maker \in [Calls -> Calls \cup {Nobody}]
    /\ heard \in [Calls -> {"no", "yes", "missed"}]

MakerOK(d) ==
    pc[d] \in InFlight /\ maker[d] # Nobody =>
        work[maker[d]] \in Running /\ heard[maker[d]] # "yes"

OnlyOne(d, e) ==
    pc[d] \in InFlight /\ pc[e] \in InFlight /\ maker[d] # Nobody
        /\ maker[d] = maker[e] => d = e

InScope(d) == maker[d] # Nobody => d \in Scope[maker[d]]

NestInv ==
    /\ NestTypes
    /\ \A d \in Calls : MakerOK(d) /\ InScope(d)
    /\ \A d, e \in Calls : OnlyOne(d, e)

(* Of CallInv, what is needed here. *)
CallTypes ==
    /\ pc \in [Calls -> {"idle", "done"} \cup InFlight]
    /\ work \in [Calls -> {"none"} \cup Running \cup Ended]
    /\ \A c \in Calls : WorkOK(c)

(* The invariant gives the types.                                          *)
LEMMA InvTypes == CallInv => CallTypes
BY DEF CallInv, CallTypeOK, WorkInv, CallTypes

----------------------------------------------------------------------------
(* The composition: its steps are those of Dispatch. *)

(* A step of the callers is one of the dispatcher, or leaves it alone.     *)
LEMMA NestedSteps ==
    ASSUME [NestedNext]_nestVars
    PROVE  [CallStep]_callVars
<1>1. ASSUME NEW d \in Calls, NEW c \in Calls \cup {Nobody}, Makes(c, d)
      PROVE  CallStep
  <2>1. CASE NotFound(d)  BY <2>1 DEF CallStep
  <2>2. CASE \E i \in Ids : BeginRun(d, <<KindOf[d], i>>)
    <3>1. PICK i \in Ids : BeginRun(d, <<KindOf[d], i>>)  BY <2>2
    <3>2. <<KindOf[d], i>> \in Keys  BY NestingAssumption DEF Keys
    <3> QED BY <3>1, <3>2 DEF CallStep
  <2>3. CASE \E i \in Ids : BeginAsking(d, i) \/ DeniedAtOnce(d, i)
    BY <2>3 DEF CallStep
  <2> QED BY <1>1, <2>1, <2>2, <2>3 DEF Makes, Begins
<1>2. ASSUME NEW d \in Calls, Proceeds(d) PROVE CallStep
  BY <1>2 DEF Proceeds, GoesOn, IsAnswered, CallStep, RaceStep
<1>3. ASSUME NEW d \in Calls, CodeEnds(d) PROVE CallStep
  BY <1>3 DEF CodeEnds, CallStep, RaceStep
<1>4. ASSUME NEW c \in Calls, Reach(c) PROVE CallStep \/ UNCHANGED callVars
  BY <1>4 DEF Reach, Awaited, CallStep, RaceStep
<1>5. ASSUME NEW d \in Calls, ClientCancels(d) PROVE CallStep
  BY <1>5 DEF ClientCancels, Swallows, CallStep, RaceStep
<1>6. ASSUME NEW k \in Keys, CancelKey(k) PROVE CallStep
  BY <1>6 DEF CallStep, RaceStep
<1>7. CASE UNCHANGED nestVars  BY <1>7 DEF nestVars
<1> QED BY <1>1, <1>2, <1>3, <1>4, <1>5, <1>6, <1>7 DEF NestedNext

(* Calls made by calls are bounded calls (skill, agent and tool            *)
(* dispatchers alike): Nesting implements what Dispatch allows.            *)
THEOREM NestedCallsAreBounded == NestedSpec => CallInit /\ [][CallStep]_callVars
<1>1. NestedInit => CallInit  BY DEF NestedInit
<1>2. [NestedNext]_nestVars => [CallStep]_callVars  BY NestedSteps
<1> QED BY <1>1, <1>2, PTL DEF NestedSpec

----------------------------------------------------------------------------
(* What a step does to the calls it is not about. *)

(* A step of the dispatcher of d, in flight: it moves no other call and    *)
(* ends no work.                                                           *)
Moves(d) ==
    /\ pc[d] \in InFlight
    /\ \A e \in Calls \ {d} : pc'[e] = pc[e] /\ work'[e] = work[e]
    /\ work[d] \in Running => work'[d] \in Running

(* A step of the dispatcher alone makes and ends nobody's call.            *)
LEMMA DispatcherMoves ==
    ASSUME CallTypes, NEW d \in Calls,
           \/ \E allow \in BOOLEAN : GateAnswers(d, allow)
           \/ \E what \in {"work", "token", "deadline"} : Wake(d, what)
           \/ Settle(d) \/ GiveUp(d) \/ Swallow(d)
    PROVE  Moves(d)
<1>1. CASE GateDenies(d) \/ AllowedTooLate(d) \/ Settle(d)
  BY <1>1 DEF CallTypes, GateDenies, AllowedTooLate, Settle, Leave, Goto, Moves, InFlight
<1>2. CASE Allowed(d)
  BY <1>2 DEF CallTypes, Allowed, Race, Goto, Moves, InFlight, Running
<1>3. ASSUME NEW what \in {"work", "token", "deadline"}, Wake(d, what) PROVE Moves(d)
  BY <1>3 DEF CallTypes, Wake, Goto, Moves, InFlight, Running
<1>4. CASE GiveUp(d)
  BY <1>4 DEF CallTypes, GiveUp, Leave, Goto, Moves, InFlight, Running
<1>5. CASE Swallow(d)
  BY <1>5 DEF CallTypes, Swallow, Moves
<1> QED BY <1>1, <1>2, <1>3, <1>4, <1>5 DEF GateAnswers

(* A call that gives up is done.                                           *)
LEMMA Gone ==
    ASSUME CallTypes, NEW d \in Calls, GiveUp(d)
    PROVE  pc'[d] = "done"
BY DEF CallTypes, GiveUp, Leave, Goto

(* What moves alone can break: only that somebody met a cancellation. *)
LEMMA MovesKeep ==
    ASSUME NestInv, CallTypes, NEW d \in Calls, Moves(d), maker' = maker,
           NEW x \in Calls, NEW y \in Calls
    PROVE  /\ InScope(x)' /\ OnlyOne(x, y)'
           /\ pc'[x] \in InFlight /\ maker'[x] # Nobody =>
                  /\ pc[x] \in InFlight
                  /\ work'[maker[x]] \in Running /\ heard[maker[x]] # "yes"
<1>1. InScope(x)'  BY DEF NestInv, InScope
<1>2. \A e \in Calls : pc'[e] \in InFlight => pc[e] \in InFlight  BY DEF Moves
<1>3. \A e \in Calls : work[e] \in Running => work'[e] \in Running  BY DEF Moves
<1>4. maker[x] # Nobody => maker[x] \in Calls  BY DEF NestInv, NestTypes
<1>5. OnlyOne(x, y)'  BY <1>2 DEF NestInv, OnlyOne
<1> QED BY <1>1, <1>2, <1>3, <1>4, <1>5 DEF NestInv, MakerOK

(* Making a call within another keeps who made whom.                       *)
LEMMA MakesKeeps ==
    ASSUME NestInv, CallTypes, NEW d \in Calls, NEW c \in Calls \cup {Nobody},
           Makes(c, d), NEW x \in Calls, NEW y \in Calls
    PROVE  MakerOK(x)' /\ InScope(x)' /\ OnlyOne(x, y)'
<1>1. pc[d] = "idle" /\ work[d] = "none"
  BY DEF Makes, Begins, NotFound, BeginRun, BeginAsking, DeniedAtOnce, Register,
     CallTypes, WorkOK
<1>2. \A e \in Calls \ {d} : pc'[e] = pc[e] /\ work'[e] = work[e]
  BY DEF Makes, Begins, NotFound, BeginRun, BeginAsking, DeniedAtOnce, Register, Race,
     Goto, CallTypes
<1>3. /\ heard' = heard /\ d \in Scope[c]
      /\ maker'[d] = c /\ \A e \in Calls \ {d} : maker'[e] = maker[e]
  BY DEF Makes, NestInv, NestTypes
<1>4. c # Nobody => work[c] \in Running /\ heard[c] # "yes"
  BY DEF Makes, Acts
<1>5. \A e \in Calls : maker[e] = c /\ c # Nobody => pc[e] \notin InFlight
  BY DEF Makes, Acts, Awaited
<1>6. c # d /\ Nobody \notin Calls  BY <1>1, <1>4, KeysAre DEF Running
<1>7. \A e \in Calls : maker[e] = d => pc[e] \notin InFlight
  BY <1>1, <1>6 DEF NestInv, MakerOK, Running
<1>8. \A e \in Calls : maker[e] # Nobody => maker[e] \in Calls
  BY DEF NestInv, NestTypes
<1>9. MakerOK(x)'
  <2>1. CASE x = d
    BY <2>1, <1>2, <1>3, <1>4, <1>6 DEF MakerOK
  <2>2. CASE x # d
    <3> SUFFICES ASSUME pc'[x] \in InFlight, maker'[x] # Nobody
                 PROVE  work'[maker'[x]] \in Running /\ heard'[maker'[x]] # "yes"
      BY DEF MakerOK
    <3>1. pc[x] \in InFlight /\ maker'[x] = maker[x]  BY <2>2, <1>2, <1>3
    <3>2. maker[x] # d /\ maker[x] \in Calls  BY <3>1, <1>7, <1>8
    <3> QED BY <3>1, <3>2, <1>2, <1>3 DEF NestInv, MakerOK
  <2> QED BY <2>1, <2>2
<1>10. InScope(x)'  BY <1>3 DEF NestInv, InScope
<1>11. OnlyOne(x, y)'
  <2>1. CASE x # d /\ y # d  BY <2>1, <1>2, <1>3 DEF NestInv, OnlyOne
  <2>2. CASE x = d \/ y = d  BY <2>2, <1>2, <1>3, <1>5 DEF OnlyOne
  <2> QED BY <2>1, <2>2
<1> QED BY <1>9, <1>10, <1>11

(* A token that reaches a call keeps who made whom.                        *)
LEMMA ReachKeeps ==
    ASSUME NestInv, CallTypes, NEW c \in Calls, Reach(c), NEW x \in Calls, NEW y \in Calls
    PROVE  MakerOK(x)' /\ InScope(x)' /\ OnlyOne(x, y)'
<1>1. maker' = maker  BY DEF Reach
<1>2. CASE Awaited(c) = {} /\ heard' = [heard EXCEPT ![c] = "yes"] /\ UNCHANGED callVars
  <2>1. pc' = pc /\ work' = work  BY <1>2 DEF callVars
  <2>2. pc[x] \in InFlight => maker[x] # c  BY <1>2 DEF Awaited
  <2>3. maker[x] # c => heard'[maker[x]] = heard[maker[x]]
    BY <1>2 DEF NestInv, NestTypes
  <2> QED BY <1>1, <2>1, <2>2, <2>3 DEF NestInv, MakerOK, InScope, OnlyOne
<1>3. ASSUME NEW d \in Awaited(c), GiveUp(d), heard' = [heard EXCEPT ![c] = "yes"]
      PROVE  MakerOK(x)' /\ InScope(x)' /\ OnlyOne(x, y)'
  <2>1. d \in Calls /\ maker[d] = c /\ pc[d] \in InFlight  BY DEF Awaited
  <2>2. Moves(d) /\ pc'[d] = "done"  BY <1>3, <2>1, DispatcherMoves, Gone
  <2>3. /\ InScope(x)' /\ OnlyOne(x, y)'
        /\ pc'[x] \in InFlight /\ maker'[x] # Nobody =>
               /\ pc[x] \in InFlight
               /\ work'[maker[x]] \in Running /\ heard[maker[x]] # "yes"
    BY <1>1, <2>1, <2>2, MovesKeep
  <2>4. pc'[x] \in InFlight => x # d  BY <2>2 DEF InFlight
  <2>5. pc'[x] \in InFlight /\ maker'[x] # Nobody => maker[x] # c
    BY <1>1, <2>1, <2>3, <2>4 DEF NestInv, OnlyOne
  <2>6. maker[x] # c => heard'[maker[x]] = heard[maker[x]]
    BY <1>3 DEF NestInv, NestTypes
  <2> QED BY <1>1, <2>3, <2>5, <2>6 DEF MakerOK
<1>4. ASSUME NEW d \in Awaited(c), Swallow(d), NEW again \in {heard[d], "no"},
             heard' = [heard EXCEPT ![c] = "missed", ![d] = again]
      PROVE  MakerOK(x)' /\ InScope(x)' /\ OnlyOne(x, y)'
  <2>1. d \in Calls  BY DEF Awaited
  <2>2. Moves(d)  BY <1>4, <2>1, DispatcherMoves
  <2>3. /\ InScope(x)' /\ OnlyOne(x, y)'
        /\ pc'[x] \in InFlight /\ maker'[x] # Nobody =>
               /\ pc[x] \in InFlight
               /\ work'[maker[x]] \in Running /\ heard[maker[x]] # "yes"
    BY <1>1, <2>1, <2>2, MovesKeep
  <2>4. maker[x] # Nobody => maker[x] \in Calls  BY DEF NestInv, NestTypes
  <2>5. \A e \in Calls : heard[e] # "yes" => heard'[e] # "yes"
    BY <1>4, <2>1 DEF NestInv, NestTypes
  <2> QED BY <1>1, <2>3, <2>4, <2>5 DEF MakerOK
<1> QED BY <1>2, <1>3, <1>4 DEF Reach

(* Every step keeps who made whom.                                         *)
LEMMA NestStep ==
    ASSUME NestInv, CallTypes, [NestedNext]_nestVars, NEW x \in Calls, NEW y \in Calls
    PROVE  MakerOK(x)' /\ InScope(x)' /\ OnlyOne(x, y)'
<1>1. ASSUME NEW d \in Calls, NEW c \in Calls \cup {Nobody}, Makes(c, d)
      PROVE  MakerOK(x)' /\ InScope(x)' /\ OnlyOne(x, y)'
  BY <1>1, MakesKeeps
<1>2. ASSUME NEW c \in Calls, Reach(c)
      PROVE  MakerOK(x)' /\ InScope(x)' /\ OnlyOne(x, y)'
  BY <1>2, ReachKeeps
<1>3. ASSUME NEW d \in Calls, Moves(d), maker' = maker,
             \A e \in Calls : heard[e] # "yes" => heard'[e] # "yes"
      PROVE  MakerOK(x)' /\ InScope(x)' /\ OnlyOne(x, y)'
  <2>1. /\ InScope(x)' /\ OnlyOne(x, y)'
        /\ pc'[x] \in InFlight /\ maker'[x] # Nobody =>
               /\ pc[x] \in InFlight
               /\ work'[maker[x]] \in Running /\ heard[maker[x]] # "yes"
    BY <1>3, MovesKeep
  <2>2. maker[x] # Nobody => maker[x] \in Calls  BY DEF NestInv, NestTypes
  <2> QED BY <1>3, <2>1, <2>2 DEF MakerOK
<1>4. ASSUME NEW d \in Calls, Proceeds(d)
      PROVE  MakerOK(x)' /\ InScope(x)' /\ OnlyOne(x, y)'
  <2>1. Moves(d)  BY <1>4, DispatcherMoves DEF Proceeds, GoesOn, IsAnswered
  <2> QED BY <1>3, <1>4, <2>1 DEF Proceeds, GoesOn, IsAnswered
<1>5. ASSUME NEW d \in Calls, ClientCancels(d)
      PROVE  MakerOK(x)' /\ InScope(x)' /\ OnlyOne(x, y)'
  <2>1. Moves(d)  BY <1>5, DispatcherMoves DEF ClientCancels, Swallows
  <2>2. \A e \in Calls : heard[e] # "yes" => heard'[e] # "yes"
    BY <1>5 DEF ClientCancels, Swallows, NestInv, NestTypes
  <2> QED BY <1>3, <1>5, <2>1, <2>2 DEF ClientCancels
<1>6. ASSUME NEW c \in Calls, CodeEnds(c)
      PROVE  MakerOK(x)' /\ InScope(x)' /\ OnlyOne(x, y)'
  <2>1. /\ maker' = maker /\ heard' = heard /\ pc' = pc
        /\ \A e \in Calls \ {c} : work'[e] = work[e]
    BY <1>6 DEF CodeEnds, WorkEnds, CallTypes
  <2>2. pc[x] \in InFlight => maker[x] # c  BY <1>6 DEF CodeEnds, Acts, Awaited
  <2>3. maker[x] # Nobody => maker[x] \in Calls  BY DEF NestInv, NestTypes
  <2> QED BY <2>1, <2>2, <2>3 DEF NestInv, MakerOK, InScope, OnlyOne
<1>7. ASSUME UNCHANGED <<pc, work, maker, heard>>
      PROVE  MakerOK(x)' /\ InScope(x)' /\ OnlyOne(x, y)'
  BY <1>7 DEF NestInv, MakerOK, InScope, OnlyOne
<1>8. ASSUME NEW k \in Keys, CancelKey(k), UNCHANGED <<maker, heard>>
      PROVE  MakerOK(x)' /\ InScope(x)' /\ OnlyOne(x, y)'
  BY <1>7, <1>8 DEF CancelKey
<1>9. CASE UNCHANGED nestVars  BY <1>7, <1>9 DEF nestVars, callVars
<1> QED BY <1>1, <1>2, <1>4, <1>5, <1>6, <1>8, <1>9 DEF NestedNext

(* Every step keeps the types of the callers.                              *)
LEMMA NestTypeStep ==
    ASSUME NestTypes, [NestedNext]_nestVars
    PROVE  NestTypes'
<1>1. ASSUME NEW d \in Calls, NEW c \in Calls \cup {Nobody}, Makes(c, d) PROVE NestTypes'
  BY <1>1 DEF Makes, NestTypes
<1>2. ASSUME NEW d \in Calls, Proceeds(d) \/ CodeEnds(d) PROVE NestTypes'
  BY <1>2 DEF Proceeds, GoesOn, IsAnswered, CodeEnds, NestTypes
<1>3. ASSUME NEW c \in Calls, Reach(c) PROVE NestTypes'
  BY <1>3 DEF Reach, Awaited, NestTypes
<1>4. ASSUME NEW d \in Calls, ClientCancels(d) PROVE NestTypes'
  BY <1>4 DEF ClientCancels, Swallows, NestTypes
<1>5. CASE UNCHANGED nestVars  BY <1>5 DEF nestVars, NestTypes
<1> QED BY <1>1, <1>2, <1>3, <1>4, <1>5 DEF NestedNext, NestTypes

(* Whatever calls what (SkillExecutionContext, ExecutionContext), a call   *)
(* in flight has a maker that works, knows of no cancellation, and waits   *)
(* for that call alone.                                                    *)
THEOREM NestAlways == NestedSpec => [](CallInv /\ NestInv)
<1>1. NestedInit => NestInv
  BY DEF NestedInit, CallInit, NestInv, NestTypes, MakerOK, OnlyOne, InScope, InFlight
<1>2. CallInv /\ NestInv /\ [NestedNext]_nestVars => NestInv'
  <2> SUFFICES ASSUME CallInv, NestInv, [NestedNext]_nestVars PROVE NestInv'
    OBVIOUS
  <2>1. CallTypes  BY InvTypes
  <2>2. NestTypes'  BY NestTypeStep DEF NestInv
  <2> QED BY <2>1, <2>2, NestStep DEF NestInv
<1> QED BY <1>1, <1>2, NestedCallsAreBounded, CallInductive, PTL DEF NestedSpec

(* Every variable keeps its type. *)
THEOREM NestedTypeCorrect == NestedSpec => []NestedTypeOK
<1>1. CallInv /\ NestInv => NestedTypeOK
  BY DEF CallInv, NestInv, NestTypes, NestedTypeOK
<1> QED BY <1>1, NestAlways, PTL

(* What Dispatch promises of any bounded call holds of calls made by       *)
(* calls: answers are true.                                                *)
THEOREM NestedAnswersAreTrue == NestedSpec => []AnsweredTruly
<1>1. CallInv => AnsweredTruly  BY InvPromises DEF AnsweredTruly
<1> QED BY <1>1, NestAlways, PTL

(* And cancel finds every call in flight, which then heeds it.             *)
THEOREM NestedCancelWorks == NestedSpec => CancelWorks
<1>1. CallInv => Cancellable  BY InvPromises
<1> QED BY <1>1, NestAlways, NestedCallsAreBounded, HeededBySteps, PTL DEF CancelWorks

----------------------------------------------------------------------------
(* What that is worth. *)

(* Whoever is cancelled tells the call it made.                            *)
LEMMA Told ==
    ASSUME CallInv, NestInv
    PROVE  CancelsWhatItMade
<1> SUFFICES ASSUME NEW c \in Calls
             PROVE  /\ \A d, e \in Awaited(c) : d = e
                    /\ Awaited(c) # {} => work[c] \in Running /\ heard[c] # "yes"
                    /\ \A d \in Calls : maker[d] = c =>
                           /\ d \in Scope[c]
                           /\ heard[c] = "yes" \/ work[c] \in Ended => work[d] # "running"
  BY DEF CancelsWhatItMade
<1>1. c # Nobody  BY KeysAre
<1>2. \A d, e \in Awaited(c) : d = e  BY <1>1 DEF Awaited, NestInv, OnlyOne
<1>3. Awaited(c) # {} => work[c] \in Running /\ heard[c] # "yes"
  BY <1>1 DEF Awaited, NestInv, MakerOK
<1>4. ASSUME NEW d \in Calls, maker[d] = c, heard[c] = "yes" \/ work[c] \in Ended
      PROVE  work[d] # "running"
  <2>1. pc[d] \notin InFlight
    BY <1>1, <1>4 DEF NestInv, MakerOK, Running, Ended
  <2> QED BY <2>1, InvTypes DEF CallTypes, WorkOK, Running, InFlight
<1> QED BY <1>1, <1>2, <1>3, <1>4 DEF NestInv, InScope

(* Cancelling a run cancels all of it: of what a run that was told, or has *)
(* ended, asked for, nothing works on without being told; and it asks for  *)
(* no more once its caller has its answer.                                 *)
THEOREM CancellationPropagates == NestedSpec => Propagates
<1> DEFINE Quiet == \A d \in Calls, c \in Calls :
      pc[d] = "idle" /\ pc'[d] # "idle" /\ maker'[d] = c /\ pc[c] = "done" =>
          heard[c] = "missed"
<1>1. CallInv /\ NestInv => CancelsWhatItMade  BY Told
<1>2. CallInv /\ NestInv /\ [NestedNext]_nestVars => [Quiet]_nestVars
  <2> SUFFICES ASSUME CallInv, NestInv, NestedNext, NEW d \in Calls, NEW c \in Calls,
                      pc[d] = "idle", pc'[d] # "idle", maker'[d] = c, pc[c] = "done"
               PROVE  heard[c] = "missed"
    OBVIOUS
  <2>1. CallTypes /\ NestTypes  BY InvTypes DEF NestInv
  <2>2. ASSUME NEW e \in Calls, Moves(e) PROVE FALSE
    BY <2>2 DEF Moves, InFlight
  <2>3. ASSUME NEW e \in Calls, Proceeds(e) \/ ClientCancels(e) PROVE FALSE
    BY <2>1, <2>2, <2>3, DispatcherMoves DEF Proceeds, GoesOn, IsAnswered, ClientCancels, Swallows
  <2>4. ASSUME NEW e \in Calls, Reach(e) PROVE FALSE
    BY <2>1, <2>2, <2>4, DispatcherMoves DEF Reach, Awaited, callVars
  <2>5. ASSUME NEW e \in Calls, CodeEnds(e) PROVE FALSE
    BY <2>5 DEF CodeEnds, WorkEnds
  <2>6. PICK e \in Calls, b \in Calls \cup {Nobody} : Makes(b, e)
    BY <2>3, <2>4, <2>5 DEF NestedNext, CancelKey
  <2>7. e = d
    BY <2>1, <2>6 DEF Makes, Begins, NotFound, BeginRun, BeginAsking, DeniedAtOnce,
       Register, Race, Goto, CallTypes
  <2>8. maker'[d] = b  BY <2>1, <2>6, <2>7 DEF Makes, NestTypes
  <2>9. c = b /\ c # Nobody  BY <2>8, KeysAre
  <2>10. work[c] \in Running /\ ~ Due(c) /\ heard[c] # "yes"
    BY <2>6, <2>9 DEF Makes, Acts
  <2>11. work[c] = "cancelling"  BY <2>1, <2>10 DEF CallTypes, WorkOK
  <2> QED BY <2>1, <2>10, <2>11 DEF Due, NestTypes
<1> QED BY <1>1, <1>2, NestAlways, PTL DEF NestedSpec, Propagates, QuietAfterwards

-----------------------------------------------------------------------------
(* Tools, for any plugins, packages, tools, grants and calls: the tools    *)
(* that can be called are exactly those of enabled plugins, a call is let  *)
(* through to the session only with its plugin's grant, and plan mode runs *)
(* nothing sensitive.                                                      *)


----------------------------------------------------------------------------
(* The plugin host. *)

PluginTypes ==
    /\ entry \in [Plugins -> Packages \cup {NoPackage}]
    /\ state \in [Plugins -> {"ABSENT", "DISABLED", "ENABLED", "FAILED"}]
    /\ registry \in [ToolKeys -> Packages \cup {NoPackage}]
    /\ grants \in [Plugins -> Capabilities]

EntryOK(id) ==
    IF state[id] = "ABSENT" THEN entry[id] = NoPackage
    ELSE entry[id] \in Packages /\ PluginOf[entry[id]] = id

MatchOK(k) ==
    registry[k] =
        IF state[k[1]] = "ENABLED" /\ k \in ToolsOf(entry[k[1]])
        THEN entry[k[1]] ELSE NoPackage

PluginInv ==
    /\ PluginTypes
    /\ \A id \in Plugins : EntryOK(id)
    /\ \A k \in ToolKeys : MatchOK(k)

(* A tool key belongs to one plugin. *)
LEMMA Owner ==
    ASSUME NEW p \in Packages, NEW k \in ToolsOf(p)
    PROVE  k[1] = PluginOf[p]
BY DEF ToolsOf, Key

(* A tool's key names its plugin first.                                    *)
LEMMA KeyFirst == \A k \in ToolKeys : k[1] \in Plugins
BY DEF ToolKeys

(* Every package is of a plugin.                                           *)
LEMMA Owners == \A p \in Packages : PluginOf[p] \in Plugins
BY PluginsAssumption

(* Activation and deactivation are functions on the keys. *)
LEMMA Tables ==
    ASSUME PluginTypes, NEW p \in Packages, NEW id \in Plugins,
           NEW reg \in [ToolKeys -> Packages \cup {NoPackage}]
    PROVE  /\ Activate(p, reg) \in [ToolKeys -> Packages \cup {NoPackage}]
           /\ Deactivate(id) \in [ToolKeys -> Packages \cup {NoPackage}]
BY DEF Activate, Deactivate, PluginTypes

(* Every step of the host keeps its types.                                 *)
LEMMA HostTypes ==
    ASSUME PluginInv, PluginStep
    PROVE  PluginTypes'
<1> USE DEF PluginInv
<1>1. ASSUME NEW p \in Packages, Load(p) PROVE PluginTypes'
  BY <1>1, Owners DEF Load, PluginTypes
<1>2. ASSUME NEW p \in Packages, Reload(p) PROVE PluginTypes'
  <2>1. /\ Deactivate(PluginOf[p]) \in [ToolKeys -> Packages \cup {NoPackage}]
        /\ Activate(p, Deactivate(PluginOf[p])) \in [ToolKeys -> Packages \cup {NoPackage}]
    BY Owners, Tables DEF PluginTypes
  <2>2. registry' \in [ToolKeys -> Packages \cup {NoPackage}]
    BY <1>2, <2>1 DEF Reload, PluginTypes
  <2>3. state' \in [Plugins -> {"ABSENT", "DISABLED", "ENABLED", "FAILED"}]
    BY <1>2, Owners DEF Reload, PluginTypes
  <2> QED BY <1>2, <2>2, <2>3, Owners DEF Reload, PluginTypes
<1>3. ASSUME NEW id \in Plugins, Enable(id) PROVE PluginTypes'
  <2>1. entry[id] \in Packages  BY <1>3 DEF Enable, EntryOK
  <2>2. registry' \in [ToolKeys -> Packages \cup {NoPackage}]
    BY <1>3, <2>1, Tables DEF Enable, PluginTypes
  <2>3. state' \in [Plugins -> {"ABSENT", "DISABLED", "ENABLED", "FAILED"}]
    BY <1>3 DEF Enable, PluginTypes
  <2> QED BY <1>3, <2>2, <2>3 DEF Enable, PluginTypes
<1>4. ASSUME NEW id \in Plugins, Disable(id) \/ Unload(id) PROVE PluginTypes'
  <2>1. registry' \in [ToolKeys -> Packages \cup {NoPackage}]
    BY <1>4 DEF Disable, Unload, Deactivate, PluginTypes
  <2> QED BY <1>4, <2>1 DEF Disable, Unload, PluginTypes
<1>5. ASSUME NEW id \in Plugins, Recover(id) PROVE PluginTypes'
  BY <1>5 DEF Recover, PluginTypes
<1>6. ASSUME NEW id \in Plugins, Revoke(id) PROVE PluginTypes'
  <2>1. Nothing \in Capabilities  BY DEF Nothing, Capabilities
  <2> QED BY <1>6, <2>1 DEF Revoke, PluginTypes
<1>7. ASSUME NEW id \in Plugins, NEW caps \in Grantable, Grant(id, caps)
      PROVE  PluginTypes'
  BY <1>7, PluginsAssumption DEF Grant, PluginTypes
<1> QED BY <1>1, <1>2, <1>3, <1>4, <1>5, <1>6, <1>7 DEF PluginStep

(* Every step of the host keeps its entries for a plugin.                  *)
LEMMA HostEntries ==
    ASSUME NEW id \in Plugins, PluginInv, PluginStep
    PROVE  EntryOK(id)'
<1>1. EntryOK(id) /\ PluginTypes  BY DEF PluginInv
<1>2. ASSUME NEW p \in Packages, Load(p) \/ Reload(p) PROVE EntryOK(id)'
  BY <1>1, <1>2, Owners DEF Load, Reload, EntryOK, PluginTypes
<1>3. ASSUME NEW o \in Plugins, Enable(o) \/ Disable(o) \/ Recover(o) PROVE EntryOK(id)'
  BY <1>1, <1>3 DEF Enable, Disable, Recover, EntryOK, PluginTypes
<1>4. ASSUME NEW o \in Plugins, Unload(o) PROVE EntryOK(id)'
  BY <1>1, <1>4 DEF Unload, EntryOK, PluginTypes
<1>5. ASSUME UNCHANGED <<entry, state>> PROVE EntryOK(id)'
  BY <1>1, <1>5 DEF EntryOK
<1> QED BY <1>2, <1>3, <1>4, <1>5 DEF PluginStep, Revoke, Grant

(* Every step of the host keeps a tool's registration matched with its     *)
(* plugin.                                                                 *)
LEMMA HostMatches ==
    ASSUME NEW k \in ToolKeys, PluginInv, PluginStep
    PROVE  MatchOK(k)'
<1>1. PluginTypes /\ MatchOK(k) /\ k[1] \in Plugins /\ EntryOK(k[1])
  BY KeyFirst DEF PluginInv
<1>2. ASSUME NEW p \in Packages, Load(p) PROVE MatchOK(k)'
  BY <1>1, <1>2, Owners DEF Load, MatchOK, PluginTypes
<1>3. ASSUME NEW p \in Packages, Reload(p) PROVE MatchOK(k)'
  <2> DEFINE id == PluginOf[p]
  <2>1. id \in Plugins  BY Owners
  <2>2. CASE k[1] # id
    <3>1. k \notin ToolsOf(p)  BY <2>2, Owner
    <3>2. state[id] = "ENABLED" => k \notin ToolsOf(entry[id])
      BY <2>1, <2>2, Owner DEF PluginInv, EntryOK
    <3>3. registry'[k] = registry[k]
      BY <1>3, <3>1, <3>2 DEF Reload, Activate, Deactivate
    <3>4. state'[k[1]] = state[k[1]] /\ entry'[k[1]] = entry[k[1]]
      BY <1>1, <1>3, <2>2 DEF Reload, PluginTypes
    <3> QED BY <1>1, <3>3, <3>4 DEF MatchOK
  <2>3. CASE k[1] = id
    <3>1. Deactivate(id)[k] = NoPackage
      BY <1>1, <2>3 DEF Deactivate, MatchOK
    <3>2. entry'[id] = p  BY <1>1, <1>3, <2>1 DEF Reload, PluginTypes
    <3>3. CASE state[id] # "ENABLED"
      <4>1. state'[id] = "DISABLED" /\ registry'[k] = registry[k]
        BY <1>1, <1>3, <2>1, <3>3 DEF Reload, PluginTypes
      <4> QED BY <1>1, <2>3, <3>3, <4>1 DEF MatchOK
    <3>4. CASE state[id] = "ENABLED"
      <4>1. state'[id] = IF Fits(p, Deactivate(id)) THEN "ENABLED" ELSE "FAILED"
        BY <1>1, <1>3, <2>1, <3>4 DEF Reload, PluginTypes
      <4>2. registry'[k] = IF Fits(p, Deactivate(id)) /\ k \in ToolsOf(p)
                           THEN p ELSE NoPackage
        BY <1>3, <3>1, <3>4 DEF Reload, Activate
      <4> QED BY <2>3, <3>2, <4>1, <4>2 DEF MatchOK
    <3> QED BY <3>3, <3>4
  <2> QED BY <2>2, <2>3
<1>4. ASSUME NEW id \in Plugins, Enable(id) PROVE MatchOK(k)'
  <2>1. entry[id] \in Packages /\ PluginOf[entry[id]] = id
    BY <1>4 DEF Enable, PluginInv, EntryOK
  <2>2. entry' = entry  BY <1>4 DEF Enable
  <2>3. registry'[k] = IF Fits(entry[id], registry) /\ k \in ToolsOf(entry[id])
                       THEN entry[id] ELSE registry[k]
    BY <1>4 DEF Enable, Activate
  <2>4. CASE k[1] # id
    <3>1. k \notin ToolsOf(entry[id])  BY <2>1, <2>4, Owner
    <3>2. state'[k[1]] = state[k[1]]  BY <1>1, <1>4, <2>4 DEF Enable, PluginTypes
    <3> QED BY <1>1, <2>2, <2>3, <3>1, <3>2 DEF MatchOK
  <2>5. CASE k[1] = id
    <3>1. registry[k] = NoPackage  BY <1>1, <1>4, <2>5 DEF Enable, MatchOK
    <3>2. state'[id] = IF Fits(entry[id], registry) THEN "ENABLED" ELSE "FAILED"
      BY <1>1, <1>4 DEF Enable, PluginTypes
    <3> QED BY <2>2, <2>3, <2>5, <3>1, <3>2 DEF MatchOK
  <2> QED BY <2>4, <2>5
<1>5. ASSUME NEW id \in Plugins, Disable(id) \/ Unload(id) PROVE MatchOK(k)'
  <2>1. registry'[k] = IF state[id] = "ENABLED" /\ k \in ToolsOf(entry[id])
                       THEN NoPackage ELSE registry[k]
    BY <1>5 DEF Disable, Unload, Deactivate
  <2>2. CASE k[1] # id
    <3>1. state[id] = "ENABLED" => k \notin ToolsOf(entry[id])
      BY <2>2, Owner DEF PluginInv, EntryOK
    <3>2. state'[k[1]] = state[k[1]] /\ entry'[k[1]] = entry[k[1]]
      BY <1>1, <1>5, <2>2 DEF Disable, Unload, PluginTypes
    <3> QED BY <1>1, <2>1, <3>1, <3>2 DEF MatchOK
  <2>3. CASE k[1] = id
    <3>1. registry'[k] = NoPackage  BY <1>1, <2>1, <2>3 DEF MatchOK
    <3>2. state'[id] # "ENABLED"  BY <1>1, <1>5 DEF Disable, Unload, PluginTypes
    <3> QED BY <2>3, <3>1, <3>2 DEF MatchOK
  <2> QED BY <2>2, <2>3
<1>6. ASSUME NEW id \in Plugins, Recover(id) PROVE MatchOK(k)'
  BY <1>1, <1>6 DEF Recover, MatchOK, PluginTypes
<1>7. ASSUME UNCHANGED <<entry, state, registry>> PROVE MatchOK(k)'
  BY <1>1, <1>7 DEF MatchOK
<1> QED BY <1>2, <1>3, <1>4, <1>5, <1>6, <1>7 DEF PluginStep, Revoke, Grant

(* The invariant of the host holds at the start.                           *)
LEMMA HostInit == Init => PluginInv
<1> SUFFICES ASSUME Init PROVE PluginInv  OBVIOUS
<1>1. Nothing \in Capabilities  BY DEF Nothing, Capabilities
<1>2. PluginTypes  BY <1>1 DEF Init, PluginTypes
<1>3. \A id \in Plugins : EntryOK(id)  BY DEF Init, EntryOK
<1>4. ASSUME NEW k \in ToolKeys PROVE MatchOK(k)
  BY KeyFirst DEF Init, MatchOK
<1> QED BY <1>2, <1>3, <1>4 DEF PluginInv

(* Every step keeps the invariant of the host.                             *)
LEMMA HostStep ==
    ASSUME PluginInv, [PluginStep]_pluginVars
    PROVE  PluginInv'
<1>1. CASE PluginStep
  BY <1>1, HostTypes, HostEntries, HostMatches DEF PluginInv
<1>2. CASE UNCHANGED pluginVars
  <2>1. PluginTypes'  BY <1>2 DEF pluginVars, PluginInv, PluginTypes
  <2>2. \A id \in Plugins : EntryOK(id)'  BY <1>2 DEF pluginVars, PluginInv, EntryOK
  <2>3. \A k \in ToolKeys : MatchOK(k)'  BY <1>2 DEF pluginVars, PluginInv, MatchOK
  <2> QED BY <2>1, <2>2, <2>3 DEF PluginInv
<1> QED BY <1>1, <1>2

----------------------------------------------------------------------------
(* The composition: each of its steps is one of the host or one of Dispatch. *)

(* A step of the tools is one of each part, or leaves it alone.            *)
LEMMA Steps ==
    ASSUME [ToolsNext]_vars
    PROVE  [PluginStep]_pluginVars /\ [CallStep]_callVars /\ [SkillStep]_skillVars
<1>1. ASSUME NEW c \in Calls, NEW i \in Ids, NEW k \in ToolKeys, CallTool(c, i, k)
      PROVE  CallStep
  BY <1>1 DEF CallTool, UnknownTool, NotGranted, Asks, CallStep
<1>2. ASSUME NEW c \in Calls, Answered(c) PROVE CallStep
  <2>1. PICK allow \in Answers(target[c]) : GateAnswers(c, allow)
    BY <1>2 DEF Answered
  <2>2. GateAnswers(c, TRUE) \/ GateAnswers(c, FALSE)
    BY <2>1 DEF GateAnswers
  <2> QED BY <2>2 DEF CallStep
<1>3. ToolCallStep => CallStep
  BY <1>1, <1>2 DEF ToolCallStep, Runs, NoSkill, CallStep
<1>4. CASE UNCHANGED vars  BY <1>4 DEF vars
<1>5. CASE ToolsNext  BY <1>3, <1>5 DEF ToolsNext
<1> QED BY <1>4, <1>5

(* Tool calls are bounded calls: Tools implements what Dispatch allows. *)
THEOREM CallsAreBounded == Spec => CallInit /\ [][CallStep]_callVars
<1>1. ToolsInit => CallInit  BY DEF ToolsInit
<1>2. [ToolsNext]_vars => [CallStep]_callVars  BY Steps
<1> QED BY <1>1, <1>2, PTL DEF Spec

(* Whatever is loaded, enabled, replaced or withdrawn (yasam.py), types    *)
(* hold, entries are of their own id, and the registry matches the states. *)
THEOREM HostAlways == Spec => []PluginInv
<1>1. ToolsInit => PluginInv  BY HostInit DEF ToolsInit
<1>2. PluginInv /\ [ToolsNext]_vars => PluginInv'  BY Steps, HostStep
<1> QED BY <1>1, <1>2, PTL DEF Spec

(* What can be called is what enabled plugins contribute. *)
THEOREM OnlyEnabledTools == Spec => []ToolsMatch
<1>1. PluginInv => ToolsMatch  BY DEF PluginInv, MatchOK, ToolsMatch
<1> QED BY <1>1, HostAlways, PTL

(* Every step keeps that only enabled skills are used.                     *)
LEMMA SkillsKept ==
    ASSUME standing \in [Skill -> SkillStates], OnlyEnabled, [SkillStep]_skillVars
    PROVE  (standing \in [Skill -> SkillStates])' /\ OnlyEnabled'
<1>1. CASE UNCHANGED skillVars  BY <1>1 DEF skillVars, OnlyEnabled
<1>2. ASSUME NEW s \in Skill, NEW how \in SkillStates, Stands(s, how)
      PROVE  /\ standing' \in [Skill -> SkillStates]
             /\ standing'[s] = how
             /\ \A t \in Skill \ {s} : standing'[t] = standing[t]
  BY <1>2 DEF Stands
<1>3. ASSUME NEW s \in Skill, LoadSkill(s) \/ RecoverSkill(s)
      PROVE  (standing \in [Skill -> SkillStates])' /\ OnlyEnabled'
  BY <1>2, <1>3 DEF LoadSkill, RecoverSkill, OnlyEnabled, SkillStates
<1>4. ASSUME NEW s \in Skill, EnableSkill(s)
      PROVE  (standing \in [Skill -> SkillStates])' /\ OnlyEnabled'
  BY <1>2, <1>4 DEF EnableSkill, OnlyEnabled, SkillStates
<1>5. ASSUME NEW s \in Skill, DisableSkill(s) \/ MarkFailed(s) \/ UnloadSkill(s)
      PROVE  (standing \in [Skill -> SkillStates])' /\ OnlyEnabled'
  BY <1>2, <1>5 DEF DisableSkill, MarkFailed, UnloadSkill, Withdraw, OnlyEnabled, SkillStates
<1> QED BY <1>1, <1>3, <1>4, <1>5 DEF SkillStep

(* Skills too (yetenekler/yasam.py): the registry the dispatcher looks in  *)
(* and the states the lifecycle keeps agree, whatever fails or recovers.   *)
THEOREM SkillsAlways == Spec => [](standing \in [Skill -> SkillStates] /\ OnlyEnabled)
<1>1. ToolsInit => standing \in [Skill -> SkillStates] /\ OnlyEnabled
  BY DEF ToolsInit, SkillsInit, SkillStates, OnlyEnabled
<1>2. standing \in [Skill -> SkillStates] /\ OnlyEnabled /\ [ToolsNext]_vars
          => (standing \in [Skill -> SkillStates])' /\ OnlyEnabled'
  BY Steps, SkillsKept
<1> QED BY <1>1, <1>2, PTL DEF Spec

(* What can be used, tools and skills alike, is what is enabled. *)
THEOREM OnlyEnabledUsed == Spec => []UsableIsEnabled
BY OnlyEnabledTools, SkillsAlways, PTL DEF UsableIsEnabled

----------------------------------------------------------------------------
(* What calls run. *)

TargetOK(c) ==
    /\ pc[c] = "idle" => target[c] = Unresolved
    /\ pc[c] = "asking" => target[c] # Unresolved

SensitiveOK(c) ==
    work[c] # "none" /\ target[c] # Unresolved /\ Needs[target[c]] # NoCapability
        /\ Effect[target[c]] \in Sensitive =>
            /\ mode # "plan"
            /\ Effect[target[c]] = "egress" =>
                   mode = "ask" \/ Needs[target[c]] \in Standing

TargetInv ==
    /\ target \in [Calls -> (Packages \X ToolNames) \cup {Unresolved}]
    /\ mode \in {"plan", "ask", "auto"}
    /\ \A c \in Calls : TargetOK(c) /\ SensitiveOK(c)

(* What is unresolved is no tool of a package.                             *)
LEMMA UnresolvedIs == Unresolved \notin Packages \X ToolNames
BY PluginsAssumption DEF Unresolved

(* The session lets nothing sensitive through in plan mode, nor egress in  *)
(* auto mode without a standing grant.                                     *)
LEMMA Consent ==
    ASSUME NEW t \in Packages \X ToolNames, mode \in {"plan", "ask", "auto"},
           TRUE \in Answers(t), Needs[t] # NoCapability, Effect[t] \in Sensitive
    PROVE  /\ mode # "plan"
           /\ Effect[t] = "egress" => mode = "ask" \/ Needs[t] \in Standing
<1>1. Decide(t) # "deny"  BY DEF Answers
<1> QED BY <1>1 DEF Decide

(* Every step keeps which tool a call was resolved to.                     *)
LEMMA TargetStep ==
    ASSUME CallInv, PluginInv, TargetInv, [ToolsNext]_vars
    PROVE  TargetInv'
<1>1. mode' \in {"plan", "ask", "auto"}
  BY DEF ToolsNext, vars, TargetInv
<1>2. target' \in [Calls -> (Packages \X ToolNames) \cup {Unresolved}]
  <2>1. ASSUME NEW c \in Calls, NEW i \in Ids, NEW k \in ToolKeys, CallTool(c, i, k)
        PROVE  target' \in [Calls -> (Packages \X ToolNames) \cup {Unresolved}]
    <3>1. registry[k] # NoPackage => Resolves(k) \in Packages \X ToolNames
      BY DEF PluginInv, PluginTypes, Resolves, ToolKeys
    <3> QED BY <2>1, <3>1 DEF CallTool, UnknownTool, NotGranted, Asks, TargetInv
  <2>2. ASSUME UNCHANGED target
        PROVE  target' \in [Calls -> (Packages \X ToolNames) \cup {Unresolved}]
    BY <2>2 DEF TargetInv
  <2> QED BY <2>1, <2>2 DEF ToolsNext, ToolCallStep, Runs, NoSkill, Answered, vars
<1>3. ASSUME NEW d \in Calls PROVE TargetOK(d)' /\ SensitiveOK(d)'
  <2>1. /\ pc \in [Calls -> {"idle", "done"} \cup InFlight]
        /\ work \in [Calls -> {"none"} \cup Running \cup Ended]
        /\ WorkOK(d)
    BY DEF CallInv, CallTypeOK, WorkInv
  <2>2. TargetOK(d) /\ SensitiveOK(d)  BY DEF TargetInv
  <2>3. mode' = mode  BY DEF ToolsNext, vars
  <2>4. ASSUME UNCHANGED target, work[d] # "none" \/ work'[d] = "none",
               pc'[d] \in {"idle", "asking"} => pc'[d] = pc[d]
        PROVE  TargetOK(d)' /\ SensitiveOK(d)'
    BY <2>2, <2>3, <2>4 DEF TargetOK, SensitiveOK
  <2>5. ASSUME NEW c \in Calls, NEW i \in Ids, NEW k \in ToolKeys, CallTool(c, i, k)
        PROVE  TargetOK(d)' /\ SensitiveOK(d)'
    <3>1. CASE UnknownTool(c, k) \/ NotGranted(c, i, k)
      <4>1. UNCHANGED target /\ UNCHANGED work /\ pc' = [pc EXCEPT ![c] = "done"]
        BY <3>1 DEF UnknownTool, NotFound, NotGranted, DeniedAtOnce, Goto
      <4> QED BY <2>1, <2>4, <4>1
    <3>2. CASE Asks(c, i, k)
      <4>1. /\ registry[k] # NoPackage /\ target' = [target EXCEPT ![c] = Resolves(k)]
            /\ UNCHANGED work /\ pc[c] = "idle" /\ pc' = [pc EXCEPT ![c] = "asking"]
        BY <3>2 DEF Asks, BeginAsking, Register, Goto
      <4>2. CASE d = c
        <5>1. Resolves(k) \in Packages \X ToolNames
          BY <4>1 DEF PluginInv, PluginTypes, Resolves, ToolKeys
        <5>2. target'[d] # Unresolved
          BY <4>1, <4>2, <5>1, UnresolvedIs DEF TargetInv
        <5>3. work'[d] = "none" /\ pc'[d] = "asking"
          BY <2>1, <4>1, <4>2 DEF WorkOK
        <5> QED BY <5>2, <5>3 DEF TargetOK, SensitiveOK
      <4>3. CASE d # c
        <5>1. target'[d] = target[d] /\ work'[d] = work[d] /\ pc'[d] = pc[d]
          BY <2>1, <4>1, <4>3 DEF TargetInv
        <5> QED BY <2>2, <2>3, <5>1 DEF TargetOK, SensitiveOK
      <4> QED BY <4>2, <4>3
    <3> QED BY <2>5, <3>1, <3>2 DEF CallTool
  <2>10. ASSUME NEW c \in Calls, NoSkill(c)
        PROVE  TargetOK(d)' /\ SensitiveOK(d)'
    <3>1. UNCHANGED target /\ UNCHANGED work /\ pc' = [pc EXCEPT ![c] = "done"]
      BY <2>10 DEF NoSkill, NotFound, Goto
    <3> QED BY <2>1, <2>4, <3>1
  <2>6. ASSUME NEW c \in Calls, NEW k \in Keys, BeginRun(c, k), UNCHANGED target
        PROVE  TargetOK(d)' /\ SensitiveOK(d)'
    <3>1. pc[c] = "idle" /\ pc' = [pc EXCEPT ![c] = "racing"]
          /\ work' = [work EXCEPT ![c] = "running"]
      BY <2>6 DEF BeginRun, Register, Race, Goto
    <3>2. CASE d = c
      BY <2>1, <2>2, <2>6, <3>1, <3>2 DEF TargetOK, SensitiveOK
    <3>3. CASE d # c
      <4>1. work'[d] = work[d] /\ pc'[d] = pc[d]  BY <2>1, <3>1, <3>3
      <4> QED BY <2>2, <2>3, <2>6, <4>1 DEF TargetOK, SensitiveOK
    <3> QED BY <3>2, <3>3
  <2>7. ASSUME NEW c \in Calls, Answered(c)
        PROVE  TargetOK(d)' /\ SensitiveOK(d)'
    <3>1. pc[c] = "asking" /\ UNCHANGED target  BY <2>7 DEF Answered
    <3>2. PICK allow \in Answers(target[c]) : GateAnswers(c, allow)
      BY <2>7 DEF Answered
    <3>3. CASE Allowed(c) /\ allow
      <4>1. pc' = [pc EXCEPT ![c] = "racing"] /\ work' = [work EXCEPT ![c] = "running"]
        BY <3>3 DEF Allowed, Race, Goto
      <4>2. CASE d = c
        <5>1. target[d] \in Packages \X ToolNames
          BY <2>2, <3>1, <4>2 DEF TargetOK, TargetInv
        <5>2. TRUE \in Answers(target[d])
          BY <3>2, <3>3, <4>2 DEF Answers
        <5>3. SensitiveOK(d)'
          BY <2>3, <3>1, <5>1, <5>2, Consent DEF SensitiveOK, TargetInv
        <5> QED BY <2>1, <4>1, <4>2, <5>3 DEF TargetOK
      <4>3. CASE d # c
        <5>1. work'[d] = work[d] /\ pc'[d] = pc[d]  BY <2>1, <4>1, <4>3
        <5> QED BY <2>2, <2>3, <3>1, <5>1 DEF TargetOK, SensitiveOK
      <4> QED BY <4>2, <4>3
    <3>4. CASE AllowedTooLate(c) \/ GateDenies(c)
      <4>1. UNCHANGED work /\ pc' = [pc EXCEPT ![c] = "done"]
        BY <3>4 DEF AllowedTooLate, GateDenies, Leave, Goto
      <4> QED BY <2>1, <2>4, <3>1, <4>1
    <3> QED BY <3>2, <3>3, <3>4 DEF GateAnswers
  <2>8. ASSUME RaceStep, UNCHANGED target
        PROVE  TargetOK(d)' /\ SensitiveOK(d)'
    <3>1. ASSUME NEW c \in Calls, NEW how \in Ended, WorkEnds(c, how)
          PROVE  work[d] # "none" \/ work'[d] = "none"
      BY <2>1, <3>1 DEF WorkEnds, Running
    <3>2. ASSUME NEW c \in Calls, NEW what \in {"work", "token", "deadline"}, Wake(c, what)
          PROVE  work[d] # "none" \/ work'[d] = "none"
      BY <2>1, <3>2 DEF Wake
    <3>3. ASSUME NEW c \in Calls, GiveUp(c)
          PROVE  work[d] # "none" \/ work'[d] = "none"
      BY <2>1, <3>3 DEF GiveUp
    <3>4. work[d] # "none" \/ work'[d] = "none"
      BY <2>8, <3>1, <3>2, <3>3 DEF RaceStep, Settle, Swallow, CancelKey
    <3>5. pc'[d] \in {"idle", "asking"} => pc'[d] = pc[d]
      BY <2>1, <2>8 DEF RaceStep, WorkEnds, Wake, Settle, GiveUp, Swallow, CancelKey,
         Leave, Goto
    <3> QED BY <2>4, <2>8, <3>4, <3>5
  <2>9. ASSUME UNCHANGED <<callVars, target>>
        PROVE  TargetOK(d)' /\ SensitiveOK(d)'
    BY <2>2, <2>3, <2>9 DEF callVars, TargetOK, SensitiveOK
  <2> QED BY <2>5, <2>6, <2>7, <2>8, <2>9, <2>10 DEF ToolsNext, ToolCallStep, Runs, vars
<1> QED BY <1>1, <1>2, <1>3 DEF TargetInv

(* What a call resolved keeps its type, and a sensitive tool at work was   *)
(* allowed by the session's mode and grants (izin.py).                     *)
THEOREM TargetAlways == Spec => []TargetInv
<1>1. ToolsInit => TargetInv
  BY ToolsAssumption DEF ToolsInit, CallInit, TargetInv, TargetOK, SensitiveOK
<1>2. CallInv /\ PluginInv /\ TargetInv /\ [ToolsNext]_vars => TargetInv'
  BY TargetStep
<1>3. Spec => []CallInv  BY CallsAreBounded, CallInductive, PTL
<1> QED BY <1>1, <1>2, <1>3, HostAlways, PTL DEF Spec

(* In plan mode nothing sensitive runs, and egress needs a standing grant  *)
(* or the user asked, whatever plugins were granted.                       *)
THEOREM PlanRunsNothingSensitive == Spec => []PlanIsReadOnly
<1>1. TargetInv => PlanIsReadOnly
  BY DEF TargetInv, SensitiveOK, PlanIsReadOnly
<1> QED BY <1>1, TargetAlways, PTL

(* Every variable keeps its type, and a plugin has a package of its own    *)
(* exactly while it is registered.                                         *)
THEOREM ToolsTypeCorrect == Spec => []TypeOK
<1>1. ToolsInit => mode \in Modes  BY DEF ToolsInit
<1>2. mode \in Modes /\ [ToolsNext]_vars => (mode \in Modes)'  BY DEF ToolsNext, vars
<1>3. /\ PluginInv /\ CallInv /\ TargetInv /\ mode \in Modes
      /\ standing \in [Skill -> SkillStates] /\ OnlyEnabled
      => TypeOK
  BY DEF PluginInv, PluginTypes, EntryOK, CallInv, TargetInv, OnlyEnabled, TypeOK
<1>4. Spec => []CallInv  BY CallsAreBounded, CallInductive, PTL
<1> QED BY <1>1, <1>2, <1>3, <1>4, HostAlways, SkillsAlways, TargetAlways, PTL DEF Spec

(* What Dispatch promises of any bounded call holds of tool calls. *)
THEOREM ToolCallsKeepTheirPromises ==
    Spec => [](CallTypeOK /\ Truthful /\ NoOrphan /\ Cancellable)
<1>1. CallInv => CallTypeOK /\ Truthful /\ NoOrphan /\ Cancellable
  BY InvPromises
<1> QED BY <1>1, CallsAreBounded, CallInductive, PTL

(* A call gets to the session's gate only with an enabled plugin's tool    *)
(* and that plugin's grant.                                                *)
THEOREM PrivilegeIsLeast == Spec => LeastPrivilege
<1> DEFINE Privileged(c) ==
      pc[c] # "asking" /\ pc'[c] = "asking" /\ target'[c] # Unresolved =>
          LET id == PluginOf[target'[c][1]]
          IN  /\ state[id] = "ENABLED" /\ entry[id] = target'[c][1]
              /\ GrantedTo(id, target'[c])
<1>1. CallInv /\ PluginInv /\ TargetInv /\ [ToolsNext]_vars
          => [\A c \in Calls : Privileged(c)]_vars
  <2> SUFFICES ASSUME CallInv, PluginInv, TargetInv, ToolsNext, NEW c \in Calls,
                      pc[c] # "asking", pc'[c] = "asking", target'[c] # Unresolved
               PROVE  Privileged(c)
    OBVIOUS
  <2>1. pc \in [Calls -> {"idle", "done"} \cup InFlight]
    BY DEF CallInv, CallTypeOK
  <2>2. PICK i \in Ids, k \in ToolKeys : Asks(c, i, k)
    <3>1. ToolCallStep  BY DEF ToolsNext, callVars
    <3>2. ~ RaceStep
      BY <2>1 DEF RaceStep, WorkEnds, Wake, Settle, GiveUp, Swallow, CancelKey, Leave, Goto
    <3>3. ASSUME NEW d \in Calls, Answered(d) PROVE FALSE
      BY <2>1, <3>3 DEF Answered, GateAnswers, GateDenies, AllowedTooLate, Allowed, Race,
         Leave, Goto
    <3>4. ASSUME NEW d \in Calls, NEW k \in Keys, BeginRun(d, k) PROVE FALSE
      BY <2>1, <3>4 DEF BeginRun, Race, Goto
    <3>9. ASSUME NEW d \in Calls, NoSkill(d) PROVE FALSE
      BY <2>1, <3>9 DEF NoSkill, NotFound, Goto
    <3>5. PICK d \in Calls, i \in Ids, k \in ToolKeys : CallTool(d, i, k)
      BY <3>1, <3>2, <3>3, <3>4, <3>9 DEF ToolCallStep, Runs
    <3>6. ~ UnknownTool(d, k) /\ ~ NotGranted(d, i, k)
      BY <2>1 DEF UnknownTool, NotFound, NotGranted, DeniedAtOnce, Goto
    <3>7. Asks(d, i, k)  BY <3>5, <3>6 DEF CallTool
    <3>8. d = c  BY <2>1, <3>7 DEF Asks, BeginAsking, Goto
    <3> QED BY <3>7, <3>8
  <2>3. target'[c] = <<registry[k], k[2]>>
    BY <2>2 DEF Asks, Resolves, TargetInv
  <2>4. registry[k] # NoPackage /\ GrantedTo(k[1], <<registry[k], k[2]>>)
    BY <2>2 DEF Asks, Resolves
  <2>5. /\ state[k[1]] = "ENABLED" /\ k \in ToolsOf(entry[k[1]])
        /\ registry[k] = entry[k[1]]
    BY <2>4 DEF PluginInv, MatchOK
  <2>6. PluginOf[entry[k[1]]] = k[1]
    BY <2>5, KeyFirst DEF PluginInv, EntryOK
  <2> QED BY <2>3, <2>4, <2>5, <2>6
<1>2. Spec => []CallInv  BY CallsAreBounded, CallInductive, PTL
<1> QED BY <1>1, <1>2, HostAlways, TargetAlways, PTL DEF Spec, LeastPrivilege
=============================================================================
