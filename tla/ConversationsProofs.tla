------------------------- MODULE ConversationsProofs ------------------------
(***************************************************************************)
(* Proofs about Workspaces and Conversations, for any workspaces, names,   *)
(* sends and window, with a memory or without: services are a workspace's  *)
(* own, histories are whole and follow from what they were answered from,  *)
(* and what cancel reaches.                                                *)
(*                                                                         *)
(* The inductive invariant adds to what is claimed: a conversation has one *)
(* home, in which its sends are (PlaceInv); two sends in flight of one     *)
(* home or run id have met (MetInv); an active turn is one in flight       *)
(* there (ActiveInv); a token is its run's while that run lasts (TokenInv);*)
(* and what was given is the end of the history as long as no other send   *)
(* of the home was met (GivenInv).                                         *)
(***************************************************************************)
EXTENDS Conversations, SequenceTheorems, TLAPS

Sent(s) == at[s] \notin {"idle", "refused"}
MetAtHome(s) == \E d \in met[s] : home[d] = home[s]
MetSameRun(s) == \E d \in met[s] : turn[d] = turn[s]

SentInv ==
    \A s \in Sends : Sent(s) =>
        /\ home[s] \in Homes /\ turn[s] \in Turns
        /\ about[s] \in Talks /\ about[s] <= talks
        /\ \A d \in met[s] : Sent(d)

PlaceInv ==
    /\ \A h \in Homes : found[h] # None => found[h] <= talks
    /\ \A h, g \in Homes : found[h] # None /\ found[h] = found[g] => h = g
    /\ \A s \in Sends, h \in Homes : Sent(s) /\ found[h] = about[s] => home[s] = h
    /\ \A s, d \in Sends :
          Sent(s) /\ Sent(d) /\ about[s] = about[d] => home[s] = home[d]

MetInv ==
    \A s, d \in Sends :
        s # d /\ Flying(s) /\ Flying(d) /\ (home[d] = home[s] \/ turn[d] = turn[s]) =>
            d \in met[s]

ActiveInv ==
    /\ \A h \in Homes : active[h] # None =>
          \E s \in Sends : Flying(s) /\ home[s] = h /\ turn[s] = active[h]
    /\ \A s \in Sends : Flying(s) => active[home[s]] = turn[s] \/ MetAtHome(s)

TokenInv ==
    /\ \A t \in DOMAIN tokens : at[tokens[t]] = "running" /\ turn[tokens[t]] = t
    /\ \A s \in Sends : at[s] = "running" =>
          \/ turn[s] \in DOMAIN tokens /\ tokens[turn[s]] = s
          \/ MetSameRun(s)

GivenInv ==
    \A s \in Sends : Flying(s) =>
        given[s] = LastTurns(talk[about[s]].history) \/ MetAtHome(s)

CallInv == SentInv /\ PlaceInv /\ MetInv /\ ActiveInv /\ TokenInv

CoherentInv ==
    \A q \in Talks : \A p \in DOMAIN talk[q].history : \A s \in Sends :
        talk[q].history[p] = s =>
            \/ given[s] = LastTurns(SubSeq(talk[q].history, 1, p - 1))
            \/ MetAtHome(s)

HistoryInv == WholeTurns /\ GivenInv /\ CoherentInv

-----------------------------------------------------------------------------
(* The workspaces.                                                         *)

(* The registry's types and OwnServices are kept by every operation of     *)
(* either interface: a new runtime is not one that is bound already.       *)
LEMMA SpacesKept ==
    ASSUME SpacesTypeOK, OwnServices, SpaceStep \/ UNCHANGED spaceVars
    PROVE  SpacesTypeOK' /\ OwnServices'
<1> USE SpacesAssumption DEF SpacesTypeOK, WorkspaceStates, Runtimes, SetState
<1>1. ASSUME NEW w \in Spaces, Create(w) PROVE SpacesTypeOK' /\ OwnServices'
  <2>1. SpacesTypeOK'
    BY <1>1 DEF Create
  <2>2. OwnServices'
    BY <1>1 DEF Create, OwnServices, Present
  <2> QED BY <2>1, <2>2
<1>2. ASSUME NEW w \in Spaces, Open(w) PROVE SpacesTypeOK' /\ OwnServices'
  <2>1. CASE services[w] = None
    <3>1. SpacesTypeOK'
      <4>1. dropped' \in BOOLEAN
        BY <1>2, Zenon DEF Open
      <4> QED BY <1>2, <2>1, <4>1 DEF Open
    <3>2. \A v \in Spaces : services[v] # built + 1 /\ services[v] # 0
      OBVIOUS
    <3>3. OwnServices'
      BY <1>2, <2>1, <3>2 DEF Open, OwnServices, Present
    <3> QED BY <3>1, <3>3
  <2>2. CASE services[w] # None
    BY <1>2, <2>2 DEF Open, OwnServices, Present
  <2> QED BY <2>1, <2>2
<1>3. ASSUME NEW w \in Spaces, Close(w) PROVE SpacesTypeOK' /\ OwnServices'
  <2>1. SpacesTypeOK'
    BY <1>3 DEF Close, NoLongerCurrent
  <2>2. OwnServices'
    BY <1>3 DEF Close, NoLongerCurrent, OwnServices, Present
  <2> QED BY <2>1, <2>2
<1>4. ASSUME NEW w \in Spaces, Delete(w) PROVE SpacesTypeOK' /\ OwnServices'
  <2>1. SpacesTypeOK'
    BY <1>4 DEF Delete, Drop, NoLongerCurrent
  <2>2. OwnServices'
    BY <1>4 DEF Delete, Drop, NoLongerCurrent, OwnServices, Present
  <2> QED BY <2>1, <2>2
<1>5. ASSUME NEW w \in Spaces, NEW target \in WorkspaceStates, Transition(w, target)
      PROVE  SpacesTypeOK' /\ OwnServices'
  <2>1. target # "absent"
    BY <1>5 DEF Transition, Present, MayBecome
  <2>2. SpacesTypeOK'
    BY <1>5 DEF Transition
  <2>3. OwnServices'
    BY <1>5, <2>1 DEF Transition, OwnServices, Present
  <2> QED BY <2>2, <2>3
<1>6. ASSUME NEW w \in Spaces, Unlist(w) PROVE SpacesTypeOK' /\ OwnServices'
  <2>1. SpacesTypeOK'
    BY <1>6 DEF Unlist, Drop
  <2>2. current' # None /\ ~ dropped' => Present(current)' /\ services'[current'] # None
    <3> SUFFICES ASSUME current' # None, ~ dropped'
                 PROVE  Present(current)' /\ services'[current'] # None
      OBVIOUS
    <3>1. current' = current /\ current # w /\ ~ dropped /\ current \in Spaces
      BY <1>6 DEF Unlist
    <3>2. Present(current) /\ services[current] # None
      BY <3>1 DEF OwnServices
    <3>3. services'[current] = services[current] /\ wstate'[current] = wstate[current]
      BY <1>6, <3>1 DEF Unlist, Drop
    <3> QED BY <3>1, <3>2, <3>3 DEF Present
  <2>3. OwnServices'
    BY <1>6, <2>2 DEF Unlist, Drop, OwnServices
  <2> QED BY <2>1, <2>3
<1>7. ASSUME UNCHANGED spaceVars PROVE SpacesTypeOK' /\ OwnServices'
  BY <1>7 DEF spaceVars, OwnServices, Present
<1> QED BY <1>1, <1>2, <1>3, <1>4, <1>5, <1>6, <1>7 DEF SpaceStep

(* The types alone are kept as well. *)
LEMMA SpacesTypesKept ==
    ASSUME SpacesTypeOK, SpaceStep \/ UNCHANGED spaceVars
    PROVE  SpacesTypeOK'
<1> USE SpacesAssumption DEF SpacesTypeOK, WorkspaceStates, Runtimes, SetState
<1>1. ASSUME NEW w \in Spaces, Create(w) PROVE SpacesTypeOK'
  BY <1>1 DEF Create
<1>2. ASSUME NEW w \in Spaces, Open(w) PROVE SpacesTypeOK'
  <2>1. dropped' \in BOOLEAN
    BY <1>2, Zenon DEF Open
  <2> QED BY <1>2, <2>1 DEF Open
<1>3. ASSUME NEW w \in Spaces, Close(w) PROVE SpacesTypeOK'
  BY <1>3 DEF Close, NoLongerCurrent
<1>4. ASSUME NEW w \in Spaces, Delete(w) PROVE SpacesTypeOK'
  BY <1>4 DEF Delete, Drop, NoLongerCurrent
<1>5. ASSUME NEW w \in Spaces, NEW target \in WorkspaceStates, Transition(w, target)
      PROVE  SpacesTypeOK'
  BY <1>5 DEF Transition
<1>6. ASSUME NEW w \in Spaces, Unlist(w) PROVE SpacesTypeOK'
  BY <1>6 DEF Unlist, Drop
<1>7. ASSUME UNCHANGED spaceVars PROVE SpacesTypeOK'
  BY <1>7 DEF spaceVars
<1> QED BY <1>1, <1>2, <1>3, <1>4, <1>5, <1>6, <1>7 DEF SpaceStep

-----------------------------------------------------------------------------
(* What the proofs of the sends need of them.                              *)

(* Nobody is nothing else; homes are runtimes and names; the bounds are    *)
(* numbers.                                                                *)
LEMMA Distinct ==
    /\ None \notin Talks /\ None \notin Sends /\ None \notin Turns
    /\ \A h \in Homes : h[1] \in Runtimes /\ h[2] \in Names
    /\ MaxTalks \in Nat /\ Window \in Nat /\ Talks \subseteq Nat
BY SpacesAssumption, TalksAssumption DEF Talks, Homes, Turns

(* The end of a history that a turn is given is a history. *)
LEMMA LastTurnsType ==
    ASSUME NEW history \in Seq(Sends)
    PROVE  LastTurns(history) \in Seq(Sends)
<1> DEFINE m == IF Len(history) > Window THEN Len(history) - Window + 1 ELSE 1
           n == Len(history)
<1>1. n \in Nat /\ m \in Int /\ \A i \in m .. n : history[i] \in Sends
  BY Distinct, ElementOfSeq, LenProperties
<1>2. SubSeq(history, m, n) \in Seq(Sends)
  <2> HIDE DEF m, n
  <2> QED BY <1>1, SubSeqProperties
<1> QED BY <1>2 DEF LastTurns

(* A send's token, registered or taken out, leaves the table a table. *)
LEMMA RegisterType ==
    ASSUME TypeOK, NEW s \in Sends, NEW t \in Turns, Register(s, t)
    PROVE  /\ DOMAIN tokens' = DOMAIN tokens \cup {t} /\ tokens'[t] = s
           /\ \A k \in DOMAIN tokens \ {t} : tokens'[k] = tokens[k]
           /\ DOMAIN tokens' \subseteq Turns
           /\ \A k \in DOMAIN tokens' : tokens'[k] \in Sends
BY DEF TypeOK, Register

Endings == {"answered", "failed", "cancelled"}

(* A send that leaves takes its own run's token away and no other.         *)
LEMMA LeaveTokens ==
    ASSUME TypeOK, NEW s \in Sends, NEW how \in Endings, Leave(s, how)
    PROVE  /\ DOMAIN tokens' \subseteq DOMAIN tokens
           /\ \A k \in DOMAIN tokens' : tokens'[k] = tokens[k]
           /\ DOMAIN tokens' =
                 IF at[s] = "running" THEN DOMAIN tokens \ {turn[s]} ELSE DOMAIN tokens
BY DEF TypeOK, Leave

(* The types of the sends are kept by every step. *)
LEMMA TypeKept ==
    ASSUME TypeOK, SentInv, TalkStep, UNCHANGED spaceVars
    PROVE  TypeOK'
<1>1. SpacesTypeOK'
  BY DEF TypeOK, spaceVars, SpacesTypeOK, Runtimes
<1> USE Distinct DEF TypeOK
<1>2. ASSUME NEW h \in Homes, Begin(h) PROVE TypeOK'
  <2>1. talks' \in 0 .. MaxTalks /\ talks' \in Talks
    BY <1>2 DEF Begin, Talks
  <2> QED BY <1>1, <1>2, <2>1 DEF Begin
<1>3. ASSUME NEW h \in Homes, Forget(h) PROVE TypeOK'
  BY <1>1, <1>3 DEF Forget
<1>4. ASSUME NEW h \in Homes, Cancel(h) PROVE TypeOK'
  BY <1>1, <1>4 DEF Cancel
<1>5. ASSUME NEW h \in Homes, NEW target \in TalkStates, Become(h, target) PROVE TypeOK'
  BY <1>1, <1>5 DEF Become
<1>6. ASSUME NEW h \in Homes, NEW s \in Sends, Send(s, h) PROVE TypeOK'
  <2> DEFINE t == <<h[2], counter[h[1]]>>
  <2>1. t \in Turns /\ found[h] \in Talks /\ counter[h[1]] + 1 \in Nat
    BY <1>6 DEF Send, Accepts, Turns
  <2>2. LastTurns(talk[found[h]].history) \in Seq(Sends)
    BY <2>1, LastTurnsType
  <2>3. DOMAIN tokens' \subseteq Turns /\ \A k \in DOMAIN tokens' : tokens'[k] \in Sends
    <3>1. CASE Recalls
      BY <1>6, <3>1 DEF Send
    <3>2. CASE ~ Recalls
      <4>1. Register(s, t)
        BY <1>6, <3>2 DEF Send
      <4> QED BY <2>1, <4>1, RegisterType
    <3> QED BY <3>1, <3>2
  <2>4. met' \in [Sends -> SUBSET Sends]
    BY <1>6 DEF Send, Meet, Meeting
  <2>5. at' = [at EXCEPT ![s] = IF Recalls THEN "recalling" ELSE "running"]
    BY <1>6 DEF Send
  <2>6. at' \in [Sends -> {"idle", "refused", "answered", "failed", "cancelled"} \cup InFlight]
    BY <2>5 DEF InFlight
  <2>7. /\ counter' = [counter EXCEPT ![h[1]] = @ + 1]
        /\ active' = [active EXCEPT ![h] = t]
        /\ home' = [home EXCEPT ![s] = h]
        /\ about' = [about EXCEPT ![s] = found[h]]
        /\ turn' = [turn EXCEPT ![s] = t]
        /\ given' = [given EXCEPT ![s] = LastTurns(talk[found[h]].history)]
        /\ UNCHANGED <<found, talks, talk, fired>>
    BY <1>6 DEF Send
  <2> HIDE DEF t
  <2> QED BY <1>1, <2>1, <2>2, <2>3, <2>4, <2>6, <2>7
<1>7. ASSUME NEW h \in Homes, NEW s \in Sends, Refuse(s, h) PROVE TypeOK'
  BY <1>1, <1>7 DEF Refuse
<1>8. ASSUME NEW s \in Sends, Recalled(s) PROVE TypeOK'
  <2>1. turn[s] \in Turns /\ Register(s, turn[s])
    BY <1>8 DEF Recalled, SentInv, Sent
  <2>2. DOMAIN tokens' \subseteq Turns /\ \A k \in DOMAIN tokens' : tokens'[k] \in Sends
    BY <2>1, RegisterType
  <2> QED BY <1>1, <1>8, <2>2 DEF Recalled, InFlight
<1>9. ASSUME NEW s \in Sends, NEW how \in Endings, Flying(s), Leave(s, how),
             talk' \in [Talks -> [state : TalkStates, history : Seq(Sends)]]
      PROVE  TypeOK'
  <2>1. DOMAIN tokens' \subseteq Turns /\ \A k \in DOMAIN tokens' : tokens'[k] \in Sends
    BY <1>9, LeaveTokens
  <2>2. home[s] \in Homes
    BY <1>9 DEF SentInv, Sent, Flying, InFlight
  <2> QED BY <1>1, <1>9, <2>1, <2>2 DEF Leave, Endings
<1>10. ASSUME NEW s \in Sends, Answer(s) PROVE TypeOK'
  <2>1. about[s] \in Talks
    BY <1>10 DEF Answer, SentInv, Sent
  <2>2. Append(talk[about[s]].history, s) \in Seq(Sends)
    <3>1. talk[about[s]].history \in Seq(Sends)
      BY <2>1
    <3> QED BY <3>1, AppendProperties
  <2>3. talk' = [talk EXCEPT ![about[s]].history = Append(@, s)]
    BY <1>10 DEF Answer
  <2>4. talk' \in [Talks -> [state : TalkStates, history : Seq(Sends)]]
    BY <2>1, <2>2, <2>3
  <2> QED BY <1>9, <1>10, <2>4 DEF Answer, Flying, InFlight, Endings
<1>11. ASSUME NEW s \in Sends, Fail(s) \/ Cancelled(s) PROVE TypeOK'
  BY <1>9, <1>11 DEF Fail, Cancelled, Flying, InFlight, Endings
<1> QED BY <1>2, <1>3, <1>4, <1>5, <1>6, <1>7, <1>8, <1>10, <1>11 DEF TalkStep

(* What a step may change: of a send that was taken up, nothing but where  *)
(* it stands and whom it has met.                                          *)
LEMMA SentStays ==
    ASSUME TypeOK, TalkStep, NEW s \in Sends, Sent(s)
    PROVE  /\ Sent(s)' /\ home'[s] = home[s] /\ turn'[s] = turn[s]
           /\ about'[s] = about[s] /\ given'[s] = given[s]
           /\ met[s] \subseteq met'[s]
<1> USE DEF TypeOK, Sent
<1>1. ASSUME NEW h \in Homes, Begin(h) \/ Forget(h) \/ Cancel(h) \/
             \E target \in TalkStates : Become(h, target)
      PROVE  UNCHANGED <<at, home, turn, about, given, met>>
  BY <1>1 DEF Begin, Forget, Cancel, Become
<1>2. ASSUME NEW h \in Homes, NEW d \in Sends, Send(d, h)
      PROVE  /\ at'[s] = at[s] /\ home'[s] = home[s] /\ turn'[s] = turn[s]
             /\ about'[s] = about[s] /\ given'[s] = given[s] /\ met[s] \subseteq met'[s]
  <2>1. d # s
    BY <1>2 DEF Send
  <2>2. /\ at'[s] = at[s] /\ home'[s] = home[s] /\ turn'[s] = turn[s]
        /\ about'[s] = about[s] /\ given'[s] = given[s]
    BY <1>2, <2>1 DEF Send
  <2>3. met'[s] = met[s] \/ met'[s] = met[s] \cup {d}
    <3>1. met' = Meet(d, Meeting(h, <<h[2], counter[h[1]]>>))
      BY <1>2 DEF Send
    <3> DEFINE others == Meeting(h, <<h[2], counter[h[1]]>>)
    <3>2. CASE s \in others
      BY <2>1, <3>1, <3>2, Zenon DEF Meet
    <3>3. CASE s \notin others
      BY <2>1, <3>1, <3>3, Zenon DEF Meet
    <3> QED BY <3>2, <3>3
  <2> QED BY <2>2, <2>3
<1>3. ASSUME NEW h \in Homes, NEW d \in Sends, Refuse(d, h)
      PROVE  /\ at'[s] = at[s] /\ UNCHANGED <<home, turn, about, given, met>>
  BY <1>3 DEF Refuse
<1>4. ASSUME NEW d \in Sends, Recalled(d) \/ Answer(d) \/ Fail(d) \/ Cancelled(d)
      PROVE  /\ UNCHANGED <<home, turn, about, given, met>>
             /\ at'[s] = at[s] \/ at'[s] \in {"running"} \cup Endings
  BY <1>4 DEF Recalled, Answer, Fail, Cancelled, Leave, Endings
<1> QED BY <1>1, <1>2, <1>3, <1>4 DEF TalkStep, Endings

(* Whom a send meets when it begins, and who meets it. *)
TurnAt(h) == <<h[2], counter[h[1]]>>
MeetingAt(h) == Meeting(h, TurnAt(h))

(* A send that begins meets those under way in its conversation or under   *)
(* its run id, and they meet it.                                           *)
LEMMA SendMeets ==
    ASSUME TypeOK, NEW h \in Homes, NEW s \in Sends, Send(s, h)
    PROVE  /\ TurnAt(h) \in Turns
           /\ home' = [home EXCEPT ![s] = h] /\ turn' = [turn EXCEPT ![s] = TurnAt(h)]
           /\ \A d \in Sends :
                 d \in MeetingAt(h) <=> Flying(d) /\ (home[d] = h \/ turn[d] = TurnAt(h))
           /\ MeetingAt(h) \subseteq Sends
           /\ met'[s] = MeetingAt(h)
           /\ \A d \in MeetingAt(h) : d # s => met'[d] = met[d] \cup {s}
           /\ \A d \in Sends \ MeetingAt(h) : d # s => met'[d] = met[d]
<1> DEFINE t == TurnAt(h)
           others == MeetingAt(h)
<1> USE DEF TurnAt, MeetingAt
<1>1. t \in Turns
  BY Distinct DEF TypeOK, Turns
<1>2. home' = [home EXCEPT ![s] = h] /\ turn' = [turn EXCEPT ![s] = t]
  BY DEF Send
<1>3. met' = Meet(s, others)
  BY DEF Send
<1>4. others \subseteq Sends /\ s \notin others
  BY DEF Meeting, Send, Flying, InFlight
<1>5. met'[s] = others
  BY <1>3, <1>4, Zenon DEF Meet
<1>6. ASSUME NEW d \in others, d # s PROVE met'[d] = met[d] \cup {s}
  BY <1>3, <1>4, <1>6, Zenon DEF Meet
<1>7. ASSUME NEW d \in Sends \ others, d # s PROVE met'[d] = met[d]
  BY <1>3, <1>7, Zenon DEF Meet
<1>8. \A d \in Sends : d \in others <=> Flying(d) /\ (home[d] = h \/ turn[d] = t)
  BY DEF Meeting
<1> QED BY <1>1, <1>2, <1>4, <1>5, <1>6, <1>7, <1>8

(* A send leaves the places of others alone. *)
LEMMA FlyingStep ==
    ASSUME TypeOK, TalkStep, NEW s \in Sends, Flying(s)'
    PROVE  Flying(s) \/ (at[s] = "idle" /\ \E h \in Homes : Send(s, h))
<1> USE DEF TypeOK, Flying, InFlight
<1>1. ASSUME NEW h \in Homes, Begin(h) \/ Forget(h) \/ Cancel(h) \/
             \E target \in TalkStates : Become(h, target)
      PROVE  UNCHANGED at
  BY <1>1 DEF Begin, Forget, Cancel, Become
<1>2. ASSUME NEW h \in Homes, NEW d \in Sends, Send(d, h)
      PROVE  d = s \/ at'[s] = at[s]
  BY <1>2 DEF Send
<1>3. ASSUME NEW h \in Homes, NEW d \in Sends, Refuse(d, h)
      PROVE  at'[s] = at[s] \/ at'[s] = "refused"
  BY <1>3 DEF Refuse
<1>4. ASSUME NEW d \in Sends, Recalled(d) PROVE at'[s] = at[s] \/ at[s] = "recalling"
  BY <1>4 DEF Recalled
<1>5. ASSUME NEW d \in Sends, Answer(d) \/ Fail(d) \/ Cancelled(d)
      PROVE  at'[s] = at[s] \/ at'[s] \in Endings
  BY <1>5 DEF Answer, Fail, Cancelled, Leave, Endings
<1>6. ASSUME NEW h \in Homes, Send(s, h) PROVE at[s] = "idle"
  BY <1>6 DEF Send
<1> QED BY <1>1, <1>2, <1>3, <1>4, <1>5, <1>6 DEF TalkStep, Endings

(* The sends' places: each finds its conversation at one home. *)
LEMMA PlaceKept ==
    ASSUME TypeOK, SentInv, PlaceInv, TalkStep, TypeOK'
    PROVE  SentInv' /\ PlaceInv'
<1>1. ASSUME NEW h \in Homes, Begin(h) PROVE SentInv' /\ PlaceInv'
  <2>1. /\ talks' = talks + 1 /\ talks \in Nat
        /\ found' = [found EXCEPT ![h] = talks + 1]
        /\ UNCHANGED <<at, home, turn, about, met>>
    BY <1>1, Distinct DEF Begin, TypeOK
  <2>2. SentInv'
    <3>1. \A s \in Sends : Sent(s) => about[s] \in Nat
      BY Distinct DEF SentInv
    <3> QED BY <2>1, <3>1 DEF SentInv, Sent
  <2>3. \A g \in Homes : found[g] # talks + 1
    BY <2>1, Distinct, SpacesAssumption DEF PlaceInv, TypeOK
  <2>4. \A s \in Sends : Sent(s) => about[s] # talks + 1
    BY <2>1, Distinct DEF SentInv
  <2>5. PlaceInv'
    <3>1. \A g \in Homes : found'[g] = IF g = h THEN talks + 1 ELSE found[g]
      BY <2>1 DEF TypeOK
    <3>2. \A g \in Homes : found'[g] # None => found'[g] <= talks'
      <4>1. \A g \in Homes : found[g] # None => found[g] \in Nat /\ found[g] <= talks
        BY Distinct DEF PlaceInv, TypeOK
      <4> QED BY <2>1, <3>1, <4>1
    <3>3. \A g, k \in Homes : found'[g] # None /\ found'[g] = found'[k] => g = k
      BY <2>3, <3>1 DEF PlaceInv
    <3>4. \A s \in Sends, g \in Homes : Sent(s)' /\ found'[g] = about'[s] => home'[s] = g
      BY <2>1, <2>4, <3>1 DEF PlaceInv, Sent
    <3>5. \A s, d \in Sends :
             Sent(s)' /\ Sent(d)' /\ about'[s] = about'[d] => home'[s] = home'[d]
      BY <2>1 DEF PlaceInv, Sent
    <3> QED BY <3>2, <3>3, <3>4, <3>5 DEF PlaceInv
  <2> QED BY <2>2, <2>5
<1>2. ASSUME NEW h \in Homes, Forget(h) PROVE SentInv' /\ PlaceInv'
  <2>1. /\ found' = [found EXCEPT ![h] = None]
        /\ UNCHANGED <<talks, at, home, turn, about, met>>
    BY <1>2 DEF Forget
  <2>2. \A g \in Homes : found'[g] = IF g = h THEN None ELSE found[g]
    BY <2>1 DEF TypeOK
  <2>3. \A s \in Sends : Sent(s) => about[s] # None
    BY Distinct DEF SentInv
  <2> QED BY <2>1, <2>2, <2>3 DEF SentInv, PlaceInv, Sent
<1>3. ASSUME NEW h \in Homes, Cancel(h) \/ \E target \in TalkStates : Become(h, target)
      PROVE  SentInv' /\ PlaceInv'
  <2>1. UNCHANGED <<found, talks, at, home, turn, about, met>>
    BY <1>3 DEF Cancel, Become
  <2> QED BY <2>1 DEF SentInv, PlaceInv, Sent
<1>4. ASSUME NEW h \in Homes, NEW s \in Sends, Refuse(s, h) PROVE SentInv' /\ PlaceInv'
  <2>1. /\ at' = [at EXCEPT ![s] = "refused"]
        /\ UNCHANGED <<found, talks, home, turn, about, met>>
    BY <1>4 DEF Refuse
  <2>2. \A d \in Sends : Sent(d)' <=> Sent(d)
    BY <1>4, <2>1 DEF Sent, Refuse, TypeOK
  <2> QED BY <2>1, <2>2 DEF SentInv, PlaceInv, TypeOK
<1>5. ASSUME NEW h \in Homes, NEW s \in Sends, Send(s, h) PROVE SentInv' /\ PlaceInv'
  <2>1. /\ about' = [about EXCEPT ![s] = found[h]] /\ home' = [home EXCEPT ![s] = h]
        /\ found[h] \in Talks /\ found[h] <= talks /\ found[h] # None
        /\ UNCHANGED <<found, talks>>
    BY <1>5 DEF Send, Accepts, TypeOK, PlaceInv
  <2>2. \A d \in Sends : d # s => (Sent(d)' <=> Sent(d)) /\ about'[d] = about[d]
                                  /\ home'[d] = home[d]
    BY <1>5, <2>1 DEF Send, Sent, TypeOK
  <2>3. Sent(s)' /\ ~ Sent(s) /\ home'[s] = h /\ about'[s] = found[h]
    BY <1>5, <2>1 DEF Send, Sent, TypeOK
  <2>4. turn'[s] \in Turns /\ \A d \in met'[s] : Sent(d)'
    <3>1. turn'[s] \in Turns
      BY <1>5, SendMeets DEF TypeOK
    <3>2. \A d \in met'[s] : Flying(d) /\ d \in Sends
      BY <1>5, SendMeets
    <3> QED BY <2>2, <2>3, <3>1, <3>2 DEF Sent, Flying, InFlight
  <2>5. ASSUME NEW d \in Sends, d # s, Sent(d)
        PROVE  turn'[d] \in Turns /\ \A e \in met'[d] : Sent(e)'
    <3>1. turn'[d] = turn[d] /\ (met'[d] = met[d] \/ met'[d] = met[d] \cup {s})
      <4>1. /\ turn' = [turn EXCEPT ![s] = TurnAt(h)]
            /\ \A e \in MeetingAt(h) : e # s => met'[e] = met[e] \cup {s}
            /\ \A e \in Sends \ MeetingAt(h) : e # s => met'[e] = met[e]
        BY <1>5, SendMeets
      <4>2. turn'[d] = turn[d]
        BY <2>5, <4>1 DEF TypeOK
      <4>3. d \in MeetingAt(h) \/ d \in Sends \ MeetingAt(h)
        BY <2>5
      <4> QED BY <2>5, <4>1, <4>2, <4>3
    <3>2. met[d] \subseteq Sends /\ turn[d] \in Turns /\ \A e \in met[d] : Sent(e)
      BY <2>5 DEF TypeOK, SentInv
    <3> QED BY <2>2, <2>3, <3>1, <3>2
  <2>6. SentInv'
    BY <2>1, <2>2, <2>3, <2>4, <2>5 DEF SentInv
  <2>7. PlaceInv'
    BY <2>1, <2>2, <2>3 DEF PlaceInv
  <2> QED BY <2>6, <2>7
<1>6. ASSUME NEW s \in Sends, Recalled(s) \/ Answer(s) \/ Fail(s) \/ Cancelled(s)
      PROVE  SentInv' /\ PlaceInv'
  <2>1. UNCHANGED <<found, talks, home, turn, about, met>>
    BY <1>6 DEF Recalled, Answer, Fail, Cancelled, Leave
  <2>2. \A d \in Sends : Sent(d)' <=> Sent(d)
    BY <1>6 DEF Recalled, Answer, Fail, Cancelled, Leave, Sent, TypeOK, Flying, InFlight
  <2> QED BY <2>1, <2>2 DEF SentInv, PlaceInv, TypeOK
<1> QED BY <1>1, <1>2, <1>3, <1>4, <1>5, <1>6 DEF TalkStep

(* Two sends of one home or run id that are in flight together have met. *)
LEMMA MetKept ==
    ASSUME TypeOK, SentInv, MetInv, TalkStep, SentInv'
    PROVE  MetInv'
<1> SUFFICES ASSUME NEW s \in Sends, NEW d \in Sends, s # d, Flying(s)', Flying(d)',
                    home'[d] = home'[s] \/ turn'[d] = turn'[s]
             PROVE  d \in met'[s]
  BY DEF MetInv
<1>1. CASE Flying(s) /\ Flying(d)
  <2>1. Sent(s) /\ Sent(d)
    BY <1>1 DEF Flying, InFlight, Sent
  <2> QED BY <1>1, <2>1, SentStays DEF MetInv
<1>2. ASSUME NEW h \in Homes, at[s] = "idle", Send(s, h) PROVE d \in met'[s]
  <2>1. Flying(d)
    BY <1>2 DEF Send, Flying, InFlight, TypeOK
  <2>2. d \in MeetingAt(h)
    BY <1>2, <2>1, SendMeets DEF TypeOK
  <2> QED BY <1>2, <2>2, SendMeets
<1>3. ASSUME NEW h \in Homes, at[d] = "idle", Send(d, h) PROVE d \in met'[s]
  <2>1. Flying(s)
    BY <1>3 DEF Send, Flying, InFlight, TypeOK
  <2>2. s \in MeetingAt(h)
    BY <1>3, <2>1, SendMeets DEF TypeOK
  <2> QED BY <1>3, <2>2, SendMeets
<1> QED BY <1>1, <1>2, <1>3, FlyingStep

(* Whom a send met at its home, or under its run id, it has met. *)
LEMMA MetStays ==
    ASSUME TypeOK, SentInv, TalkStep, NEW s \in Sends, Sent(s)
    PROVE  /\ MetAtHome(s) => MetAtHome(s)'
           /\ MetSameRun(s) => MetSameRun(s)'
<1>1. ASSUME NEW d \in met[s]
      PROVE  d \in Sends /\ d \in met'[s] /\ home'[d] = home[d] /\ turn'[d] = turn[d]
  <2>1. d \in Sends /\ Sent(d)
    BY <1>1 DEF SentInv, TypeOK
  <2> QED BY <1>1, <2>1, SentStays
<1>2. home'[s] = home[s] /\ turn'[s] = turn[s]
  BY SentStays
<1> QED BY <1>1, <1>2 DEF MetAtHome, MetSameRun

(* Every send that ends leaves. *)
Leaves(s) == Flying(s) /\ \E how \in Endings : Leave(s, how)

(* Whichever way a send ends, it leaves.                                   *)
LEMMA EndingIsLeaving ==
    ASSUME NEW s \in Sends, Answer(s) \/ Fail(s) \/ Cancelled(s)
    PROVE  Leaves(s)
BY DEF Answer, Fail, Cancelled, Leaves, Endings, Flying, InFlight

(* A send that leaves ends, clears its conversation's active turn, and     *)
(* moves nobody else.                                                      *)
LEMMA LeavesPlaces ==
    ASSUME TypeOK, SentInv, NEW s \in Sends, Leaves(s)
    PROVE  /\ home[s] \in Homes /\ turn[s] \in Turns
           /\ active' = [active EXCEPT ![home[s]] = None]
           /\ at'[s] \in Endings /\ \A d \in Sends : d # s => at'[d] = at[d]
           /\ \A d \in Sends : Flying(d)' <=> Flying(d) /\ d # s
           /\ UNCHANGED <<home, turn, about, given, met, fired>>
<1>1. home[s] \in Homes /\ turn[s] \in Turns
  BY DEF Leaves, Flying, InFlight, SentInv, Sent
<1>2. PICK how \in Endings : Leave(s, how)
  BY DEF Leaves
<1>3. at' = [at EXCEPT ![s] = how] /\ active' = [active EXCEPT ![home[s]] = None]
  BY <1>2 DEF Leave
<1>4. UNCHANGED <<home, turn, about, given, met, fired>>
  BY <1>2 DEF Leave
<1>5. at'[s] \in Endings /\ \A d \in Sends : d # s => at'[d] = at[d]
  BY <1>3 DEF TypeOK
<1> QED BY <1>1, <1>3, <1>4, <1>5 DEF Endings, Flying, InFlight

(* The active turn of a home is one in flight there, and a turn in flight  *)
(* is the active one of its home unless another of that home was met.      *)
LEMMA ActiveKept ==
    ASSUME TypeOK, SentInv, MetInv, ActiveInv, TalkStep, SentInv'
    PROVE  ActiveInv'
<1>1. ASSUME UNCHANGED active, UNCHANGED home, UNCHANGED turn, UNCHANGED met,
             \A d \in Sends : Flying(d)' <=> Flying(d)
      PROVE  ActiveInv'
  BY <1>1, Zenon DEF ActiveInv, MetAtHome
<1>2. ASSUME NEW h \in Homes, Begin(h) \/ Forget(h) \/ Cancel(h) \/
             \E target \in TalkStates : Become(h, target)
      PROVE  ActiveInv'
  <2>1. UNCHANGED <<active, at, home, turn, met>>
    BY <1>2 DEF Begin, Forget, Cancel, Become
  <2> QED BY <1>1, <2>1 DEF Flying
<1>3. ASSUME NEW h \in Homes, NEW s \in Sends, Refuse(s, h) PROVE ActiveInv'
  <2>1. UNCHANGED <<active, home, turn, met>> /\ at' = [at EXCEPT ![s] = "refused"]
        /\ at[s] = "idle"
    BY <1>3 DEF Refuse
  <2>2. \A d \in Sends : Flying(d)' <=> Flying(d)
    BY <2>1 DEF Flying, InFlight, TypeOK
  <2> QED BY <1>1, <2>1, <2>2
<1>4. ASSUME NEW s \in Sends, Recalled(s) PROVE ActiveInv'
  <2>1. UNCHANGED <<active, home, turn, met>> /\ at' = [at EXCEPT ![s] = "running"]
        /\ at[s] = "recalling"
    BY <1>4 DEF Recalled
  <2>2. \A d \in Sends : Flying(d)' <=> Flying(d)
    BY <2>1 DEF Flying, InFlight, TypeOK
  <2> QED BY <1>1, <2>1, <2>2
<1>5. ASSUME NEW h \in Homes, NEW s \in Sends, Send(s, h) PROVE ActiveInv'
  <2>1. /\ active' = [active EXCEPT ![h] = TurnAt(h)]
        /\ at' = [at EXCEPT ![s] = IF Recalls THEN "recalling" ELSE "running"]
        /\ at[s] = "idle"
    BY <1>5 DEF Send, TurnAt
  <2>2. Flying(s)' /\ ~ Flying(s) /\ \A d \in Sends : d # s => (Flying(d)' <=> Flying(d))
    BY <2>1 DEF Flying, InFlight, TypeOK
  <2>3. active'[h] = TurnAt(h) /\ \A g \in Homes : g # h => active'[g] = active[g]
    BY <2>1 DEF TypeOK
  <2>4. /\ home'[s] = h /\ turn'[s] = TurnAt(h)
        /\ \A d \in Sends : d # s => home'[d] = home[d] /\ turn'[d] = turn[d]
    BY <1>5, SendMeets DEF TypeOK
  <2>5. ASSUME NEW g \in Homes, active'[g] # None
        PROVE  \E d \in Sends : Flying(d)' /\ home'[d] = g /\ turn'[d] = active'[g]
    <3>1. CASE g = h
      BY <2>2, <2>3, <2>4, <3>1
    <3>2. CASE g # h
      <4>1. PICK d \in Sends : Flying(d) /\ home[d] = g /\ turn[d] = active[g]
        BY <2>3, <2>5, <3>2 DEF ActiveInv
      <4> QED BY <2>2, <2>3, <2>4, <3>2, <4>1
    <3> QED BY <3>1, <3>2
  <2>6. ASSUME NEW d \in Sends, Flying(d)'
        PROVE  active'[home'[d]] = turn'[d] \/ MetAtHome(d)'
    <3>1. CASE d = s
      BY <2>3, <2>4, <3>1
    <3>2. CASE d # s
      <4>1. Sent(d) /\ Flying(d) /\ home[d] \in Homes
        BY <2>2, <2>6, <3>2 DEF SentInv, Sent, Flying, InFlight
      <4>2. CASE home[d] = h
        <5>1. s \in met'[d]
          BY <1>5, <3>2, <4>1, <4>2, SendMeets
        <5> QED BY <2>4, <3>2, <4>2, <5>1 DEF MetAtHome
      <4>3. CASE home[d] # h
        BY <2>3, <2>4, <3>2, <4>1, <4>3, MetStays DEF ActiveInv
      <4> QED BY <4>2, <4>3
    <3> QED BY <3>1, <3>2
  <2> QED BY <2>5, <2>6 DEF ActiveInv
<1>6. ASSUME NEW s \in Sends, Leaves(s) PROVE ActiveInv'
  <2>1. /\ home[s] \in Homes /\ active' = [active EXCEPT ![home[s]] = None]
        /\ \A d \in Sends : Flying(d)' <=> Flying(d) /\ d # s
        /\ UNCHANGED <<home, turn, met>> /\ Flying(s)
    BY <1>6, LeavesPlaces DEF Leaves
  <2>2. \A g \in Homes : active'[g] = IF g = home[s] THEN None ELSE active[g]
    BY <2>1 DEF TypeOK
  <2>3. ASSUME NEW g \in Homes, active'[g] # None
        PROVE  \E d \in Sends : Flying(d)' /\ home'[d] = g /\ turn'[d] = active'[g]
    <3>1. g # home[s] /\ active'[g] = active[g]
      BY <2>2, <2>3
    <3>2. PICK d \in Sends : Flying(d) /\ home[d] = g /\ turn[d] = active[g]
      BY <2>3, <3>1 DEF ActiveInv
    <3> QED BY <2>1, <3>1, <3>2
  <2>4. ASSUME NEW d \in Sends, Flying(d)'
        PROVE  active'[home'[d]] = turn'[d] \/ MetAtHome(d)'
    <3>1. d # s /\ Flying(d) /\ home[d] \in Homes
      BY <2>1, <2>4 DEF SentInv, Sent, Flying, InFlight
    <3>2. CASE home[d] = home[s]
      <4>1. s \in met'[d] /\ home'[s] = home'[d]
        BY <2>1, <3>1, <3>2 DEF MetInv
      <4> QED BY <4>1 DEF MetAtHome
    <3>3. CASE home[d] # home[s]
      BY <2>1, <2>2, <3>1, <3>3 DEF ActiveInv, MetAtHome
    <3> QED BY <3>2, <3>3
  <2> QED BY <2>3, <2>4 DEF ActiveInv
<1> QED BY <1>2, <1>3, <1>4, <1>5, <1>6, EndingIsLeaving DEF TalkStep

(* A token is that of a run under way, under its id, and a run finds its   *)
(* own under it unless another of that id was met.                         *)
LEMMA TokenKept ==
    ASSUME TypeOK, SentInv, MetInv, TokenInv, TalkStep, SentInv'
    PROVE  TokenInv'
<1>1. ASSUME UNCHANGED tokens, UNCHANGED turn, UNCHANGED met,
             \A d \in Sends : at'[d] = "running" <=> at[d] = "running"
      PROVE  TokenInv'
  <2>1. \A t \in DOMAIN tokens : tokens[t] \in Sends
    BY DEF TypeOK
  <2> QED BY <1>1, <2>1, Zenon DEF TokenInv, MetSameRun
<1>2. ASSUME NEW h \in Homes, Begin(h) \/ Forget(h) \/ Cancel(h) \/
             \E target \in TalkStates : Become(h, target)
      PROVE  TokenInv'
  <2>1. UNCHANGED <<tokens, at, turn, met>>
    BY <1>2 DEF Begin, Forget, Cancel, Become
  <2> QED BY <1>1, <2>1
<1>3. ASSUME NEW h \in Homes, NEW s \in Sends, Refuse(s, h) PROVE TokenInv'
  <2>1. UNCHANGED <<tokens, turn, met>> /\ at' = [at EXCEPT ![s] = "refused"]
        /\ at[s] = "idle"
    BY <1>3 DEF Refuse
  <2>2. \A d \in Sends : at'[d] = "running" <=> at[d] = "running"
    BY <2>1 DEF TypeOK
  <2> QED BY <1>1, <2>1, <2>2
<1>4. ASSUME NEW s \in Sends, NEW t \in Turns, Register(s, t), at'[s] = "running",
             at[s] # "running", turn'[s] = t,
             \A d \in Sends : d # s => at'[d] = at[d] /\ turn'[d] = turn[d],
             \A d \in Sends : d # s /\ Flying(d) /\ turn[d] = t => s \in met'[d]
      PROVE  TokenInv'
  <2>1. /\ DOMAIN tokens' = DOMAIN tokens \cup {t} /\ tokens'[t] = s
        /\ \A k \in DOMAIN tokens \ {t} : tokens'[k] = tokens[k]
    BY <1>4, RegisterType
  <2>2. \A k \in DOMAIN tokens : tokens[k] \in Sends /\ tokens[k] # s
    BY <1>4 DEF TypeOK, TokenInv
  <2>3. ASSUME NEW k \in DOMAIN tokens'
        PROVE  at'[tokens'[k]] = "running" /\ turn'[tokens'[k]] = k
    BY <1>4, <2>1, <2>2 DEF TokenInv
  <2>4. ASSUME NEW d \in Sends, at'[d] = "running"
        PROVE  \/ turn'[d] \in DOMAIN tokens' /\ tokens'[turn'[d]] = d
               \/ MetSameRun(d)'
    <3>1. CASE d = s
      BY <1>4, <2>1, <3>1
    <3>2. CASE d # s /\ turn[d] = t
      BY <1>4, <2>4, <3>2 DEF MetSameRun, Flying, InFlight
    <3>3. CASE d # s /\ turn[d] # t
      <4>1. at[d] = "running" /\ Sent(d) /\ turn'[d] = turn[d]
        BY <1>4, <2>4, <3>3 DEF Sent
      <4> QED BY <2>1, <3>3, <4>1, MetStays DEF TokenInv
    <3> QED BY <3>1, <3>2, <3>3
  <2> QED BY <2>3, <2>4 DEF TokenInv
<1>5. ASSUME NEW h \in Homes, NEW s \in Sends, Send(s, h) PROVE TokenInv'
  <2>1. /\ at' = [at EXCEPT ![s] = IF Recalls THEN "recalling" ELSE "running"]
        /\ at[s] = "idle"
        /\ IF Recalls THEN UNCHANGED tokens ELSE Register(s, TurnAt(h))
    BY <1>5 DEF Send, TurnAt
  <2>2. /\ TurnAt(h) \in Turns /\ turn'[s] = TurnAt(h)
        /\ \A d \in Sends : d # s => turn'[d] = turn[d] /\ at'[d] = at[d]
    BY <1>5, <2>1, SendMeets DEF TypeOK
  <2>3. \A d \in Sends : d # s /\ Flying(d) /\ turn[d] = TurnAt(h) => s \in met'[d]
    BY <1>5, SendMeets
  <2>4. CASE ~ Recalls
    <3>1. at'[s] = "running" /\ at[s] # "running" /\ Register(s, TurnAt(h))
      BY <2>1, <2>4 DEF TypeOK
    <3> QED BY <1>4, <2>2, <2>3, <3>1
  <2>5. CASE Recalls
    <3>1. UNCHANGED tokens /\ at'[s] # "running" /\ at[s] # "running"
      BY <2>1, <2>5 DEF TypeOK
    <3>2. \A k \in DOMAIN tokens : tokens[k] \in Sends /\ tokens[k] # s
      BY <3>1 DEF TypeOK, TokenInv
    <3>3. ASSUME NEW d \in Sends, at'[d] = "running"
          PROVE  \/ turn'[d] \in DOMAIN tokens' /\ tokens'[turn'[d]] = d
                 \/ MetSameRun(d)'
      <4>1. at[d] = "running" /\ Sent(d) /\ turn'[d] = turn[d]
        BY <2>2, <3>1, <3>3 DEF Sent
      <4> QED BY <3>1, <4>1, MetStays DEF TokenInv
    <3> QED BY <2>2, <3>1, <3>2, <3>3 DEF TokenInv
  <2> QED BY <2>4, <2>5
<1>6. ASSUME NEW s \in Sends, Recalled(s) PROVE TokenInv'
  <2>1. /\ at' = [at EXCEPT ![s] = "running"] /\ at[s] = "recalling"
        /\ Register(s, turn[s]) /\ UNCHANGED <<turn, met>>
    BY <1>6 DEF Recalled
  <2>2. Flying(s) /\ turn[s] \in Turns
    BY <2>1 DEF Flying, InFlight, SentInv, Sent
  <2>3. \A d \in Sends : d # s /\ Flying(d) /\ turn[d] = turn[s] => s \in met'[d]
    BY <2>1, <2>2 DEF MetInv
  <2>4. at'[s] = "running" /\ \A d \in Sends : d # s => at'[d] = at[d]
    BY <2>1 DEF TypeOK
  <2> QED BY <1>4, <2>1, <2>2, <2>3, <2>4
<1>7. ASSUME NEW s \in Sends, Leaves(s) PROVE TokenInv'
  <2>1. /\ turn[s] \in Turns /\ UNCHANGED <<turn, met>> /\ Flying(s)
        /\ at'[s] \in Endings /\ \A d \in Sends : d # s => at'[d] = at[d]
    BY <1>7, LeavesPlaces DEF Leaves
  <2>2. PICK how \in Endings : Leave(s, how)
    BY <1>7 DEF Leaves
  <2>3. /\ DOMAIN tokens' \subseteq DOMAIN tokens
        /\ \A k \in DOMAIN tokens' : tokens'[k] = tokens[k]
        /\ DOMAIN tokens' =
              IF at[s] = "running" THEN DOMAIN tokens \ {turn[s]} ELSE DOMAIN tokens
    BY <2>2, LeaveTokens
  <2>4. \A k \in DOMAIN tokens' : tokens[k] \in Sends /\ tokens[k] # s
    BY <2>3 DEF TypeOK, TokenInv
  <2>5. ASSUME NEW d \in Sends, at'[d] = "running"
        PROVE  \/ turn'[d] \in DOMAIN tokens' /\ tokens'[turn'[d]] = d
               \/ MetSameRun(d)'
    <3>1. d # s /\ at[d] = "running" /\ Flying(d)
      BY <2>1, <2>5 DEF Endings, Flying, InFlight
    <3>2. CASE turn[d] = turn[s]
      BY <2>1, <3>1, <3>2 DEF MetInv, MetSameRun
    <3>3. CASE turn[d] # turn[s]
      BY <2>1, <2>3, <3>1, <3>3 DEF TokenInv, MetSameRun
    <3> QED BY <3>2, <3>3
  <2> QED BY <2>1, <2>3, <2>4, <2>5 DEF TokenInv
<1> QED BY <1>2, <1>3, <1>5, <1>6, <1>7, EndingIsLeaving DEF TalkStep

-----------------------------------------------------------------------------
(* The histories.                                                          *)

(* What precedes a turn is not touched by what is added. *)
LEMMA BeforeAdded ==
    ASSUME NEW history \in Seq(Sends), NEW s \in Sends, NEW p \in 1 .. Len(history) + 1
    PROVE  SubSeq(Append(history, s), 1, p - 1) = SubSeq(history, 1, p - 1)
<1> DEFINE longer == Append(history, s)
           n == p - 1
<1>1. Len(history) \in Nat /\ n \in Int /\ n <= Len(history)
  BY LenProperties
<1>2. \A i \in 1 .. n : longer[i] = history[i] /\ history[i] \in Sends
  BY <1>1, AppendProperties, ElementOfSeq
<1> HIDE DEF longer, n
<1>3. /\ SubSeq(history, 1, n) \in Seq(Sends) /\ SubSeq(longer, 1, n) \in Seq(Sends)
      /\ Len(SubSeq(history, 1, n)) = Len(SubSeq(longer, 1, n))
      /\ \A i \in 1 .. Len(SubSeq(history, 1, n)) :
            SubSeq(history, 1, n)[i] = SubSeq(longer, 1, n)[i]
  <2>1. /\ SubSeq(history, 1, n) \in Seq(Sends)
        /\ Len(SubSeq(history, 1, n)) = IF 1 <= n THEN n - 1 + 1 ELSE 0
        /\ \A i \in 1 .. n - 1 + 1 : SubSeq(history, 1, n)[i] = history[1 + i - 1]
    BY <1>1, <1>2, SubSeqProperties
  <2>2. /\ SubSeq(longer, 1, n) \in Seq(Sends)
        /\ Len(SubSeq(longer, 1, n)) = IF 1 <= n THEN n - 1 + 1 ELSE 0
        /\ \A i \in 1 .. n - 1 + 1 : SubSeq(longer, 1, n)[i] = longer[1 + i - 1]
    <3>1. \A i \in 1 .. n : longer[i] \in Sends
      BY <1>2
    <3> QED BY <1>1, <3>1, SubSeqProperties
  <2> QED BY <1>1, <1>2, <2>1, <2>2
<1>4. SubSeq(history, 1, n) = SubSeq(longer, 1, n)
  BY <1>3, SeqEqual
<1> QED BY <1>4 DEF longer, n

(* An answer is added to its conversation, to the others nothing. *)
LEMMA Added ==
    ASSUME TypeOK, SentInv, NEW s \in Sends, Answer(s)
    PROVE  /\ about[s] \in Talks
           /\ \A o \in Talks : talk[o].history \in Seq(Sends)
           /\ talk'[about[s]].history = Append(talk[about[s]].history, s)
           /\ \A o \in Talks : o # about[s] => talk'[o].history = talk[o].history
           /\ at[s] = "running" /\ at' = [at EXCEPT ![s] = "answered"]
<1>1. about[s] \in Talks
  BY DEF Answer, SentInv, Sent
<1>2. \A o \in Talks : talk[o] \in [state : TalkStates, history : Seq(Sends)]
  BY DEF TypeOK
<1>3. talk' = [talk EXCEPT ![about[s]].history = Append(@, s)]
  BY DEF Answer
<1>4. DOMAIN talk = Talks
  BY DEF TypeOK
<1>5. talk'[about[s]] = [talk[about[s]] EXCEPT !.history = Append(@, s)]
  BY <1>1, <1>3, <1>4
<1>6. talk'[about[s]].history = Append(talk[about[s]].history, s)
  BY <1>1, <1>2, <1>5
<1>7. \A o \in Talks : o # about[s] => talk'[o] = talk[o]
  BY <1>3, <1>4
<1>8. at[s] = "running" /\ at' = [at EXCEPT ![s] = "answered"]
  BY DEF Answer, Leave
<1> QED BY <1>1, <1>2, <1>6, <1>7, <1>8

(* Every other step leaves the histories, and who was answered, as they    *)
(* are.                                                                    *)
LEMMA NotAdded ==
    ASSUME TypeOK, SentInv, TalkStep, ~ \E s \in Sends : Answer(s)
    PROVE  /\ \A o \in Talks : talk'[o].history = talk[o].history
           /\ \A s \in Sends : at'[s] = "answered" <=> at[s] = "answered"
<1>1. ASSUME NEW h \in Homes, NEW target \in TalkStates, Become(h, target)
      PROVE  UNCHANGED at /\ \A o \in Talks : talk'[o].history = talk[o].history
  <2>1. found[h] \in Talks /\ talk' = [talk EXCEPT ![found[h]].state = target]
        /\ UNCHANGED at
    BY <1>1 DEF Become, TypeOK
  <2>2. \A o \in Talks : talk[o] \in [state : TalkStates, history : Seq(Sends)]
    BY DEF TypeOK
  <2>3. DOMAIN talk = Talks
    BY DEF TypeOK
  <2>4. talk'[found[h]] = [talk[found[h]] EXCEPT !.state = target]
    BY <2>1, <2>3
  <2>5. \A o \in Talks : o # found[h] => talk'[o] = talk[o]
    BY <2>1, <2>3
  <2> QED BY <2>1, <2>2, <2>4, <2>5
<1>2. ASSUME NEW h \in Homes, Begin(h) \/ Forget(h) \/ Cancel(h)
      PROVE  UNCHANGED <<at, talk>>
  BY <1>2 DEF Begin, Forget, Cancel
<1>3. ASSUME NEW h \in Homes, NEW s \in Sends, Send(s, h) \/ Refuse(s, h)
      PROVE  UNCHANGED talk /\ \A d \in Sends : at'[d] = "answered" <=> at[d] = "answered"
  BY <1>3 DEF Send, Refuse, TypeOK
<1>4. ASSUME NEW s \in Sends, Recalled(s)
      PROVE  UNCHANGED talk /\ \A d \in Sends : at'[d] = "answered" <=> at[d] = "answered"
  BY <1>4 DEF Recalled, TypeOK
<1>5. ASSUME NEW s \in Sends, Fail(s) \/ Cancelled(s)
      PROVE  UNCHANGED talk /\ \A d \in Sends : at'[d] = "answered" <=> at[d] = "answered"
  BY <1>5 DEF Fail, Cancelled, Leave, TypeOK, Flying, InFlight
<1> QED BY <1>1, <1>2, <1>3, <1>4, <1>5 DEF TalkStep

(* A history has every answered send of its conversation, once. *)
LEMMA WholeKept ==
    ASSUME TypeOK, SentInv, WholeTurns, TalkStep
    PROVE  WholeTurns'
<1>1. \A s \in Sends : at[s] = "answered" => about'[s] = about[s]
  BY SentStays DEF Sent
<1>2. CASE ~ \E s \in Sends : Answer(s)
  BY <1>1, <1>2, NotAdded DEF WholeTurns
<1>3. ASSUME NEW s \in Sends, Answer(s) PROVE WholeTurns'
  <2> DEFINE o == about[s]
             old == talk[o].history
             new == talk'[o].history
  <2>1. /\ o \in Talks /\ old \in Seq(Sends) /\ new = Append(old, s)
        /\ at[s] = "running" /\ at' = [at EXCEPT ![s] = "answered"]
    BY <1>3, Added
  <2>2. /\ DOMAIN old = 1 .. Len(old) /\ Len(old) \in Nat
        /\ DOMAIN new = 1 .. Len(old) + 1
        /\ \A i \in 1 .. Len(old) : new[i] = old[i]
        /\ new[Len(old) + 1] = s
    BY <2>1, AppendProperties, LenProperties
  <2>3. \A d \in Sends : at'[d] = "answered" <=> at[d] = "answered" \/ d = s
    BY <2>1 DEF TypeOK
  <2>4. \A q \in Talks : \A i \in DOMAIN talk[q].history : talk[q].history[i] # s
    <3>1. \A q \in Talks : \A i \in DOMAIN talk[q].history :
             talk[q].history[i] = s => at[s] = "answered"
      BY DEF WholeTurns
    <3> QED BY <2>1, <3>1
  <2>5. about'[s] = o
    BY <2>1, SentStays DEF Sent
  <2>6. ASSUME NEW q \in Talks, q # o
        PROVE  /\ \A i, j \in DOMAIN talk'[q].history :
                     talk'[q].history[i] = talk'[q].history[j] => i = j
               /\ \A d \in Sends : at'[d] = "answered" /\ about'[d] = q <=>
                     \E i \in DOMAIN talk'[q].history : talk'[q].history[i] = d
    <3>1. talk'[q].history = talk[q].history
      BY <1>3, <2>6, Added
    <3>2. \A d \in Sends : at'[d] = "answered" /\ about'[d] = q <=>
             at[d] = "answered" /\ about[d] = q
      BY <1>1, <2>1, <2>3, <2>5, <2>6
    <3> QED BY <3>1, <3>2 DEF WholeTurns
  <2>7. \A i, j \in DOMAIN new : new[i] = new[j] => i = j
    <3>1. \A i, j \in DOMAIN old : old[i] = old[j] => i = j
      BY <2>1 DEF WholeTurns
    <3>2. \A i \in DOMAIN old : old[i] # s
      BY <2>1, <2>4
    <3> HIDE DEF old, new, o
    <3> QED BY <2>2, <3>1, <3>2
  <2>8. ASSUME NEW d \in Sends
        PROVE  at'[d] = "answered" /\ about'[d] = o <=> \E i \in DOMAIN new : new[i] = d
    <3>1. at[d] = "answered" /\ about[d] = o <=> \E i \in DOMAIN old : old[i] = d
      BY <2>1 DEF WholeTurns
    <3>2. CASE d = s
      <4> HIDE DEF old, new, o
      <4> QED BY <2>2, <2>3, <2>5, <3>2
    <3>3. CASE d # s
      <4>1. at'[d] = "answered" /\ about'[d] = o <=> at[d] = "answered" /\ about[d] = o
        BY <1>1, <2>3, <3>3
      <4> HIDE DEF old, new, o
      <4>2. (\E i \in DOMAIN new : new[i] = d) <=> \E i \in DOMAIN old : old[i] = d
        BY <2>2, <3>3
      <4> QED BY <3>1, <4>1, <4>2
    <3> QED BY <3>2, <3>3
  <2> QED BY <2>6, <2>7, <2>8 DEF WholeTurns
<1> QED BY <1>2, <1>3

(* What a send in flight was given is still the end of its conversation's  *)
(* history, unless another send of its home was met.                       *)
LEMMA GivenKept ==
    ASSUME TypeOK, SentInv, PlaceInv, MetInv, GivenInv, TalkStep
    PROVE  GivenInv'
<1> SUFFICES ASSUME NEW s \in Sends, Flying(s)'
             PROVE  given'[s] = LastTurns(talk'[about'[s]].history) \/ MetAtHome(s)'
  BY Zenon DEF GivenInv, LastTurns
<1>1. ASSUME NEW h \in Homes, Send(s, h)
      PROVE  given'[s] = LastTurns(talk'[about'[s]].history)
  <2>1. /\ given' = [given EXCEPT ![s] = LastTurns(talk[found[h]].history)]
        /\ about' = [about EXCEPT ![s] = found[h]] /\ UNCHANGED talk
    BY <1>1 DEF Send
  <2> QED BY <2>1 DEF TypeOK
<1>2. CASE Flying(s)
  <2>1. Sent(s) /\ about[s] \in Talks
    BY <1>2 DEF Flying, InFlight, Sent, SentInv
  <2>2. about'[s] = about[s] /\ given'[s] = given[s] /\ (MetAtHome(s) => MetAtHome(s)')
    BY <2>1, SentStays, MetStays
  <2>3. ASSUME talk'[about[s]].history = talk[about[s]].history
        PROVE  given'[s] = LastTurns(talk'[about'[s]].history) \/ MetAtHome(s)'
    BY <1>2, <2>2, <2>3 DEF GivenInv
  <2>4. ASSUME NEW d \in Sends, Answer(d), about[d] = about[s] PROVE MetAtHome(s)'
    <3>1. d # s /\ Flying(d) /\ Sent(d)
      BY <2>4, EndingIsLeaving, LeavesPlaces DEF Leaves, Sent, Flying, InFlight
    <3>2. d \in met[s] /\ home[d] = home[s]
      BY <1>2, <2>1, <2>4, <3>1 DEF PlaceInv, MetInv
    <3> QED BY <2>2, <3>2 DEF MetAtHome
  <2>5. CASE ~ \E d \in Sends : Answer(d)
    BY <2>1, <2>3, <2>5, NotAdded
  <2>6. ASSUME NEW d \in Sends, Answer(d), about[d] # about[s]
        PROVE  talk'[about[s]].history = talk[about[s]].history
    BY <2>1, <2>6, Added
  <2> QED BY <2>3, <2>4, <2>5, <2>6
<1> QED BY <1>1, <1>2, FlyingStep

(* A turn follows the turns it was given, unless others were met. *)
LEMMA CoherentKept ==
    ASSUME TypeOK, SentInv, GivenInv, WholeTurns, CoherentInv, TalkStep
    PROVE  CoherentInv'
<1> SUFFICES ASSUME NEW q \in Talks, NEW p \in DOMAIN talk'[q].history, NEW s \in Sends,
                    talk'[q].history[p] = s
             PROVE  \/ given'[s] = LastTurns(SubSeq(talk'[q].history, 1, p - 1))
                    \/ MetAtHome(s)'
  BY Zenon DEF CoherentInv, LastTurns
<1> DEFINE old == talk[q].history
           new == talk'[q].history
<1>1. ASSUME p \in DOMAIN old, old[p] = s
      PROVE  given'[s] = LastTurns(SubSeq(old, 1, p - 1)) \/ MetAtHome(s)'
  <2>1. Sent(s)
    BY <1>1 DEF WholeTurns, Sent
  <2>2. given'[s] = given[s] /\ (MetAtHome(s) => MetAtHome(s)')
    BY <2>1, SentStays, MetStays
  <2> QED BY <1>1, <2>2 DEF CoherentInv
<1>2. CASE new = old
  BY <1>1, <1>2
<1>3. ASSUME NEW d \in Sends, Answer(d), q = about[d]
      PROVE  given'[s] = LastTurns(SubSeq(new, 1, p - 1)) \/ MetAtHome(s)'
  <2>1. old \in Seq(Sends) /\ new = Append(old, d) /\ at[d] = "running"
    BY <1>3, Added
  <2>2. /\ Len(old) \in Nat /\ DOMAIN old = 1 .. Len(old) /\ p \in 1 .. Len(old) + 1
        /\ \A i \in 1 .. Len(old) : new[i] = old[i]
        /\ new[Len(old) + 1] = d
    BY <2>1, AppendProperties, LenProperties
  <2>3. SubSeq(new, 1, p - 1) = SubSeq(old, 1, p - 1)
    BY <2>1, <2>2, BeforeAdded
  <2>4. CASE p \in 1 .. Len(old)
    <3>1. old[p] = s /\ p \in DOMAIN old
      BY <2>2, <2>4
    <3> HIDE DEF new, old
    <3> QED BY <1>1, <2>3, <3>1
  <2>5. CASE p = Len(old) + 1
    <3>1. SubSeq(old, 1, p - 1) = old
      <4>1. p - 1 = Len(old)
        BY <2>2, <2>5
      <4> QED BY <2>1, <4>1, SubSeqFull
    <3>2. d = s
      BY <2>2, <2>5
    <3>3. given'[s] = given[s] /\ (MetAtHome(s) => MetAtHome(s)')
      BY <2>1, <3>2, SentStays, MetStays DEF Sent
    <3>4. given[s] = LastTurns(old) \/ MetAtHome(s)
      BY <1>3, <2>1, <3>2 DEF GivenInv, Flying, InFlight
    <3> HIDE DEF new, old
    <3> QED BY <2>3, <3>1, <3>3, <3>4
  <2> QED BY <2>2, <2>4, <2>5
<1> QED BY <1>2, <1>3, Added, NotAdded

(* It is Coherent, of the sends that the history has. *)
LEMMA CoherentIs == TypeOK /\ CoherentInv => Coherent
<1> SUFFICES ASSUME TypeOK, CoherentInv, NEW q \in Talks, NEW p \in DOMAIN talk[q].history
             PROVE  LET s == talk[q].history[p] IN
                    \/ given[s] = LastTurns(SubSeq(talk[q].history, 1, p - 1))
                    \/ MetAtHome(s)
  BY DEF Coherent, MetAtHome
<1>1. talk[q].history \in Seq(Sends)
  BY DEF TypeOK
<1>2. talk[q].history[p] \in Sends
  BY <1>1
<1> QED BY <1>2 DEF CoherentInv

-----------------------------------------------------------------------------
(* The theorems.                                                           *)

Kept == TypeOK /\ CallInv /\ HistoryInv

(* The invariant holds at the start.                                       *)
LEMMA InitKept == Init => Kept /\ OwnServices
<1> SUFFICES ASSUME Init PROVE Kept /\ OwnServices
  OBVIOUS
<1> USE Distinct, SpacesAssumption DEF Init, SpacesInit, TalksInit
<1>1. SpacesTypeOK /\ OwnServices
  <2>1. dropped \in BOOLEAN
    BY Zenon
  <2> QED BY <2>1 DEF SpacesTypeOK, OwnServices, Present, WorkspaceStates, Runtimes
<1>2. talks \in 0 .. MaxTalks /\ counter \in [Runtimes -> Nat]
  OBVIOUS
<1>3. talk \in [Talks -> [state : TalkStates, history : Seq(Sends)]]
  BY DEF NewTalk, TalkStates
<1>4. TypeOK
  BY <1>1, <1>2, <1>3 DEF TypeOK
<1>5. CallInv
  BY DEF CallInv, SentInv, Sent, PlaceInv, MetInv, Flying, InFlight, ActiveInv, TokenInv
<1>6. HistoryInv
  <2>1. \A o \in Talks : talk[o].history = <<>> /\ DOMAIN talk[o].history = {}
    BY DEF NewTalk
  <2> QED BY <2>1 DEF HistoryInv, WholeTurns, GivenInv, CoherentInv, Flying, InFlight
<1> QED BY <1>1, <1>4, <1>5, <1>6 DEF Kept

(* Every step keeps the invariant.                                         *)
LEMMA StepKept ==
    ASSUME Kept, [Next]_vars
    PROVE  Kept'
<1>1. CASE TalkStep /\ UNCHANGED spaceVars
  <2>1. TypeOK'
    BY <1>1, TypeKept DEF Kept, CallInv
  <2>2. SentInv' /\ PlaceInv'
    BY <1>1, <2>1, PlaceKept DEF Kept, CallInv
  <2>3. MetInv' /\ ActiveInv' /\ TokenInv'
    BY <1>1, <2>2, MetKept, ActiveKept, TokenKept DEF Kept, CallInv
  <2>4. WholeTurns' /\ GivenInv' /\ CoherentInv'
    BY <1>1, WholeKept, GivenKept, CoherentKept DEF Kept, CallInv, HistoryInv
  <2> QED BY <2>1, <2>2, <2>3, <2>4 DEF Kept, CallInv, HistoryInv
<1>2. CASE (SpaceStep \/ UNCHANGED spaceVars) /\ UNCHANGED talkVars
  <2>1. SpacesTypeOK'
    BY <1>2, SpacesTypesKept DEF Kept, TypeOK
  <2>2. TypeOK'
    BY <1>2, <2>1 DEF Kept, TypeOK, talkVars
  <2>3. CallInv'
    BY <1>2 DEF Kept, CallInv, talkVars, SentInv, Sent, PlaceInv, MetInv, Flying,
       ActiveInv, TokenInv, MetAtHome, MetSameRun
  <2>4. HistoryInv'
    <3>1. WholeTurns'
      BY <1>2 DEF Kept, HistoryInv, talkVars, WholeTurns
    <3>2. GivenInv'
      BY <1>2 DEF Kept, HistoryInv, talkVars, GivenInv, Flying, LastTurns, MetAtHome
    <3>3. CoherentInv'
      <4>1. UNCHANGED <<talk, given, met, home>>
        BY <1>2 DEF talkVars
      <4>2. \A s \in Sends : MetAtHome(s)' <=> MetAtHome(s)
        BY <4>1 DEF MetAtHome
      <4>3. CoherentInv
        BY DEF Kept, HistoryInv
      <4>4. ASSUME NEW q \in Talks, NEW k \in DOMAIN talk[q].history, NEW s \in Sends,
                   talk[q].history[k] = s
            PROVE  given[s] = LastTurns(SubSeq(talk[q].history, 1, k - 1)) \/ MetAtHome(s)
        BY <4>3, <4>4, Zenon DEF CoherentInv
      <4> QED BY <4>1, <4>2, <4>4, Zenon DEF CoherentInv, LastTurns
    <3> QED BY <3>1, <3>2, <3>3 DEF HistoryInv
  <2> QED BY <2>2, <2>3, <2>4 DEF Kept
<1> QED BY <1>1, <1>2 DEF Next, vars

(* However a workspace's state is driven, the services of a workspace are  *)
(* its own, and the current one has them unless it was deleted through the *)
(* registry.                                                               *)
THEOREM ServicesAreOwn == Spec => []OwnServices
<1>1. Init => Kept /\ OwnServices
  BY InitKept
<1>2. Kept /\ OwnServices /\ [Next]_vars => (Kept /\ OwnServices)'
  <2> SUFFICES ASSUME Kept, OwnServices, [Next]_vars PROVE (Kept /\ OwnServices)'
    OBVIOUS
  <2>1. SpacesTypeOK /\ (SpaceStep \/ UNCHANGED spaceVars)
    BY DEF Next, vars, Kept, TypeOK
  <2> QED BY <2>1, SpacesKept, StepKept
<1> QED BY <1>1, <1>2, PTL DEF Spec

(* The inductive invariant of the sends. *)
THEOREM SendsKept == Spec => []Kept
<1>1. Init => Kept
  BY InitKept
<1>2. Kept /\ [Next]_vars => Kept'
  BY StepKept
<1> QED BY <1>1, <1>2, PTL DEF Spec

(* Every answered send is in its conversation's history once, behind the   *)
(* turns it was answered from unless it met another; nothing else is.      *)
THEOREM HistoriesSound == Spec => []TurnsSound
<1>1. Kept => TurnsSound
  BY CoherentIs DEF Kept, HistoryInv, TurnsSound
<1> QED BY <1>1, SendsKept, PTL

(* Whoever cancels a conversation finds the turn that runs in it, unless   *)
(* that turn met another of its home or of its run id.                     *)
THEOREM CancelFinds == Spec => []CancelReaches
<1>1. Kept => CancelReaches
  BY DEF Kept, CallInv, ActiveInv, TokenInv, CancelReaches, MetAtHome, MetSameRun,
     Flying, InFlight
<1> QED BY <1>1, SendsKept, PTL

(* A cancellation reaches nobody outside the home it was meant for, unless *)
(* a run of that home and his own had one id.                              *)
THEOREM CancelTouchesNoOther == Spec => CancelStaysHome
<1>1. Kept /\ [Next]_vars =>
         [\A h \in Homes : Cancel(h) =>
             \A s \in Sends : fired'[s] # fired[s] =>
                 home[s] = h \/ \E d \in met[s] : home[d] = h /\ turn[d] = turn[s]]_vars
  <2> SUFFICES ASSUME Kept, NEW h \in Homes, Cancel(h),
                      NEW s \in Sends, fired'[s] # fired[s]
               PROVE  home[s] = h \/ \E d \in met[s] : home[d] = h /\ turn[d] = turn[s]
    OBVIOUS
  <2>1. /\ active[h] # None /\ active[h] \in DOMAIN tokens /\ tokens[active[h]] = s
    BY DEF Cancel, Kept, TypeOK
  <2>2. at[s] = "running" /\ turn[s] = active[h]
    BY <2>1 DEF Kept, CallInv, TokenInv
  <2>3. PICK d \in Sends : Flying(d) /\ home[d] = h /\ turn[d] = active[h]
    BY <2>1 DEF Kept, CallInv, ActiveInv
  <2> QED BY <2>2, <2>3 DEF Kept, CallInv, MetInv, Flying, InFlight
<1> QED BY <1>1, SendsKept, PTL DEF Spec, CancelStaysHome

============================================================================
