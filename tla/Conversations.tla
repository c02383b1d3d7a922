--------------------------- MODULE Conversations ---------------------------
(***************************************************************************)
(* The conversation runtimes (sohbet) of the container and of the opened *)
(* workspaces, over the one agent dispatcher they share.                   *)
(*                                                                         *)
(* A send finds its conversation, marks its turn as the active one, may    *)
(* await the recall of memory, and then dispatches an agent run whose id   *)
(* is the turn's: the conversation's id and a number.  The numbers are     *)
(* those of the runtime, the ids those of its user, the dispatcher's       *)
(* table of tokens is everybody's.  Of the dispatch, what module Dispatch  *)
(* shows of a call is left: it registers its token when it begins, ends in *)
(* one of several ways, and takes out whatever its id then finds.          *)
(*                                                                         *)
(* A step runs to the next await.  A conversation deleted or archived      *)
(* while a turn runs is still what the turn's answer is added to: objects  *)
(* are kept apart from the ids that find them.                             *)
(***************************************************************************)
EXTENDS Workspaces, Sequences

CONSTANTS
    Names,          \* conversation ids
    MaxTalks,       \* bound on conversations created
    Sends,          \* calls of send
    Window,         \* max_turns: how much history a turn is given
    Recalls         \* whether a runtime is given a memory to recall from

Talks == 1 .. MaxTalks
Turns == Names \X Nat
Homes == Runtimes \X Names

ASSUME TalksAssumption ==
    /\ MaxTalks \in Nat /\ Window \in Nat /\ Recalls \in BOOLEAN
    /\ None \notin Sends \cup Turns

VARIABLES
    found,          \* the conversation each runtime finds under a name
    talks,          \* how many conversations have been created
    talk,           \* the state and history of each
    counter,        \* the next turn number of each runtime
    active,         \* the turn each home's cancel would cancel
    at,             \* where each send stands
    home,           \* the runtime and name it was sent to
    about,          \* the conversation it resolved
    turn,           \* its turn's id
    given,          \* the history it was given
    tokens,         \* the send whose token a run id finds
    fired,          \* whether its token is cancelled
    met             \* the sends of its home or run id that were in flight with it

talkVars == <<found, talks, talk, counter, active, at, home, about, turn, given,
              tokens, fired, met>>
vars == <<spaceVars, talkVars>>

TalkStates == {"OPEN", "SUSPENDED", "CLOSED", "ARCHIVED"}
NewTalk == [state |-> "OPEN", history |-> <<>>]
InFlight == {"recalling", "running"}
Flying(s) == at[s] \in InFlight

TalksInit ==
    /\ found = [h \in Homes |-> None]
    /\ talks = 0
    /\ talk = [o \in Talks |-> NewTalk]
    /\ counter = [r \in Runtimes |-> 0]
    /\ active = [h \in Homes |-> None]
    /\ at = [s \in Sends |-> "idle"]
    /\ home = [s \in Sends |-> None]
    /\ about = [s \in Sends |-> None]
    /\ turn = [s \in Sends |-> None]
    /\ given = [s \in Sends |-> <<>>]
    /\ tokens = [t \in {} |-> None]
    /\ fired = [s \in Sends |-> FALSE]
    /\ met = [s \in Sends |-> {}]

----------------------------------------------------------------------------
(* Conversations come and go.                                              *)

Begin(h) ==
    /\ h[1] <= built
    /\ found[h] = None
    /\ talks < MaxTalks
    /\ talks' = talks + 1
    /\ found' = [found EXCEPT ![h] = talks + 1]
    /\ UNCHANGED <<talk, counter, active, at, home, about, turn, given, tokens, fired,
                   met>>

(* Mutant: what was active under the name is forgotten with it.            *)
ForgetActive(h) ==
    /\ found[h] # None
    /\ found' = [found EXCEPT ![h] = None]
    /\ active' = [active EXCEPT ![h] = None]
    /\ UNCHANGED <<talks, talk, counter, at, home, about, turn, given, tokens, fired, met>>

Forget(h) ==
    /\ found[h] # None
    /\ found' = [found EXCEPT ![h] = None]
    /\ UNCHANGED <<talks, talk, counter, active, at, home, about, turn, given, tokens,
                   fired, met>>

(* suspend, resume, close, archive; the registry archives again.           *)
TalkMayBecome(from) ==
    CASE from = "OPEN" -> {"SUSPENDED", "CLOSED", "ARCHIVED"}
      [] from = "SUSPENDED" -> {"OPEN", "CLOSED", "ARCHIVED"}
      [] from = "CLOSED" -> {"ARCHIVED"}
      [] from = "ARCHIVED" -> {"ARCHIVED"}

Become(h, target) ==
    /\ found[h] # None
    /\ target \in TalkMayBecome(talk[found[h]].state)
    /\ talk' = [talk EXCEPT ![found[h]].state = target]
    /\ UNCHANGED <<found, talks, counter, active, at, home, about, turn, given, tokens,
                   fired, met>>

----------------------------------------------------------------------------
(* A turn.                                                                 *)

LastTurns(history) ==
    SubSeq(history, IF Len(history) > Window THEN Len(history) - Window + 1 ELSE 1,
           Len(history))

Meeting(h, t) == {d \in Sends : Flying(d) /\ (home[d] = h \/ turn[d] = t)}
Meet(s, others) ==
    [d \in Sends |-> CASE d = s -> others
                       [] d \in others -> met[d] \cup {s}
                       [] OTHER -> met[d]]

(* dispatch registers its token, over one of the same id. *)
Register(s, t) == tokens' = [k \in DOMAIN tokens \cup {t} |-> IF k = t THEN s ELSE tokens[k]]

Accepts(h) == found[h] # None /\ talk[found[h]].state = "OPEN"

(* send to the first await; with no memory that is the agent's run.        *)
Send(s, h) ==
    LET o == found[h]
        t == <<h[2], counter[h[1]]>>
    IN  /\ at[s] = "idle"
        /\ Accepts(h)
        /\ counter' = [counter EXCEPT ![h[1]] = @ + 1]
        /\ active' = [active EXCEPT ![h] = t]
        /\ home' = [home EXCEPT ![s] = h]
        /\ about' = [about EXCEPT ![s] = o]
        /\ turn' = [turn EXCEPT ![s] = t]
        /\ given' = [given EXCEPT ![s] = LastTurns(talk[o].history)]
        /\ at' = [at EXCEPT ![s] = IF Recalls THEN "recalling" ELSE "running"]
        /\ IF Recalls THEN UNCHANGED tokens ELSE Register(s, t)
        /\ met' = Meet(s, Meeting(h, t))
        /\ UNCHANGED <<found, talks, talk, fired>>

(* No conversation, or one that is not open. *)
Refuse(s, h) ==
    /\ at[s] = "idle" /\ h[1] <= built
    /\ ~ Accepts(h)
    /\ at' = [at EXCEPT ![s] = "refused"]
    /\ UNCHANGED <<found, talks, talk, counter, active, home, about, turn, given, tokens,
                   fired, met>>

Recalled(s) ==
    /\ at[s] = "recalling"
    /\ at' = [at EXCEPT ![s] = "running"]
    /\ Register(s, turn[s])
    /\ UNCHANGED <<found, talks, talk, counter, active, home, about, turn, given, fired,
                   met>>

(* Mutant: the turn stays the active one.                                  *)
LeaveStale(s, how) ==
    /\ at' = [at EXCEPT ![s] = how]
    /\ tokens' = IF at[s] = "running"
                 THEN [k \in DOMAIN tokens \ {turn[s]} |-> tokens[k]] ELSE tokens
    /\ UNCHANGED <<found, talks, counter, active, home, about, turn, given, fired, met>>

(* The two finally clauses: the home's active turn, whichever it is, and   *)
(* the token that the run's id finds, if the run was dispatched.           *)
Leave(s, how) ==
    /\ at' = [at EXCEPT ![s] = how]
    /\ active' = [active EXCEPT ![home[s]] = None]
    /\ tokens' = IF at[s] = "running"
                 THEN [k \in DOMAIN tokens \ {turn[s]} |-> tokens[k]] ELSE tokens
    /\ UNCHANGED <<found, talks, counter, home, about, turn, given, fired, met>>

(* Mutant: the conversation is looked up again, by its name.               *)
AnswerLookedUp(s) ==
    /\ at[s] = "running" /\ found[home[s]] # None
    /\ talk' = [talk EXCEPT ![found[home[s]]].history = Append(@, s)]
    /\ Leave(s, "answered")

(* The run's answer becomes a turn of the conversation, in whatever state  *)
(* the conversation is by now.                                             *)
Answer(s) ==
    /\ at[s] = "running"
    /\ talk' = [talk EXCEPT ![about[s]].history = Append(@, s)]
    /\ Leave(s, "answered")

(* The recall or the run fails, the run is cut off by its deadline, the    *)
(* answer is empty (which a Message may not be), or the caller is itself   *)
(* cancelled.                                                              *)
Fail(s) ==
    /\ Flying(s)
    /\ Leave(s, "failed")
    /\ UNCHANGED talk

(* Its token, or whatever took its place there, was cancelled in time. *)
Cancelled(s) ==
    /\ at[s] = "running" /\ fired[s]
    /\ Leave(s, "cancelled")
    /\ UNCHANGED talk

(* cancel of a home: by its active turn, whose run may not be registered   *)
(* yet, to the token that is found under that id.                          *)
Cancel(h) ==
    /\ active[h] # None
    /\ active[h] \in DOMAIN tokens
    /\ fired' = [fired EXCEPT ![tokens[active[h]]] = TRUE]
    /\ UNCHANGED <<found, talks, talk, counter, active, at, home, about, turn, given,
                   tokens, met>>

----------------------------------------------------------------------------
TalkStep ==
    \/ \E h \in Homes :
          \/ Begin(h) \/ Forget(h) \/ Cancel(h)
          \/ \E target \in TalkStates : Become(h, target)
          \/ \E s \in Sends : Send(s, h) \/ Refuse(s, h)
    \/ \E s \in Sends : Recalled(s) \/ Answer(s) \/ Fail(s) \/ Cancelled(s)

Next ==
    \/ SpaceStep /\ UNCHANGED talkVars
    \/ TalkStep /\ UNCHANGED spaceVars

Init == SpacesInit /\ TalksInit

Spec == Init /\ [][Next]_vars

----------------------------------------------------------------------------
(* What is expected of it.                                                 *)

(* Every variable keeps its type. *)
TypeOK ==
    /\ SpacesTypeOK
    /\ found \in [Homes -> Talks \cup {None}]
    /\ talks \in 0 .. MaxTalks
    /\ talk \in [Talks -> [state : TalkStates, history : Seq(Sends)]]
    /\ counter \in [Runtimes -> Nat]
    /\ active \in [Homes -> Turns \cup {None}]
    /\ at \in [Sends -> {"idle", "refused", "answered", "failed", "cancelled"} \cup InFlight]
    /\ home \in [Sends -> Homes \cup {None}]
    /\ about \in [Sends -> Talks \cup {None}]
    /\ turn \in [Sends -> Turns \cup {None}]
    /\ given \in [Sends -> Seq(Sends)]
    /\ DOMAIN tokens \subseteq Turns /\ \A t \in DOMAIN tokens : tokens[t] \in Sends
    /\ fired \in [Sends -> BOOLEAN]
    /\ met \in [Sends -> SUBSET Sends]

(* A history is the turns that were answered to their callers, each once,  *)
(* in the conversation it was sent to; no failed, refused or cancelled     *)
(* send has left a turn behind.                                            *)
WholeTurns ==
    \A o \in Talks :
        LET history == talk[o].history
        IN  /\ \A p, q \in DOMAIN history : history[p] = history[q] => p = q
            /\ \A s \in Sends :
                  at[s] = "answered" /\ about[s] = o <=> \E p \in DOMAIN history : history[p] = s

(* A turn follows, in its conversation, exactly the turns it was given,    *)
(* unless another send to that conversation was in flight with it.         *)
Coherent ==
    \A o \in Talks : \A p \in DOMAIN talk[o].history :
        LET s == talk[o].history[p]
        IN  \/ given[s] = LastTurns(SubSeq(talk[o].history, 1, p - 1))
            \/ \E d \in met[s] : home[d] = home[s]

(* A conversation's turns are sound: each answered send once, behind the   *)
(* turns it was answered from.                                             *)
TurnsSound == TypeOK /\ WholeTurns /\ Coherent

(* A dispatched turn is the one its conversation's cancel cancels, unless  *)
(* another send of that home or of that run id was in flight with it: the  *)
(* later takes its place, and whichever ends first removes both.           *)
CancelReaches ==
    \A s \in Sends : at[s] = "running" =>
        /\ active[home[s]] = turn[s] \/ \E d \in met[s] : home[d] = home[s]
        /\ \/ turn[s] \in DOMAIN tokens /\ tokens[turn[s]] = s
           \/ \E d \in met[s] : turn[d] = turn[s]

(* Cancelling a conversation's turn touches no other conversation, unless  *)
(* both had runs of one id in flight.                                      *)
CancelStaysHome ==
    [][\A h \in Homes : Cancel(h) =>
          \A s \in Sends : fired'[s] # fired[s] =>
              home[s] = h \/ \E d \in met[s] : home[d] = h /\ turn[d] = turn[s]]_vars

(* As the code says of an opened workspace: conversation isolation.        *)
ConversationIsolation ==
    [][\A h \in Homes : Cancel(h) =>
          \A s \in Sends : fired'[s] # fired[s] => home[s] = h]_vars
============================================================================
