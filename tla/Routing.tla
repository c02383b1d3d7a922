------------------------------ MODULE Routing ------------------------------
(***************************************************************************)
(* The router and its resilience loop (yonlendirme): requests that select  *)
(* a ranking of models from the catalogue, asking each one's provider for  *)
(* its health, and then stream an answer, going from one candidate to the  *)
(* next.  Requests run side by side and share the cooldowns.               *)
(*                                                                         *)
(* A step runs from one await to the next.  The answer is a generator: its *)
(* deadline runs on while the caller, between two chunks, does something   *)
(* else, and then it is the caller that the deadline cancels.              *)
(***************************************************************************)
EXTENDS Scoring, Providers, Sequences

CONSTANTS
    Models,         \* model ids: numbers, whose order is that of the ids
    Backends,       \* provider ids
    ServedBy,       \* each model's provider
    Adapter,        \* each provider's adapter
    Caps,           \* what each model declares
    Profile,        \* its measured quality and latency, or Null
    Requests,
    Asks,           \* the needs and cost modes a request may have
    Catalogues,     \* what the model cache may list
    MaxRetries,
    Cooldown,       \* for how long a rate limit keeps a provider out
    MaxTime,        \* bound on the clock
    Null

ASSUME RoutingAssumption ==
    /\ Models \subseteq Nat
    /\ ServedBy \in [Models -> Backends]
    /\ Adapter \in [Backends -> Adapters]
    /\ \A c \in Catalogues : c \subseteq Models
    /\ \A m \in Models : IsCapability(Caps[m])
    /\ \A a \in Asks : IsNeed(a.need) /\ a.mode \in CostModes
    /\ MaxRetries \in Nat /\ Cooldown \in Nat /\ MaxTime \in Nat
    /\ Null \notin Models \cup Nat

VARIABLES
    clock,
    cooldown,       \* until when each provider is left out
    at,             \* where each request stands
    ask,            \* its need and cost mode
    unscored,       \* the primary candidates whose health it has not asked
    scored,         \* those it has, with their gates and scores
    fallback,       \* the offline candidate, or Null
    ranked,         \* the models in the order they are tried
    place,          \* the one being tried
    attempt,        \* how often it was retried
    spoken,         \* whether this call has yielded a chunk
    tried,          \* the calls that have ended: place, attempt, how
    limited,        \* when each provider last limited a call
    shunned         \* who was within a cooldown when the request began

quota == <<clock, cooldown, limited>>
choice == <<ask, unscored, scored, fallback, shunned>>
call == <<place, attempt, spoken, tried>>
vars == <<quota, at, choice, ranked, call>>

Over == {"answered", "unroutable", "broken", "cut_off", "left"}
Stages == {"idle", "scoring", "falling_back", "decided", "opening", "reading", "taking"}
             \cup Over

IsCoolingDown(p) == clock < cooldown[p]
Current(r) == ranked[r][place[r]]
Backend(r) == ServedBy[Current(r)]

Init ==
    /\ clock = 0
    /\ cooldown = [p \in Backends |-> 0]
    /\ at = [r \in Requests |-> "idle"]
    /\ ask = [r \in Requests |-> Null]
    /\ unscored = [r \in Requests |-> {}]
    /\ scored = [r \in Requests |-> {}]
    /\ fallback = [r \in Requests |-> Null]
    /\ ranked = [r \in Requests |-> <<>>]
    /\ place = [r \in Requests |-> 0]
    /\ attempt = [r \in Requests |-> 0]
    /\ spoken = [r \in Requests |-> FALSE]
    /\ tried = [r \in Requests |-> <<>>]
    /\ limited = [p \in Backends |-> Null]
    /\ shunned = [r \in Requests |-> {}]

TimePasses ==
    /\ clock < MaxTime
    /\ clock' = clock + 1
    /\ UNCHANGED <<cooldown, limited, at, choice, ranked, call>>

----------------------------------------------------------------------------
(* select.                                                                 *)

Capable(catalogue, need) == {m \in catalogue : MatchesHard(Caps[m], need)}
Offline(m) == IsOfflineFallback(Adapter[ServedBy[m]])
Primaries(capable) == {m \in capable : ~ Offline(m) /\ ~ IsCoolingDown(ServedBy[m])}
FirstOffline(capable) ==
    {m \in capable : Offline(m) /\ \A k \in capable : Offline(k) => m <= k}

(* A measured profile replaces what the model declares. *)
Judged(m) ==
    IF Profile[m] = Null THEN Caps[m] ELSE [Caps[m] EXCEPT !.latency = Profile[m].latency]

Scored(r, m, health) ==
    LET gate == Gate(health, IsCoolingDown(ServedBy[m]))
        factors == Factors(Judged(m), ask[r].need)
        quality == IF Profile[m] = Null THEN factors.quality ELSE Profile[m].quality
        score == gate * ModelScore([factors EXCEPT !.quality = quality], ask[r].mode)
    IN  [model |-> m, gate |-> gate, health |-> HealthFactor(health), score |-> score,
         cost |-> factors.cost]

(* What is ranked: the primaries whose health is not 0. *)
Healthy(candidates) == {c \in candidates : c.health > 0}

Decide(r, candidates, offline) ==
    /\ at' = [at EXCEPT ![r] = "decided"]
    /\ IF Healthy(candidates) # {}
       THEN \E q \in Ranking(Healthy(candidates)) :
                ranked' = [ranked EXCEPT ![r] = [i \in DOMAIN q |-> q[i].model]]
       ELSE ranked' = [ranked EXCEPT ![r] = IF offline = Null THEN <<>> ELSE <<offline>>]

(* The primaries' healths are asked one by one, then the fallback's: its   *)
(* answer matters to no one.                                               *)
GoOnScoring(r, left, candidates, offline) ==
    /\ unscored' = [unscored EXCEPT ![r] = left]
    /\ scored' = [scored EXCEPT ![r] = candidates]
    /\ CASE left # {} -> at' = [at EXCEPT ![r] = "scoring"] /\ UNCHANGED ranked
         [] left = {} /\ offline # Null ->
                at' = [at EXCEPT ![r] = "falling_back"] /\ UNCHANGED ranked
         [] OTHER -> Decide(r, candidates, offline)

Select(r, a, catalogue) ==
    LET capable == Capable(catalogue, a.need)
        offline == IF FirstOffline(capable) = {} THEN Null
                   ELSE CHOOSE m \in FirstOffline(capable) : TRUE
    IN  /\ at[r] = "idle"
        /\ ask' = [ask EXCEPT ![r] = a]
        /\ fallback' = [fallback EXCEPT ![r] = offline]
        /\ GoOnScoring(r, Primaries(capable), {}, offline)
        /\ shunned' = [shunned EXCEPT ![r] =
                {p \in Backends : limited[p] # Null /\ clock < limited[p] + Cooldown}]
        /\ UNCHANGED <<quota, call>>

HealthAnswers(r) ==
    /\ at[r] = "scoring"
    /\ \E m \in unscored[r], reply \in Replies :
        /\ \A k \in unscored[r] : m <= k
        /\ GoOnScoring(r, unscored[r] \ {m},
                scored[r] \cup {Scored(r, m, Health(Adapter[ServedBy[m]], reply))},
                fallback[r])
    /\ UNCHANGED <<quota, ask, fallback, shunned, call>>

FallbackAnswers(r) ==
    /\ at[r] = "falling_back"
    /\ Decide(r, scored[r], fallback[r])
    /\ UNCHANGED <<quota, choice, call>>

----------------------------------------------------------------------------
(* execute_with_failover.                                                  *)

(* The call of a candidate, or the end of the list. *)
StartCall(r, i, n) ==
    IF i > Len(ranked[r])
    THEN /\ at' = [at EXCEPT ![r] = "unroutable"]
         /\ UNCHANGED <<place, attempt, spoken>>
    ELSE /\ at' = [at EXCEPT ![r] = "opening"]
         /\ place' = [place EXCEPT ![r] = i]
         /\ attempt' = [attempt EXCEPT ![r] = n]
         /\ spoken' = [spoken EXCEPT ![r] = FALSE]

(* select's own variables are gone when it has returned. *)
Execute(r) ==
    /\ at[r] = "decided"
    /\ StartCall(r, 1, 0)
    /\ ask' = [ask EXCEPT ![r] = Null]
    /\ scored' = [scored EXCEPT ![r] = {}]
    /\ fallback' = [fallback EXCEPT ![r] = Null]
    /\ UNCHANGED <<quota, unscored, shunned, ranked, tried>>

Note(r, how) ==
    tried' = [tried EXCEPT ![r] =
        Append(@, [place |-> place[r], attempt |-> attempt[r], how |-> how])]

(* Mutant: a call is retried even when it has already yielded. *)
RetriableAnyway(r, how) == how \in {"failed", "spoke"} /\ attempt[r] < MaxRetries

(* An AppError: retried if nothing was yielded and it is no rate limit, as *)
(* long as there are retries left; then the next candidate's turn.         *)
Retriable(r, how) == how = "failed" /\ attempt[r] < MaxRetries
FailsOver(r, how) ==
    /\ Note(r, how)
    /\ IF Retriable(r, how) THEN StartCall(r, place[r], attempt[r] + 1)
       ELSE StartCall(r, place[r] + 1, 0)
    /\ UNCHANGED <<choice, ranked>>

(* Mutant: the rate limit is not remembered. *)
EnterNoCooldown(p) ==
    /\ limited' = [limited EXCEPT ![p] = clock]
    /\ UNCHANGED <<clock, cooldown>>

EnterCooldown(p) ==
    /\ cooldown' = [cooldown EXCEPT ![p] = clock + Cooldown]
    /\ limited' = [limited EXCEPT ![p] = clock]
    /\ UNCHANGED clock

Ends(r, how, end) ==
    /\ Note(r, how)
    /\ at' = [at EXCEPT ![r] = end]
    /\ UNCHANGED <<quota, choice, ranked, place, attempt, spoken>>

(* The provider's reply to the call. *)
Opens(r) ==
    /\ at[r] = "opening"
    /\ at' = [at EXCEPT ![r] = "reading"]
    /\ UNCHANGED <<quota, choice, ranked, call>>

Refuses(r) ==
    /\ at[r] = "opening"
    /\ \E reply \in Replies \ {"200"} :
        LET how == Refusal(Adapter[Backend(r)], reply)
        IN  \/ how = "rate_limited" /\ FailsOver(r, "limited") /\ EnterCooldown(Backend(r))
            \/ how = "http_error" /\ FailsOver(r, "failed") /\ UNCHANGED quota
            \/ how = "foreign" /\ Ends(r, "foreign", "broken")

(* A line of the answer. *)
Reads(r) ==
    /\ at[r] = "reading"
    /\ \E line \in Lines :
        LET what == Parsed(Adapter[Backend(r)], line)
        IN  \/ /\ what = "chunk"
               /\ at' = [at EXCEPT ![r] = "taking"]
               /\ spoken' = [spoken EXCEPT ![r] = TRUE]
               /\ UNCHANGED <<quota, choice, ranked, place, attempt, tried>>
            \/ what = "none" /\ UNCHANGED vars
            \/ what = "foreign" /\ Ends(r, "foreign", "broken")

Finishes(r) ==
    /\ at[r] = "reading"
    /\ Ends(r, "whole", "answered")

(* The caller comes back for the next chunk. *)
Takes(r) ==
    /\ at[r] = "taking"
    /\ at' = [at EXCEPT ![r] = "reading"]
    /\ UNCHANGED <<quota, choice, ranked, call>>

(* Mutant: the deadline covers the wait for the reply only. *)
DeadlineForReply(r) ==
    /\ at[r] = "opening"
    /\ FailsOver(r, "failed")
    /\ UNCHANGED quota

(* The deadline of a call: it is the generator's own timeout while the     *)
(* generator waits, and the cancellation of its caller while that one has  *)
(* the chunk.                                                              *)
Deadline(r) ==
    \/ /\ at[r] \in {"opening", "reading"}
       /\ FailsOver(r, IF spoken[r] THEN "spoke" ELSE "failed")
       /\ UNCHANGED quota
    \/ /\ at[r] = "taking"
       /\ Ends(r, "spoke", "cut_off")

(* The caller is cancelled, or leaves with the answer half taken. *)
Leaves(r) ==
    /\ at[r] \in {"scoring", "falling_back", "opening", "reading", "taking"}
    /\ at' = [at EXCEPT ![r] = "left"]
    /\ UNCHANGED <<quota, choice, ranked, call>>

Step(r) ==
    \/ \E a \in Asks, catalogue \in Catalogues : Select(r, a, catalogue)
    \/ HealthAnswers(r) \/ FallbackAnswers(r) \/ Execute(r) \/ Opens(r) \/ Refuses(r)
    \/ Reads(r) \/ Finishes(r) \/ Takes(r) \/ Deadline(r) \/ Leaves(r)

Next == TimePasses \/ \E r \in Requests : Step(r)

(* The health request and the call have their timeouts; what is ready runs.*)
Fairness ==
    \A r \in Requests :
        WF_vars(HealthAnswers(r) \/ FallbackAnswers(r) \/ Execute(r) \/ Deadline(r))

Spec == Init /\ [][Next]_vars /\ Fairness

----------------------------------------------------------------------------
(* What is expected of it.                                                 *)

Hows == {"failed", "limited", "spoke", "foreign", "whole"}
Asking == {"opening", "reading", "taking"}

(* Every variable keeps its type. *)
TypeOK ==
    /\ clock \in 0 .. MaxTime
    /\ cooldown \in [Backends -> Nat]
    /\ limited \in [Backends -> 0 .. MaxTime \cup {Null}]
    /\ at \in [Requests -> Stages]
    /\ ask \in [Requests -> Asks \cup {Null}]
    /\ unscored \in [Requests -> SUBSET Models]
    /\ DOMAIN scored = Requests
    /\ \A r \in Requests : \A c \in scored[r] : c.model \in Models
    /\ fallback \in [Requests -> Models \cup {Null}]
    /\ ranked \in [Requests -> Seq(Models)]
    /\ place \in [Requests -> Nat] /\ attempt \in [Requests -> 0 .. MaxRetries]
    /\ spoken \in [Requests -> BOOLEAN]
    /\ tried \in [Requests -> Seq([place : Nat, attempt : 0 .. MaxRetries, how : Hows])]
    /\ shunned \in [Requests -> SUBSET Backends]

Lost(t) == t.how \in {"limited", "spoke"} \/ (t.how = "failed" /\ t.attempt = MaxRetries)
Follows(t, u) ==
    \/ t.how = "failed" /\ u.place = t.place /\ u.attempt = t.attempt + 1
    \/ Lost(t) /\ u.place = t.place + 1 /\ u.attempt = 0

(* A request works through its ranking: each candidate in its turn, again  *)
(* only after a failure that gave nothing and never more than allowed, and *)
(* it is given up only when the last has had all of its attempts; no       *)
(* candidate that has yielded or has limited is asked again.               *)
WorksThrough ==
    \A r \in Requests :
        LET q == tried[r]
        IN  /\ q # <<>> => q[1].place = 1 /\ q[1].attempt = 0
            /\ \A i \in DOMAIN q : i > 1 => Follows(q[i - 1], q[i])
            /\ at[r] = "unroutable" =>
                  IF q = <<>> THEN ranked[r] = <<>>
                  ELSE Lost(q[Len(q)]) /\ q[Len(q)].place = Len(ranked[r])
            /\ at[r] = "answered" => q # <<>> /\ q[Len(q)].how = "whole"

(* A provider that limited some request's call is not asked by a request   *)
(* that begins before its cooldown has passed, however long that request   *)
(* lasts and whatever fails: unless it is the fallback.                    *)
HonoursCooldown ==
    \A r \in Requests : \A i \in DOMAIN ranked[r] :
        ServedBy[ranked[r][i]] \in shunned[r] => Offline(ranked[r][i])

(* What makes one model better than another for a task, and is known.      *)
Better(b, a) ==
    /\ \A d \in ExactDims : Caps[b][d] = Caps[a][d]
    /\ \A d \in OrdinalDims \cup SizeDims \cup {"cost"} : Caps[b][d] >= Caps[a][d]
    /\ Caps[b].reasoning > Caps[a].reasoning
    /\ Profile[a] = Null /\ Profile[b] = Null

(* A model is never tried before one that is better in all that is         *)
(* declared, under any need and mode, unless its provider's gate was wider *)
(* when it was asked.                                                      *)
BestFirst ==
    \A r \in Requests : \A i, j \in DOMAIN ranked[r] :
        i < j /\ Better(ranked[r][j], ranked[r][i]) =>
            \A a, b \in scored[r] :
                a.model = ranked[r][i] /\ b.model = ranked[r][j] /\ a.gate > 0 =>
                    b.gate < a.gate

(* The ranking is worth its order: nobody cooling down is in it, and the   *)
(* better model comes first.                                               *)
OrderHeld == TypeOK /\ HonoursCooldown /\ BestFirst

(* Every request that has begun ends, whatever the providers do or do not: *)
(* again and again none is under way.                                      *)
RequestsEnd == []<>(\A r \in Requests : at[r] \in Over \cup {"idle"})

(* As the loop's documentation has it, no failover once an answer has      *)
(* begun: an answer is of one candidate.                                   *)
OneVoice ==
    \A r \in Requests : at[r] = "answered" =>
        \A i \in DOMAIN tried[r] : tried[r][i].how # "spoke"
============================================================================
