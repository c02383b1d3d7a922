------------------------------ MODULE Scoring ------------------------------
(***************************************************************************)
(* How a model is judged (yonlendirme/capability, scoring, benchmark): the *)
(* hard filter, the soft fit, the weighted model score, the provider's     *)
(* gate, and the order the candidates are put in.  The code's fractions    *)
(* are kept exact as multiples of 1/Unit.                                  *)
(***************************************************************************)
EXTENDS Integers, FiniteSets

CONSTANTS
    Unit            \* what 1.0 is: a multiple of every denominator that occurs

ASSUME UnitAssumption == Unit \in Nat \ {0} /\ Unit % 18 = 0

Levels == [reasoning |-> 3, code |-> 3, tools |-> 2, turkish |-> 2, latency |-> 2, cost |-> 3]

(* What a model declares: its role, the ordinal levels, the sizes in       *)
(* multiples of the default window, and what it has or has not.            *)
ExactDims == {"role", "vision", "streaming"}
OrdinalDims == {"reasoning", "code", "tools", "turkish", "latency"}
SizeDims == {"window", "output"}
NeedDims == ExactDims \cup OrdinalDims \cup SizeDims

(* The seed of a model nobody has curated. *)
DefaultSeed ==
    [role |-> "chat", reasoning |-> 1, code |-> 1, window |-> 2, tools |-> 0,
     vision |-> FALSE, turkish |-> 1, latency |-> 1, cost |-> 1, output |-> 1,
     streaming |-> TRUE]

IsCapability(caps) == \A d \in OrdinalDims \cup SizeDims \cup {"cost"} : caps[d] \in Nat

(* A need maps the dimensions a task cares about to a value and whether it *)
(* is hard.                                                                *)
IsNeed(need) ==
    /\ DOMAIN need \subseteq NeedDims
    /\ \A d \in DOMAIN need : d \notin ExactDims => need[d].value \in Nat

Satisfies(dim, required, offered) ==
    IF dim \in ExactDims THEN offered = required ELSE offered >= required

MatchesHard(caps, need) ==
    \A d \in DOMAIN need : need[d].hard => Satisfies(d, need[d].value, caps[d])

Capped(x) == IF x > Unit THEN Unit ELSE x

Fit(dim, required, offered) ==
    CASE dim \in ExactDims -> IF offered = required THEN Unit ELSE 0
      [] dim \notin ExactDims /\ required > 0 -> Capped((Unit * offered) \div required)
      [] OTHER -> Unit

SoftDims(need) == {d \in DOMAIN need : ~ need[d].hard}

(* The mean over the dimensions that are asked for and not hard. *)
SoftPart(d, caps, need) ==
    IF d \in SoftDims(need) THEN Fit(d, need[d].value, caps[d]) ELSE 0
SoftSum(caps, need) ==
    LET part(d) == SoftPart(d, caps, need)
    IN  part("role") + part("reasoning") + part("code") + part("window") + part("tools")
          + part("vision") + part("turkish") + part("latency") + part("output")
          + part("streaming")
SoftFit(caps, need) ==
    IF SoftDims(need) = {} THEN Unit
    ELSE SoftSum(caps, need) \div Cardinality(SoftDims(need))

Fraction(caps, dim) == (Unit * caps[dim]) \div Levels[dim]

SeedQuality(caps) ==
    (Fraction(caps, "reasoning") + Fraction(caps, "code") + Fraction(caps, "turkish")) \div 3

ContextFit(caps, need) ==
    IF "window" \in DOMAIN need /\ need["window"].value > 0
    THEN Capped((Unit * caps.window) \div need["window"].value) ELSE Unit

Factors(caps, need) ==
    [fit |-> SoftFit(caps, need), quality |-> SeedQuality(caps),
     turkish |-> Fraction(caps, "turkish"), latency |-> Fraction(caps, "latency"),
     cost |-> Fraction(caps, "cost"), context |-> ContextFit(caps, need)]

CostModes == {"performance", "balanced", "economy"}

(* In tenths. *)
Weights(mode) ==
    CASE mode = "performance" ->
            [fit |-> 10, quality |-> 10, turkish |-> 10, latency |-> 10, cost |-> 1,
             context |-> 5]
      [] mode = "balanced" ->
            [fit |-> 10, quality |-> 10, turkish |-> 10, latency |-> 10, cost |-> 10,
             context |-> 10]
      [] mode = "economy" ->
            [fit |-> 10, quality |-> 5, turkish |-> 5, latency |-> 5, cost |-> 10,
             context |-> 5]

(* The weighted sum: the division by the weights' sum is the same for all. *)
ModelScore(factors, mode) ==
    LET w == Weights(mode)
    IN  w.fit * factors.fit + w.quality * factors.quality + w.turkish * factors.turkish
          + w.latency * factors.latency + w.cost * factors.cost
          + w.context * factors.context

(* Twice the provider's factor: its health, its cooldown.  Its headroom    *)
(* and reliability are 1: nothing records usage or measures success.       *)
HealthFactor(health) ==
    CASE health = "up" -> 2 [] health = "degraded" -> 1 [] OTHER -> 0
Gate(health, cooling) == IF cooling THEN 0 ELSE HealthFactor(health)

(* The order: the higher score, then the cheaper, then the lesser id.      *)
Before(a, b) ==
    \/ a.score > b.score
    \/ a.score = b.score /\ a.cost > b.cost
    \/ a.score = b.score /\ a.cost = b.cost /\ a.model < b.model

Ranking(S) ==
    {q \in [1 .. Cardinality(S) -> S] :
        \A i, j \in DOMAIN q : i < j => Before(q[i], q[j])}
============================================================================
