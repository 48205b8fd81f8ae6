----------------------------- MODULE Governance -----------------------------
(***************************************************************************)
(* A governance session, from the assessment of a change to its rooms      *)
(* (governance/*.rs): the change is scored, a session composed for its     *)
(* tier, the composition checked, and its rooms opened as soon as the      *)
(* mission's budget allows.  The functions are called by whoever opens the *)
(* session, in this order; between two calls any field of the composition  *)
(* may be edited (they are public, and nothing is checked again), the      *)
(* mission's sessions spend, and a short budget is topped up.  Scores and  *)
(* thresholds are f32, modelled in hundredths.                             *)
(***************************************************************************)
EXTENDS Scaling, Sequences, FiniteSets

CONSTANTS
    Configs,        \* GovernanceConfigs
    Scores,         \* weighted sums of the six factors
    Involved,       \* sequences of involved projects
    Bases,          \* budgets of the base canvas
    Totals,         \* MissionBudget::total_tokens
    Rosters,        \* sequences of addresses an edit may seat
    Envelopes,      \* BudgetEnvelopes an edit may set
    Tokens,         \* what is spent or granted at a time
    MaxMoves        \* bound: edits, payments and grants together

Tier == {"Low", "Medium", "High", "Critical"}

\* A factor or a weight may be NaN, and so is the sum then; a threshold is read
\* from the YAML as it is, ".nan" too.
NaN == -1
Float == Nat \cup {NaN}

Config == [medium : Float, high : Float, critical : Float, minimum : [Tier -> Word],
           cap : Word, counterCap : Word]

Request == [score : Float, irreversible : BOOLEAN, orgWide : BOOLEAN]

Envelope == [recommended : Word, minimum : Word]

ASSUME ConfigsAssumption == Configs \subseteq Config
ASSUME ScoresAssumption == Scores \subseteq Nat
ASSUME InvolvedAssumption == Involved \subseteq Seq(STRING)
ASSUME EditsAssumption == Envelopes \subseteq Envelope
ASSUME BasesAssumption == Bases \subseteq CanvasBudget
ASSUME BudgetsAssumption ==
    Totals \subseteq Nat /\ Tokens \subseteq Nat /\ MaxMoves \in Nat

VARIABLES
    pc,             \* assess, compose, check, init, pending, active, refused, panicked
    config,
    request,        \* RiskFactors: their weighted sum and the two floors
    projects,       \* involved_projects
    tier,           \* RiskScore::tier
    composition,    \* SessionComposition
    budget,         \* MissionBudget: deployable and deployable_spent
    shortfall,      \* of PendingBudget
    rooms           \* GovernanceRoomSet: the open rooms by name

\* History variables.
VARIABLES
    granted,        \* tokens granted since the shortfall was computed
    claimed,        \* tokens sessions spent since then, or before if too many, and
                    \* what edits have raised the minimum by
    edited,         \* fields of the composition edited before it was checked
    late,           \* and after
    moves           \* how many moves have been made

historyVars == <<granted, claimed, edited, late, moves>>
vars == <<pc, config, request, projects, tier, composition, budget, shortfall,
          rooms, historyVars>>
-----------------------------------------------------------------------------
(* Risk. *)

\* f32::max: NaN loses on either side.
Raised(score, floor) ==
    CASE score = NaN -> floor
      [] score # NaN /\ floor = NaN -> score
      [] score # NaN /\ floor # NaN -> Larger(score, floor)

\* ">=" does not hold of a NaN.
Reaches(score, threshold) == score # NaN /\ threshold # NaN /\ score >= threshold

\* Mutant: the floor takes the place of the score.
FlooredOnly(c, r) ==
    CASE r.orgWide -> c.critical
      [] ~r.orgWide /\ r.irreversible -> c.high
      [] OTHER -> r.score

\* Hard floor overrides.
Floored(c, r) ==
    CASE r.orgWide -> Raised(r.score, c.critical)
      [] ~r.orgWide /\ r.irreversible -> Raised(r.score, c.high)
      [] OTHER -> r.score

\* Mutant: the floors are not applied.
TierOfScore(c, r) ==
    CASE Reaches(r.score, c.critical) -> "Critical"
      [] ~Reaches(r.score, c.critical) /\ Reaches(r.score, c.high) -> "High"
      [] ~Reaches(r.score, c.critical) /\ ~Reaches(r.score, c.high)
           /\ Reaches(r.score, c.medium) -> "Medium"
      [] OTHER -> "Low"

\* compute_risk_score: the highest threshold that is reached.
TierOf(c, r) ==
    LET s == Floored(c, r)
    IN  CASE Reaches(s, c.critical) -> "Critical"
          [] ~Reaches(s, c.critical) /\ Reaches(s, c.high) -> "High"
          [] ~Reaches(s, c.critical) /\ ~Reaches(s, c.high) /\ Reaches(s, c.medium)
               -> "Medium"
          [] OTHER -> "Low"
-----------------------------------------------------------------------------
(* Composition. *)

stance_slots(t) ==
    CASE t = "Low" -> <<"realist", "realist", "moderator">>
      [] t = "Medium" -> <<"realist", "adversarial", "builder", "moderator">>
      [] t = "High" -> <<"adversarial", "adversarial", "realist", "moderator">>
      [] t = "Critical" -> <<"adversarial", "adversarial", "realist", "builder",
                             "dreamer", "moderator">>

Contested(t) == t \in {"High", "Critical"}

\* An address "project+stance", or "stances/stance" with the project "stances".
Address(project, stance) == [project |-> project, stance |-> stance]

\* Projects fill the slots other than the moderator's, in order.
resolve_address(slots, i, ids) ==
    LET k == Cardinality({j \in 1 .. i : slots[j] # "moderator"})
    IN  IF slots[i] = "moderator" \/ k > Len(ids)
        THEN Address("stances", slots[i])
        ELSE Address(ids[k], slots[i])

Primary(t, ids) ==
    [i \in DOMAIN stance_slots(t) |-> resolve_address(stance_slots(t), i, ids)]

\* counter_stances: generic ones.  An Option is the set of what it holds: a
\* counter-session that seats nobody is {<<>>}, not the {} of a missing one.
GenericCounter == <<Address("stances", "builder"), Address("stances", "dreamer")>>

Counter(t) == IF Contested(t) THEN {GenericCounter} ELSE {}

\* Mutant: a session is given twice its minimum, whatever the cap.
Uncapped(c, t) == (2 * c.minimum[t]) % U32

\* min_tokens * 2 wraps around in a release build.
Recommended(c, t) == Lesser(c.cap, (2 * c.minimum[t]) % U32)

NoComposition ==
    [tier |-> "none", primary |-> <<>>, counter |-> {}, recommended |-> 0,
     minimum |-> 0, override |-> FALSE]

\* compose_session
Composed ==
    [tier |-> tier, primary |-> Primary(tier, projects), counter |-> Counter(tier),
     recommended |-> Recommended(config, tier), minimum |-> config.minimum[tier],
     override |-> FALSE]

\* check_constitution: whether there is a counter-session, not whom it seats.
Violated == Contested(composition.tier) /\ composition.counter = {}
-----------------------------------------------------------------------------
(* Rooms. *)

DeployableRemaining ==
    IF budget.spent <= budget.deployable THEN budget.deployable - budget.spent ELSE 0

\* MissionBudget::new
NewBudget(total) == [deployable |-> total - total \div 5, spent |-> 0]

\* address_to_participant: the persona is the stance.
Participant(address) == [persona |-> address.stance, domain |-> address]

\* The caller's own moderator is told by its domain alone.
Overridden == Address("override", "")

\* Mutant: the override is not applied.
UnoverriddenSeats ==
    [i \in DOMAIN composition.primary |-> Participant(composition.primary[i])]

\* The override reaches every moderator of the primary room.
PrimarySeats ==
    [i \in DOMAIN composition.primary |->
       LET p == Participant(composition.primary[i])
       IN  IF composition.override /\ p.persona = "moderator"
           THEN [p EXCEPT !.domain = Overridden] ELSE p]

CounterSeats(roster) == [i \in DOMAIN roster |-> Participant(roster[i])]

\* The room sets that may open over a base canvas; both rooms scale the base.
RoomSets(base) ==
    {[primary |-> [seats |-> PrimarySeats, budget |-> p],
      counter |-> {[seats |-> CounterSeats(c), budget |-> q] : c \in composition.counter}] :
        p \in Scaled(base, composition.recommended),
        q \in Scaled(base, config.counterCap)}

NoRooms == <<>>
-----------------------------------------------------------------------------
Init ==
    /\ pc = "assess"
    /\ config \in Configs
    /\ request \in [score : Scores \cup {NaN}, irreversible : BOOLEAN, orgWide : BOOLEAN]
    /\ projects \in Involved
    /\ tier = "Low" /\ composition = NoComposition
    /\ \E total \in Totals : budget = NewBudget(total)
    /\ shortfall = 0 /\ rooms = NoRooms
    /\ granted = 0 /\ claimed = 0 /\ edited = {} /\ late = {} /\ moves = 0

Assess ==
    /\ pc = "assess"
    /\ tier' = TierOf(config, request)
    /\ pc' = "compose"
    /\ UNCHANGED <<config, request, projects, composition, budget, shortfall, rooms,
                   historyVars>>

Compose ==
    /\ pc = "compose"
    /\ composition' = Composed
    /\ pc' = "check"
    /\ UNCHANGED <<config, request, projects, tier, budget, shortfall, rooms, historyVars>>

\* The overflow panics in a debug build.
ComposePanics ==
    /\ pc = "compose"
    /\ 2 * config.minimum[tier] >= U32
    /\ pc' = "panicked"
    /\ UNCHANGED <<config, request, projects, tier, composition, budget, shortfall,
                   rooms, historyVars>>

CheckConstitution ==
    /\ pc = "check"
    /\ pc' = IF Violated THEN "refused" ELSE "init"
    /\ UNCHANGED <<config, request, projects, tier, composition, budget, shortfall,
                   rooms, historyVars>>

Missing == composition.minimum - DeployableRemaining

\* Mutant: rooms open on any budget.
OpenRoomsUnfunded ==
    /\ pc \in {"init", "pending"}
    /\ \E base \in Bases : rooms' \in RoomSets(base)
    /\ pc' = "active"
    /\ UNCHANGED <<config, request, projects, tier, composition, budget, shortfall,
                   historyVars>>

\* init_governance_state, once or again after a top-up.
OpenRooms ==
    /\ pc \in {"init", "pending"}
    /\ DeployableRemaining >= composition.minimum
    /\ \E base \in Bases : rooms' \in RoomSets(base)
    /\ pc' = "active"
    /\ UNCHANGED <<config, request, projects, tier, composition, budget, shortfall,
                   historyVars>>

AwaitBudget ==
    /\ pc \in {"init", "pending"}
    /\ DeployableRemaining < composition.minimum
    /\ shortfall' = Missing
    /\ granted' = 0 /\ claimed' = Larger(budget.spent - budget.deployable, 0)
    /\ pc' = "pending"
    /\ UNCHANGED <<config, request, projects, tier, composition, budget, rooms,
                   edited, late, moves>>
-----------------------------------------------------------------------------
(* The caller and the mission's sessions. *)

Move ==
    /\ moves < MaxMoves
    /\ moves' = moves + 1
    /\ UNCHANGED <<pc, config, request, projects, tier, shortfall, rooms>>

Assigned(field) ==
    /\ edited' = edited \cup (IF pc = "check" THEN {field} ELSE {})
    /\ late' = late \cup (IF pc = "check" THEN {} ELSE {field})

EditOverride ==
    \E set \in BOOLEAN : composition' = [composition EXCEPT !.override = set]

EditTier == \E t \in Tier : composition' = [composition EXCEPT !.tier = t]

EditPrimary == \E r \in Rosters : composition' = [composition EXCEPT !.primary = r]

EditCounter ==
    \E c \in {{}} \cup {{r} : r \in Rosters} :
        composition' = [composition EXCEPT !.counter = c]

\* A minimum that is raised is to be made up for like tokens that are spent.
EditBudget ==
    \E e \in Envelopes :
        /\ composition' = [composition EXCEPT !.recommended = e.recommended,
                                              !.minimum = e.minimum]
        /\ claimed' = claimed + e.minimum - composition.minimum

Edit ==
    /\ pc \in {"check", "init", "pending"}
    /\ Move
    /\ \/ EditOverride /\ Assigned("override") /\ UNCHANGED claimed
       \/ EditTier /\ Assigned("tier") /\ UNCHANGED claimed
       \/ EditPrimary /\ Assigned("primary") /\ UNCHANGED claimed
       \/ EditCounter /\ Assigned("counter") /\ UNCHANGED claimed
       \/ EditBudget /\ Assigned("budget")
    /\ UNCHANGED <<budget, granted>>

Spend(n) ==
    /\ pc \in {"init", "pending"}
    /\ Move
    /\ budget' = [budget EXCEPT !.spent = @ + n]
    /\ claimed' = claimed + n
    /\ UNCHANGED <<composition, granted, edited, late>>

Grant(n) ==
    /\ pc = "pending"
    /\ Move
    /\ budget' = [budget EXCEPT !.deployable = @ + n]
    /\ granted' = granted + n
    /\ UNCHANGED <<composition, claimed, edited, late>>

Finished == pc \in {"active", "refused", "panicked"} /\ UNCHANGED vars

Next ==
    \/ Assess \/ Compose \/ ComposePanics \/ CheckConstitution
    \/ OpenRooms \/ AwaitBudget
    \/ Edit
    \/ \E n \in Tokens : Spend(n) \/ Grant(n)
    \/ Finished

Spec == Init /\ [][Next]_vars
-----------------------------------------------------------------------------
(* Properties. *)

Budgets == [deployable : Nat, spent : Nat]

Fields == {"override", "tier", "primary", "counter", "budget"}

OpenRoomSet == {rooms.primary} \cup rooms.counter

\* Every variable holds a value of its type.
TypeOK ==
    /\ pc \in {"assess", "compose", "check", "init", "pending", "active",
               "refused", "panicked"}
    /\ config \in Configs /\ request \in Request
    /\ tier \in Tier
    /\ composition.recommended \in Word /\ composition.minimum \in Word
    /\ budget \in Budgets
    /\ shortfall \in Word
    /\ pc = "active" => \A r \in OpenRoomSet : r.budget \in CanvasBudget
    /\ granted \in Nat /\ claimed \in Int /\ moves \in 0 .. MaxMoves
    /\ edited \subseteq Fields /\ late \subseteq Fields

Untouched(field) == field \notin edited \cup late

Personas(seats) == {seats[i].persona : i \in DOMAIN seats}

\* A change that is org-wide or cannot be taken back, whatever its score, also
\* one that is NaN, is decided with a counter room of a builder and a dreamer,
\* and an org-wide one by all five stances.  This takes a threshold that is not
\* NaN for the floor.  A tier lowered before the check lifts it, and a
\* counter-session struck out after the check is not missed (before the check it
\* is, though one that seats nobody is not); later edits of the tier change
\* nothing.
FloorApplies == IF request.orgWide THEN config.critical # NaN
                ELSE request.irreversible /\ config.high # NaN

FloorsReachRooms ==
    pc = "active" /\ FloorApplies =>
        /\ "tier" \notin edited /\ "counter" \notin late => rooms.counter # {}
        /\ Untouched("tier") /\ Untouched("counter") =>
             {Personas(r.seats) : r \in rooms.counter} = {{"builder", "dreamer"}}
        /\ request.orgWide /\ Untouched("primary") =>
             Personas(rooms.primary.seats)
               = {"adversarial", "realist", "builder", "dreamer", "moderator"}

Rank == [Low |-> 1, Medium |-> 2, High |-> 3, Critical |-> 4]

AtLeastAsSevere(r, q) ==
    /\ q.score # NaN /\ r.score # NaN => q.score <= r.score
    /\ r.score = NaN => q.score = NaN
    /\ q.irreversible => r.irreversible
    /\ q.orgWide => r.orgWide

\* The one way down: where the critical threshold is NaN, a change that cannot be
\* taken back loses its floor by being org-wide as well.
FloorLost(r, q) ==
    config.critical = NaN /\ q.irreversible /\ ~q.orgWide /\ r.orgWide

\* A change that is in no respect less severe never gets a lower tier, whatever
\* the thresholds, ordered or not, NaN or not, but for the floor that is lost to
\* a critical threshold that is NaN.
RiskMonotone ==
    \A s \in Scores \cup {NaN}, i, o \in BOOLEAN :
        LET r == [score |-> s, irreversible |-> i, orgWide |-> o]
        IN  AtLeastAsSevere(r, request) /\ ~FloorLost(r, request)
              => Rank[TierOf(config, request)] <= Rank[TierOf(config, r)]

\* Unless the caller edits the list of seats, the involved projects sit in the
\* primary room in order, each in the one seat of its place in the list, generic
\* participants behind them; nobody takes the moderator's seat, the last, whose
\* domain is the override where one is set and the generic moderator's where none
\* is.
Seated == rooms.primary.seats

ProjectsSeatedOnce ==
    pc = "active" /\ Untouched("primary") =>
        /\ \A i \in DOMAIN Seated : Seated[i].persona = "moderator" <=> i = Len(Seated)
        /\ \A i \in 1 .. Len(Seated) - 1 :
             Seated[i].domain.project = IF i <= Len(projects) THEN projects[i] ELSE "stances"
        /\ Seated[Len(Seated)].domain =
             IF composition.override THEN Overridden ELSE Address("stances", "moderator")

\* Where the configuration is consistent (its cap not below the tier's minimum,
\* and twice the minimum a u32) and the envelope is not edited, the primary room
\* is given at least the tier's minimum and at most the cap; but a base canvas
\* whose total is 0 cannot be scaled, and its room gets no token.
FundedPrimary ==
    /\ pc = "active" /\ Untouched("budget")
    /\ config.minimum[tier] <= config.cap /\ 2 * config.minimum[tier] < U32
    => \/ rooms.primary.budget.total \in config.minimum[tier] .. config.cap
       \/ rooms.primary.budget \in Bases /\ rooms.primary.budget.total = 0

\* Scaling a canvas whose pools fit its total leaves pools that exceed the new
\* total by at most a token for each pool that is down to its last one.
Minimal(pools) == {p \in PoolName : pools[p] = 1}

PoolsNearTotal ==
    pc = "active" /\ (\A b \in Bases : SumOf(b.pools) <= b.total) =>
        \A r \in OpenRoomSet :
            SumOf(r.budget.pools) <= r.budget.total + Cardinality(Minimal(r.budget.pools))

\* Rooms never open on less than the minimum.  While they wait, what has to be
\* granted, not a token less or more, is the shortfall that was reported and what
\* it leaves out: what was overspent when it was computed, and what sessions
\* have spent and edits have asked for since.
ShortfallSuffices ==
    /\ pc = "active" => DeployableRemaining >= composition.minimum
    /\ pc = "pending" /\ composition.minimum > 0 =>
         (granted >= shortfall + claimed <=> DeployableRemaining >= composition.minimum)
=============================================================================
