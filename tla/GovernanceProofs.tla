-------------------------- MODULE GovernanceProofs --------------------------
(***************************************************************************)
(* What a governance session guarantees for every configuration, request,  *)
(* list of projects and budget.                                            *)
(***************************************************************************)
EXTENDS Governance, FiniteSetTheorems, TLAPS

-----------------------------------------------------------------------------
(* Risk. *)

\* A floor that applies is reached, also by a score that is NaN.
LEMMA FloorsHold ==
    ASSUME NEW c \in Config, NEW r \in Request
    PROVE  /\ r.orgWide /\ c.critical # NaN => TierOf(c, r) = "Critical"
           /\ r.irreversible /\ ~r.orgWide /\ c.high # NaN
                => TierOf(c, r) \in {"High", "Critical"}
           /\ TierOf(c, r) \in Tier
BY DEF Config, Request, Float, NaN, TierOf, Floored, Raised, Reaches, Tier, Larger

\* Where no floor is lost, the score after the floors is no lower for a request
\* that is in no respect less severe; a NaN stays the lowest.
LEMMA FlooredMonotone ==
    ASSUME NEW c \in Config, NEW q \in Request, NEW r \in Request,
           AtLeastAsSevere(r, q), Floored(c, q) # NaN,
           \/ ~r.orgWide
           \/ c.critical = NaN /\ ~(q.irreversible /\ ~q.orgWide)
    PROVE  Floored(c, r) # NaN /\ Floored(c, q) <= Floored(c, r)
BY DEF Config, Request, Float, NaN, AtLeastAsSevere, Floored, Raised, Larger

\* Nor is its tier.
LEMMA TierMonotone ==
    ASSUME NEW c \in Config, NEW q \in Request, NEW r \in Request,
           AtLeastAsSevere(r, q),
           ~(c.critical = NaN /\ q.irreversible /\ ~q.orgWide /\ r.orgWide)
    PROVE  Rank[TierOf(c, q)] <= Rank[TierOf(c, r)]
<1>1. CASE r.orgWide /\ c.critical # NaN
  <2>1. TierOf(c, r) = "Critical" /\ TierOf(c, q) \in Tier
    BY <1>1, FloorsHold
  <2> QED
    BY <2>1 DEF Rank, Tier
<1>2. CASE Floored(c, q) = NaN
  <2>1. TierOf(c, q) = "Low" /\ TierOf(c, r) \in Tier
    BY <1>2, FloorsHold DEF TierOf, Reaches
  <2> QED
    BY <2>1 DEF Rank, Tier
<1>3. CASE ~(r.orgWide /\ c.critical # NaN) /\ Floored(c, q) # NaN
  <2>1. Floored(c, r) # NaN /\ Floored(c, q) <= Floored(c, r)
    BY <1>3, FlooredMonotone
  <2>2. /\ Floored(c, q) \in Int /\ Floored(c, r) \in Int
        /\ c.medium \in Int /\ c.high \in Int /\ c.critical \in Int
    BY DEF Config, Request, Float, NaN, Floored, Raised, Larger
  <2>3. \A t \in Int : Reaches(Floored(c, q), t) => Reaches(Floored(c, r), t)
    BY <2>1, <2>2 DEF Reaches
  <2> QED
    BY <2>2, <2>3 DEF TierOf, Rank
<1> QED
  BY <1>1, <1>2, <1>3
-----------------------------------------------------------------------------
(* The inductive invariant: the tier is the one the request asks for, the  *)
(* fields of the composition that nobody edited are those of that tier, a  *)
(* composition that passed its check has the counter-session of its tier   *)
(* until it is struck out, and rooms seat the composition.                 *)

ComposedPcs == {"check", "init", "pending", "active", "refused"}
CheckedPcs == {"init", "pending", "active"}

Asks == config \in Configs /\ request \in Request

TierAssessed == pc # "assess" => tier = TierOf(config, request)

\* A composition of these fields.
Made(t, primary, counter, recommended, minimum, override) ==
    [tier |-> t, primary |-> primary, counter |-> counter,
     recommended |-> recommended, minimum |-> minimum, override |-> override]

Shaped == composition = Made(composition.tier, composition.primary, composition.counter,
                             composition.recommended, composition.minimum,
                             composition.override)

CompositionMade ==
    pc \in ComposedPcs =>
        /\ Shaped
        /\ composition.recommended \in Word /\ composition.minimum \in Word
        /\ composition.override \in BOOLEAN
        /\ Untouched("primary") => composition.primary = Primary(tier, projects)
        /\ Untouched("counter") => composition.counter = Counter(tier)
        /\ Untouched("budget") =>
             /\ composition.recommended = Recommended(config, tier)
             /\ composition.minimum = config.minimum[tier]

TierMade == pc = "check" /\ "tier" \notin edited => composition.tier = tier

Constitutional ==
    pc \in CheckedPcs /\ "tier" \notin edited /\ "counter" \notin late /\ Contested(tier)
        => composition.counter # {}

RoomsSeated ==
    pc = "active" =>
        /\ rooms.primary.seats = PrimarySeats
        /\ {r.seats : r \in rooms.counter} = {CounterSeats(c) : c \in composition.counter}

GovInv ==
    Asks /\ TierAssessed /\ CompositionMade /\ TierMade /\ Constitutional /\ RoomsSeated

\* The tier's tokens are u32s.
LEMMA TierBudget ==
    ASSUME Asks, tier = TierOf(config, request)
    PROVE  /\ tier \in Tier
           /\ config.minimum[tier] \in Word /\ Recommended(config, tier) \in Word
<1>1. config \in Config /\ request \in Request
  BY ConfigsAssumption DEF Asks
<1>2. tier \in Tier
  BY <1>1, FloorsHold
<1>3. config.minimum[tier] \in Word /\ config.cap \in Word
  BY <1>1, <1>2 DEF Config
<1>4. (2 * config.minimum[tier]) % U32 \in Word
  BY <1>3, U32Assumption DEF Word
<1> QED
  BY <1>2, <1>3, <1>4 DEF Recommended, Lesser

\* Before anything is assessed nothing is claimed of tier, seats or rooms.
LEMMA GovInit == Init => GovInv
BY ScoresAssumption
   DEF Init, GovInv, Asks, Request, Float, TierAssessed, CompositionMade, TierMade,
       Constitutional, RoomsSeated, ComposedPcs, CheckedPcs

\* What an edit writes, field by field.
LEMMA EditWrites ==
    ASSUME Edit, Shaped
    PROVE  \E t, primary, counter, recommended, minimum, override :
             /\ composition' = Made(t, primary, counter, recommended, minimum, override)
             /\ t = composition.tier \/ Assigned("tier")
             /\ primary = composition.primary \/ Assigned("primary")
             /\ counter = composition.counter \/ Assigned("counter")
             /\ \/ recommended = composition.recommended /\ minimum = composition.minimum
                \/ recommended \in Word /\ minimum \in Word /\ Assigned("budget")
             /\ override = composition.override \/ override \in BOOLEAN
             /\ \E field \in Fields : Assigned(field)
<1> DEFINE c == composition
<1>1. CASE EditOverride /\ Assigned("override")
  <2>1. PICK set \in BOOLEAN : c' = [c EXCEPT !.override = set]
    BY <1>1 DEF EditOverride
  <2>2. c' = Made(c.tier, c.primary, c.counter, c.recommended, c.minimum, set)
    BY <2>1 DEF Shaped, Made
  <2> QED
    BY <1>1, <2>2 DEF Fields
<1>2. CASE EditTier /\ Assigned("tier")
  <2>1. PICK t \in Tier : c' = [c EXCEPT !.tier = t]
    BY <1>2 DEF EditTier
  <2>2. c' = Made(t, c.primary, c.counter, c.recommended, c.minimum, c.override)
    BY <2>1 DEF Shaped, Made
  <2> QED
    BY <1>2, <2>2 DEF Fields
<1>3. CASE EditPrimary /\ Assigned("primary")
  <2>1. PICK r \in Rosters : c' = [c EXCEPT !.primary = r]
    BY <1>3 DEF EditPrimary
  <2>2. c' = Made(c.tier, r, c.counter, c.recommended, c.minimum, c.override)
    BY <2>1 DEF Shaped, Made
  <2> QED
    BY <1>3, <2>2 DEF Fields
<1>4. CASE EditCounter /\ Assigned("counter")
  <2>1. PICK r : c' = [c EXCEPT !.counter = r]
    BY <1>4 DEF EditCounter
  <2>2. c' = Made(c.tier, c.primary, r, c.recommended, c.minimum, c.override)
    BY <2>1 DEF Shaped, Made
  <2> QED
    BY <1>4, <2>2 DEF Fields
<1>5. CASE EditBudget /\ Assigned("budget")
  <2>1. PICK e \in Envelopes : c' = [c EXCEPT !.recommended = e.recommended,
                                              !.minimum = e.minimum]
    BY <1>5 DEF EditBudget
  <2>2. e.recommended \in Word /\ e.minimum \in Word
    BY EditsAssumption DEF Envelope
  <2>3. c' = Made(c.tier, c.primary, c.counter, e.recommended, e.minimum, c.override)
    BY <2>1 DEF Shaped, Made
  <2> QED
    BY <1>5, <2>2, <2>3 DEF Fields
<1> QED
  BY <1>1, <1>2, <1>3, <1>4, <1>5 DEF Edit

\* An edit spares the fields it is not recorded for.
LEMMA GovEdit == GovInv /\ Edit => GovInv'
<1> SUFFICES ASSUME GovInv, Edit
             PROVE  GovInv'
  OBVIOUS
<1>1. /\ UNCHANGED <<pc, config, request, projects, tier, rooms>>
      /\ pc \in {"check", "init", "pending"} /\ Shaped
  BY DEF Edit, Move, GovInv, CompositionMade, ComposedPcs
<1>2. PICK t, primary, counter, recommended, minimum, override :
        /\ composition' = Made(t, primary, counter, recommended, minimum, override)
        /\ t = composition.tier \/ Assigned("tier")
        /\ primary = composition.primary \/ Assigned("primary")
        /\ counter = composition.counter \/ Assigned("counter")
        /\ \/ recommended = composition.recommended /\ minimum = composition.minimum
           \/ recommended \in Word /\ minimum \in Word /\ Assigned("budget")
        /\ override = composition.override \/ override \in BOOLEAN
        /\ \E field \in Fields : Assigned(field)
  BY <1>1, EditWrites
<1>3. /\ composition'.tier = t /\ composition'.primary = primary
      /\ composition'.counter = counter /\ composition'.recommended = recommended
      /\ composition'.minimum = minimum /\ composition'.override = override
  BY <1>2 DEF Made
<1>4. Shaped'
  BY <1>2, <1>3 DEF Shaped, Made
<1>5. edited \subseteq edited' /\ late \subseteq late'
  BY <1>2 DEF Assigned
<1>6. /\ pc = "check" => \A f : Assigned(f) => f \in edited'
      /\ pc # "check" => \A f : Assigned(f) => f \in late'
  BY DEF Assigned
<1>7. \A f : (Untouched(f)' => Untouched(f)) /\ (Assigned(f) => ~Untouched(f)')
  BY <1>5, <1>6 DEF Untouched
<1>8. CompositionMade'
  <2>1. /\ Primary(tier, projects)' = Primary(tier, projects)
        /\ Counter(tier)' = Counter(tier)
        /\ Recommended(config, tier)' = Recommended(config, tier)
        /\ config'.minimum[tier'] = config.minimum[tier]
    BY <1>1 DEF Primary, Counter, Contested, Recommended
  <2>2. /\ recommended \in Word /\ minimum \in Word /\ override \in BOOLEAN
    BY <1>1, <1>2 DEF GovInv, CompositionMade, ComposedPcs
  <2> QED
    BY <1>1, <1>2, <1>3, <1>4, <1>7, <2>1, <2>2 DEF GovInv, CompositionMade, ComposedPcs
<1>9. TierMade' /\ Constitutional'
  BY <1>1, <1>2, <1>3, <1>5, <1>6
  DEF GovInv, TierMade, Constitutional, Contested, CheckedPcs
<1> QED
  BY <1>1, <1>8, <1>9 DEF GovInv, Asks, TierAssessed, RoomsSeated

\* Assessing, composing, editing, checking and opening rooms keep the request,
\* the tier it was given, the seats made for that tier and what the check found.
LEMMA GovStep == GovInv /\ [Next]_vars => GovInv'
<1> SUFFICES ASSUME GovInv, [Next]_vars
             PROVE  GovInv'
  OBVIOUS
<1> DEFINE Kept == UNCHANGED <<config, request, projects, tier, composition, edited, late>>
<1>1. CASE Assess
  BY <1>1 DEF Assess, GovInv, Asks, TierAssessed, CompositionMade, TierMade,
              Constitutional, RoomsSeated, ComposedPcs, CheckedPcs
<1>2. CASE Compose
  <2>1. composition' = Made(tier, Primary(tier, projects), Counter(tier),
                            Recommended(config, tier), config.minimum[tier], FALSE)
    BY <1>2 DEF Compose, Composed, Made
  <2>2. config.minimum[tier] \in Word /\ Recommended(config, tier) \in Word
    BY <1>2, TierBudget DEF Compose, GovInv, TierAssessed
  <2>3. CompositionMade' /\ TierMade'
    BY <1>2, <2>1, <2>2 DEF Compose, Made, Shaped, CompositionMade, TierMade
  <2> QED
    BY <1>2, <2>3 DEF Compose, GovInv, Asks, TierAssessed, Constitutional, RoomsSeated,
                      CheckedPcs
<1>3. CASE ComposePanics
  BY <1>3 DEF ComposePanics, GovInv, Asks, TierAssessed, CompositionMade, TierMade,
              Constitutional, RoomsSeated, ComposedPcs, CheckedPcs
<1>4. CASE CheckConstitution
  <2>1. Kept /\ pc = "check" /\ pc' \in {"init", "refused"}
        /\ (pc' = "init" => ~Violated)
    BY <1>4 DEF CheckConstitution, historyVars
  <2>2. Constitutional'
    BY <2>1 DEF GovInv, TierMade, Constitutional, Violated, CheckedPcs, Contested
  <2>3. CompositionMade'
    BY <2>1 DEF GovInv, CompositionMade, ComposedPcs, Shaped, Untouched
  <2> QED
    BY <2>1, <2>2, <2>3 DEF GovInv, Asks, TierAssessed, TierMade, RoomsSeated
<1>5. CASE OpenRooms
  <2>1. Kept /\ pc \in {"init", "pending"} /\ pc' = "active"
    BY <1>5 DEF OpenRooms, historyVars
  <2>2. PICK base \in Bases : rooms' \in RoomSets(base)
    BY <1>5 DEF OpenRooms
  <2>3. PICK p, q : rooms' = [primary |-> [seats |-> PrimarySeats, budget |-> p],
                              counter |-> {[seats |-> CounterSeats(c), budget |-> q] :
                                             c \in composition.counter}]
    BY <2>2 DEF RoomSets
  <2>4. RoomsSeated'
    <3>1. PrimarySeats' = PrimarySeats /\ rooms'.primary.seats = PrimarySeats
      BY <2>1, <2>3 DEF PrimarySeats
    <3>2. {r.seats : r \in rooms'.counter} = {CounterSeats(c) : c \in composition.counter}
      <4> DEFINE Room(c) == [seats |-> CounterSeats(c), budget |-> q]
      <4>1. rooms'.counter = {Room(c) : c \in composition.counter}
        BY <2>3
      <4>2. \A c : Room(c).seats = CounterSeats(c)
        OBVIOUS
      <4> HIDE DEF Room
      <4> QED
        BY <4>1, <4>2
    <3>3. composition' = composition
      BY <2>1
    <3> QED
      BY <3>1, <3>2, <3>3 DEF RoomsSeated, CounterSeats
  <2>5. CompositionMade' /\ Constitutional'
    BY <2>1 DEF GovInv, CompositionMade, Constitutional, ComposedPcs, CheckedPcs, Shaped,
                Untouched
  <2> QED
    BY <2>1, <2>4, <2>5 DEF GovInv, Asks, TierAssessed, TierMade
<1>6. CASE AwaitBudget
  <2>1. Kept /\ pc \in {"init", "pending"} /\ pc' = "pending"
    BY <1>6 DEF AwaitBudget
  <2>2. CompositionMade' /\ Constitutional'
    BY <2>1 DEF GovInv, CompositionMade, Constitutional, ComposedPcs, CheckedPcs, Shaped,
                Untouched
  <2> QED
    BY <2>1, <2>2 DEF GovInv, Asks, TierAssessed, TierMade, RoomsSeated
<1>7. CASE Edit
  BY <1>7, GovEdit
<1>8. ASSUME \/ \E n \in Tokens : Spend(n) \/ Grant(n)
             \/ UNCHANGED vars
      PROVE  GovInv'
  <2>1. Kept /\ UNCHANGED <<pc, rooms>>
    BY <1>8 DEF Spend, Grant, Move, vars, historyVars
  <2>2. CompositionMade' /\ Constitutional'
    BY <2>1 DEF GovInv, CompositionMade, Constitutional, ComposedPcs, CheckedPcs, Shaped,
                Untouched
  <2>3. TierMade'
    BY <2>1 DEF GovInv, TierMade
  <2>4. RoomsSeated'
    BY <2>1 DEF GovInv, RoomsSeated, PrimarySeats
  <2> QED
    BY <2>1, <2>2, <2>3, <2>4 DEF GovInv, Asks, TierAssessed
<1> QED
  BY <1>1, <1>2, <1>3, <1>4, <1>5, <1>6, <1>7, <1>8 DEF Next, Finished

\* FloorsReachRooms is a consequence: the tier is contested where a floor
\* applies, so that no composition without a counter-session passed the check,
\* and a Critical composition seats all stances whoever fills the slots.
LEMMA FloorsFollow == GovInv => FloorsReachRooms
<1> SUFFICES ASSUME GovInv, pc = "active", FloorApplies
             PROVE  FloorsReachRooms
  BY DEF FloorsReachRooms
<1>1. /\ config \in Config /\ request \in Request
      /\ tier = TierOf(config, request)
      /\ rooms.primary.seats = PrimarySeats
      /\ {r.seats : r \in rooms.counter} = {CounterSeats(c) : c \in composition.counter}
  BY ConfigsAssumption DEF GovInv, Asks, TierAssessed, RoomsSeated
<1>2. tier \in {"High", "Critical"} /\ (request.orgWide => tier = "Critical")
  BY <1>1, FloorsHold DEF FloorApplies, Request
<1>3. "tier" \notin edited /\ "counter" \notin late => rooms.counter # {}
  BY <1>1, <1>2 DEF GovInv, Constitutional, CheckedPcs, Contested
<1>4. ASSUME Untouched("counter")
      PROVE  {Personas(r.seats) : r \in rooms.counter} = {{"builder", "dreamer"}}
  <2> DEFINE seats == CounterSeats(GenericCounter)
  <2>1. composition.counter = {GenericCounter}
    BY <1>2, <1>4 DEF GovInv, CompositionMade, ComposedPcs, Counter, Contested
  <2>2. {r.seats : r \in rooms.counter} = {seats}
    BY <1>1, <2>1
  <2>3. /\ DOMAIN seats = 1 .. 2
        /\ seats[1].persona = "builder" /\ seats[2].persona = "dreamer"
    BY DEF CounterSeats, GenericCounter, Participant, Address
  <2> HIDE DEF seats
  <2>4. Personas(seats) = {"builder", "dreamer"}
    BY <2>3 DEF Personas
  <2> QED
    BY <2>2, <2>4
<1>5. ASSUME request.orgWide, Untouched("primary")
      PROVE  Personas(rooms.primary.seats)
               = {"adversarial", "realist", "builder", "dreamer", "moderator"}
  <2>1. composition.primary = Primary("Critical", projects)
    BY <1>2, <1>5 DEF GovInv, CompositionMade, ComposedPcs
  <2> DEFINE slots == stance_slots("Critical")
  <2>2. /\ DOMAIN slots = 1 .. 6
        /\ slots[1] = "adversarial" /\ slots[2] = "adversarial" /\ slots[3] = "realist"
        /\ slots[4] = "builder" /\ slots[5] = "dreamer" /\ slots[6] = "moderator"
    BY DEF stance_slots
  <2> HIDE DEF slots
  <2>3. /\ DOMAIN composition.primary = 1 .. 6
        /\ \A i \in 1 .. 6 : composition.primary[i].stance = slots[i]
    BY <2>1, <2>2 DEF Primary, resolve_address, Address, slots
  <2>4. /\ DOMAIN rooms.primary.seats = 1 .. 6
        /\ \A i \in 1 .. 6 : rooms.primary.seats[i].persona = slots[i]
    BY <1>1, <2>3 DEF PrimarySeats, Participant
  <2> QED
    BY <2>2, <2>4 DEF Personas
<1> QED
  BY <1>3, <1>4, <1>5 DEF FloorsReachRooms

\* Every tier's last slot is the moderator's, and no other.
LEMMA ModeratorSlotIsLast ==
    ASSUME NEW t \in Tier
    PROVE  \E n \in Nat \ {0} :
             /\ DOMAIN stance_slots(t) = 1 .. n
             /\ \A j \in 1 .. n : stance_slots(t)[j] = "moderator" <=> j = n
<1>1. CASE t = "Low"
  <2> WITNESS 3 \in Nat \ {0}
  <2> QED BY <1>1 DEF stance_slots
<1>2. CASE t \in {"Medium", "High"}
  <2> WITNESS 4 \in Nat \ {0}
  <2> QED BY <1>2 DEF stance_slots
<1>3. CASE t = "Critical"
  <2> WITNESS 6 \in Nat \ {0}
  <2> QED BY <1>3 DEF stance_slots
<1> QED
  BY <1>1, <1>2, <1>3 DEF Tier

\* So a slot before it goes to the project at its place in the list, if any.
LEMMA ProjectOfSlot ==
    ASSUME NEW slots, NEW n \in Nat \ {0}, NEW ids \in Seq(STRING), NEW i \in 1 .. n,
           \A j \in 1 .. n : slots[j] = "moderator" <=> j = n
    PROVE  resolve_address(slots, i, ids) =
             IF i = n \/ i > Len(ids) THEN Address("stances", slots[i])
                                      ELSE Address(ids[i], slots[i])
<1>1. CASE i = n
  BY <1>1 DEF resolve_address
<1>2. CASE i < n
  <2>1. {j \in 1 .. i : slots[j] # "moderator"} = 1 .. i
    BY <1>2
  <2>2. Cardinality(1 .. i) = i
    BY FS_Interval
  <2> QED
    BY <1>2, <2>1, <2>2 DEF resolve_address
<1> QED
  BY <1>1, <1>2

\* The projects' part of the inductive invariant: the caller's list is kept.
LEMMA ProjectsKept == Spec => [](projects \in Seq(STRING))
<1>1. Init => projects \in Seq(STRING)
  BY InvolvedAssumption DEF Init
<1>2. projects \in Seq(STRING) /\ [Next]_vars => (projects \in Seq(STRING))'
  BY DEF Next, vars, Assess, Compose, ComposePanics, CheckConstitution, OpenRooms,
         AwaitBudget, Edit, Spend, Grant, Move, Finished
<1> QED
  BY <1>1, <1>2, PTL DEF Spec

\* Unless the caller edits the list of seats, every involved project sits in the
\* primary room once, at its place in the list, and nobody takes the moderator's
\* seat, whose domain is the override where there is one.
THEOREM ProjectsInPlace == Spec => []ProjectsSeatedOnce
<1>1. ASSUME GovInv, projects \in Seq(STRING)
      PROVE  ProjectsSeatedOnce
  <2> SUFFICES ASSUME pc = "active", Untouched("primary")
               PROVE  ProjectsSeatedOnce
    BY DEF ProjectsSeatedOnce
  <2>1. /\ config \in Config /\ request \in Request /\ tier = TierOf(config, request)
        /\ Seated = PrimarySeats
    BY <1>1, ConfigsAssumption DEF GovInv, Asks, TierAssessed, RoomsSeated, Seated
  <2>2. composition.primary = Primary(tier, projects)
    BY <1>1 DEF GovInv, CompositionMade, ComposedPcs
  <2> DEFINE slots == stance_slots(tier)
  <2>3. tier \in Tier
    BY <2>1, FloorsHold
  <2>4. PICK n \in Nat \ {0} :
          /\ DOMAIN slots = 1 .. n
          /\ \A j \in 1 .. n : slots[j] = "moderator" <=> j = n
    BY <2>3, ModeratorSlotIsLast
  <2> HIDE DEF slots
  <2>5. /\ DOMAIN composition.primary = 1 .. n
        /\ \A i \in 1 .. n :
             composition.primary[i] =
               IF i = n \/ i > Len(projects) THEN Address("stances", slots[i])
                                             ELSE Address(projects[i], slots[i])
    BY <1>1, <2>2, <2>4, ProjectOfSlot DEF Primary, slots
  <2>6. /\ Seated \in [1 .. n -> {Seated[i] : i \in 1 .. n}]
        /\ \A i \in 1 .. n :
             LET p == Participant(composition.primary[i])
             IN  Seated[i] = IF composition.override /\ p.persona = "moderator"
                             THEN [p EXCEPT !.domain = Overridden] ELSE p
    BY <2>1, <2>5 DEF PrimarySeats
  <2>7. Len(Seated) = n /\ DOMAIN Seated = 1 .. n
    BY <2>6
  <2>8. ASSUME NEW i \in 1 .. n
        PROVE  /\ composition.primary[i].project =
                    IF i = n \/ i > Len(projects) THEN "stances" ELSE projects[i]
               /\ composition.primary[i].stance = slots[i]
    <3>1. CASE i = n \/ i > Len(projects)
      <4>1. composition.primary[i] = Address("stances", slots[i])
        BY <2>5, <3>1
      <4> QED
        BY <3>1, <4>1 DEF Address
    <3>2. CASE ~(i = n \/ i > Len(projects))
      <4>1. composition.primary[i] = Address(projects[i], slots[i])
        BY <2>5, <3>2
      <4> QED
        BY <3>2, <4>1 DEF Address
    <3> QED
      BY <3>1, <3>2
  <2>9. \A a : Participant(a).persona = a.stance /\ Participant(a).domain = a
    BY DEF Participant
  <2>10. ASSUME NEW i \in 1 .. n, i # n
         PROVE  /\ Seated[i].domain.project =
                     IF i <= Len(projects) THEN projects[i] ELSE "stances"
                /\ Seated[i].persona # "moderator"
    <3>1. Participant(composition.primary[i]).persona # "moderator"
      BY <2>4, <2>8, <2>9, <2>10
    <3>2. Seated[i] = Participant(composition.primary[i])
      BY <2>6, <3>1
    <3>3. Len(projects) \in Nat
      BY <1>1
    <3> QED
      BY <2>8, <2>9, <2>10, <3>1, <3>2, <3>3
  <2>11. /\ Seated[n].persona = "moderator"
         /\ Seated[n].domain =
              IF composition.override THEN Overridden ELSE Address("stances", "moderator")
    <3> DEFINE p == Participant(composition.primary[n])
    <3>1. p.persona = "moderator"
      BY <2>4, <2>8, <2>9
    <3>2. p.domain = Address("stances", "moderator")
      BY <2>4, <2>5, <2>9
    <3>3. [p EXCEPT !.domain = Overridden].persona = p.persona
          /\ [p EXCEPT !.domain = Overridden].domain = Overridden
      BY DEF Participant
    <3>4. Seated[n] = IF composition.override THEN [p EXCEPT !.domain = Overridden] ELSE p
      BY <2>6, <3>1
    <3> QED
      BY <3>1, <3>2, <3>3, <3>4
  <2> QED
    BY <2>7, <2>10, <2>11 DEF ProjectsSeatedOnce
<1> QED
  BY <1>1, GovInit, GovStep, ProjectsKept, PTL DEF Spec

\* A change whose floor applies is decided with a counter room of a builder and a
\* dreamer, an org-wide one by all stances: for any configuration, and after any
\* edits but those of the fields it names.
THEOREM FloorsDecide == Spec => []FloorsReachRooms
BY GovInit, GovStep, FloorsFollow, PTL DEF Spec

\* A change that is in no respect less severe never gets a lower tier, for any
\* thresholds, but for the floor that a critical threshold that is NaN loses.
THEOREM SeverityRaisesTier == Spec => []RiskMonotone
<1>1. GovInv => RiskMonotone
  <2> SUFFICES ASSUME GovInv, NEW s \in Scores \cup {NaN}, NEW i \in BOOLEAN,
                      NEW o \in BOOLEAN,
                      AtLeastAsSevere([score |-> s, irreversible |-> i, orgWide |-> o], request),
                      ~FloorLost([score |-> s, irreversible |-> i, orgWide |-> o], request)
               PROVE  Rank[TierOf(config, request)]
                        <= Rank[TierOf(config, [score |-> s, irreversible |-> i, orgWide |-> o])]
    BY DEF RiskMonotone
  <2>1. config \in Config /\ request \in Request
    BY ConfigsAssumption DEF GovInv, Asks
  <2>2. [score |-> s, irreversible |-> i, orgWide |-> o] \in Request
    BY ScoresAssumption DEF Request, Float
  <2> QED
    BY <2>1, <2>2, TierMonotone DEF FloorLost
<1> QED
  BY <1>1, GovInit, GovStep, PTL DEF Spec
-----------------------------------------------------------------------------
(* Scaling. *)

\* A positive factor on both sides of an inequality may be cancelled.
LEMMA CancelFactor ==
    ASSUME NEW a \in Nat, NEW b \in Nat, NEW k \in Nat, k > 0, a * k <= b * k
    PROVE  a <= b
<1> SUFFICES ASSUME a >= b + 1
             PROVE  FALSE
  OBVIOUS
<1>1. PICK d \in Nat : a = b + 1 + d
  <2>1. a - b - 1 \in Nat /\ a = b + 1 + (a - b - 1)
    OBVIOUS
  <2> QED
    BY <2>1
<1>2. a * k = b * k + k + d * k
  BY <1>1
<1>3. d * k >= 0
  OBVIOUS
<1> QED
  BY <1>2, <1>3

\* Rounding down, by one more where the quotient is exact, gives no more than
\* the share; the least a pool is given is one token.
LEMMA RescaledBound ==
    ASSUME NEW tokens \in Word, NEW slice \in Word, NEW orig \in Word, orig > 0,
           NEW n \in Rescaled(tokens, slice, orig)
    PROVE  n \in Word /\ n >= 1 /\ (n > 1 => n * orig <= tokens * slice)
<1>1. /\ U32 \in Nat /\ U32 > 1
      /\ tokens \in Nat /\ slice \in Nat /\ orig \in Nat
  BY U32Assumption DEF Word
<1> DEFINE product == tokens * slice
           down == product \div orig
<1>2. product \in Nat
  BY <1>1
<1> HIDE DEF product
<1>3. down \in Int /\ down * orig <= product
  BY <1>1, <1>2
<1> HIDE DEF down
<1>4. PICK m \in {down - 1, down} : n = Larger(Lesser(m, U32 - 1), 1)
  BY DEF Rescaled, down, product
<1>5. n \in Word /\ n >= 1
  BY <1>1, <1>3, <1>4 DEF Larger, Lesser, Word
<1>6. ASSUME n > 1
      PROVE  n * orig <= product
  <2>1. n <= down
    BY <1>1, <1>3, <1>4, <1>6 DEF Larger, Lesser
  <2>2. n * orig <= down * orig
    BY <1>1, <1>3, <1>5, <2>1 DEF Word
  <2> QED
    BY <1>1, <1>2, <1>3, <1>5, <2>2 DEF Word
<1> QED
  BY <1>5, <1>6 DEF product

\* A scaled budget is a budget, of the new total unless it is the old one.
LEMMA ScaledType ==
    ASSUME NEW b \in CanvasBudget, NEW slice \in Word, NEW s \in Scaled(b, slice)
    PROVE  /\ s \in CanvasBudget
           /\ (s = b /\ b.total \in {0, slice}) \/ s.total = slice
<1>1. CASE b.total = 0 \/ slice = b.total
  BY <1>1 DEF Scaled
<1>2. CASE ~(b.total = 0 \/ slice = b.total)
  <2>1. PICK m \in Rescaled(b.pools["main_session"], slice, b.total),
             c \in Rescaled(b.pools["consultations"], slice, b.total),
             w \in Rescaled(b.pools["mod_whisper"], slice, b.total) :
          s = [total |-> Lesser(slice, U32 - 1),
               pools |-> [main_session |-> m, consultations |-> c, mod_whisper |-> w]]
    BY <1>2 DEF Scaled
  <2>2. b.total > 0 /\ b.total \in Word /\ b.pools \in [PoolName -> Word]
    BY <1>2, U32Assumption DEF CanvasBudget, Word
  <2>3. m \in Word /\ c \in Word /\ w \in Word
    BY <2>2, RescaledBound DEF PoolName
  <2>4. Lesser(slice, U32 - 1) = slice
    BY U32Assumption DEF Lesser, Word
  <2>5. [main_session |-> m, consultations |-> c, mod_whisper |-> w] \in [PoolName -> Word]
    BY <2>3 DEF PoolName
  <2> QED
    BY <2>1, <2>4, <2>5 DEF CanvasBudget
<1> QED
  BY <1>1, <1>2

\* One token for a pool that is down to its last one.
Last(n) == IF n = 1 THEN 1 ELSE 0

\* How many pools are down to their last token, pool by pool.
LEMMA MinimalCount ==
    ASSUME NEW pools \in [PoolName -> Word]
    PROVE  Cardinality(Minimal(pools)) =
             Last(pools["main_session"]) + Last(pools["consultations"])
               + Last(pools["mod_whisper"])
<1> DEFINE With(S, p) == IF pools[p] = 1 THEN S \cup {p} ELSE S
           A == With({}, "main_session")
           B == With(A, "consultations")
           C == With(B, "mod_whisper")
<1>1. Minimal(pools) = C
  BY DEF Minimal, PoolName
<1>2. IsFiniteSet({}) /\ Cardinality({}) = 0
  BY FS_EmptySet
<1>3. \A S, p : IsFiniteSet(S) /\ p \notin S =>
        /\ IsFiniteSet(With(S, p))
        /\ Cardinality(With(S, p)) = Cardinality(S) + Last(pools[p])
  <2> TAKE S, p
  <2> HAVE IsFiniteSet(S) /\ p \notin S
  <2>1. Cardinality(S) \in Nat
    BY FS_CardinalityType
  <2> QED
    BY <2>1, FS_AddElement DEF Last
<1>4. /\ "consultations" \notin A /\ "mod_whisper" \notin B
  OBVIOUS
<1> HIDE DEF With
<1>5. IsFiniteSet(A) /\ Cardinality(A) = Last(pools["main_session"])
  BY <1>2, <1>3 DEF Last
<1>6. /\ IsFiniteSet(B)
      /\ Cardinality(B) = Last(pools["main_session"]) + Last(pools["consultations"])
  BY <1>3, <1>4, <1>5
<1>7. Cardinality(C) = Last(pools["main_session"]) + Last(pools["consultations"])
                         + Last(pools["mod_whisper"])
  BY <1>3, <1>4, <1>6
<1> HIDE DEF C
<1> QED
  BY <1>1, <1>7

\* Three shares rounded down, and up to one token where nothing is left, exceed
\* the slice by at most those tokens.
LEMMA ScaledSum ==
    ASSUME NEW b \in CanvasBudget, SumOf(b.pools) <= b.total,
           NEW slice \in Word, NEW s \in Scaled(b, slice)
    PROVE  SumOf(s.pools) <= s.total + Cardinality(Minimal(s.pools))
<1> DEFINE M == s.pools["main_session"]
           C == s.pools["consultations"]
           W == s.pools["mod_whisper"]
<1>1. s \in CanvasBudget /\ s.pools \in [PoolName -> Word] /\ s.total \in Int
  BY ScaledType DEF CanvasBudget, Word
<1>2. M \in Int /\ C \in Int /\ W \in Int
  BY <1>1 DEF PoolName, Word
<1>3. SUFFICES M + C + W <= s.total + Last(M) + Last(C) + Last(W)
  BY <1>1, <1>2, MinimalCount DEF SumOf, Last
<1>4. CASE b.total = 0 \/ slice = b.total
  BY <1>1, <1>2, <1>4 DEF Scaled, SumOf, Last
<1>5. CASE ~(b.total = 0 \/ slice = b.total)
  <2> DEFINE o == b.total
             x == b.pools["main_session"]
             y == b.pools["consultations"]
             z == b.pools["mod_whisper"]
  <2>1. o \in Word /\ o > 0 /\ x \in Word /\ y \in Word /\ z \in Word
    BY <1>5, U32Assumption DEF CanvasBudget, PoolName, Word
  <2>2. /\ s.total = slice
        /\ M \in Rescaled(x, slice, o) /\ C \in Rescaled(y, slice, o)
        /\ W \in Rescaled(z, slice, o)
    BY <1>5, U32Assumption DEF Scaled, Lesser, Word
  <2>3. x + y + z <= o
    BY DEF SumOf
  <2>4. o \in Nat /\ x \in Nat /\ y \in Nat /\ z \in Nat /\ slice \in Nat
    BY <2>1, U32Assumption DEF Word
  <2>5. \A t \in Word, n \in Int : n \in Rescaled(t, slice, o) =>
          n - Last(n) \in Nat /\ (n - Last(n)) * o <= t * slice
    <3> SUFFICES ASSUME NEW t \in Word, NEW n \in Int, n \in Rescaled(t, slice, o)
                 PROVE  n - Last(n) \in Nat /\ (n - Last(n)) * o <= t * slice
      OBVIOUS
    <3>1. n >= 1 /\ (n > 1 => n * o <= t * slice)
      BY <2>1, RescaledBound
    <3>2. t * slice >= 0 /\ 0 * o = 0
      BY <2>4, U32Assumption DEF Word
    <3>3. CASE n = 1
      BY <3>2, <3>3 DEF Last
    <3>4. CASE n > 1
      BY <3>1, <3>4 DEF Last
    <3> QED
      BY <3>1, <3>3, <3>4
  <2> DEFINE m == M - Last(M)
             c == C - Last(C)
             w == W - Last(W)
  <2>6. /\ m \in Nat /\ c \in Nat /\ w \in Nat
        /\ m * o <= x * slice /\ c * o <= y * slice /\ w * o <= z * slice
    BY <1>2, <2>1, <2>2, <2>5
  <2> HIDE DEF m, c, w, o, x, y, z
  <2>7. m * o + c * o + w * o <= x * slice + y * slice + z * slice
    BY <2>4, <2>6
  <2>8. (m + c + w) * o <= (x + y + z) * slice
    BY <2>4, <2>6, <2>7
  <2>9. (x + y + z) * slice <= o * slice
    BY <2>3, <2>4
  <2>10. (m + c + w) * o <= slice * o
    BY <2>4, <2>6, <2>8, <2>9
  <2>11. m + c + w <= slice
    <3> DEFINE n == m + c + w
    <3>1. n \in Nat /\ slice \in Nat /\ o \in Nat /\ o > 0 /\ n * o <= slice * o
      BY <2>1, <2>4, <2>6, <2>10
    <3> HIDE DEF n
    <3>2. n <= slice
      BY <3>1, CancelFactor
    <3> QED
      BY <3>2 DEF n
  <2>12. Last(M) \in Int /\ Last(C) \in Int /\ Last(W) \in Int
    BY DEF Last
  <2>13. m + c + w = (M + C + W) - (Last(M) + Last(C) + Last(W))
    BY <1>2, <2>12 DEF m, c, w
  <2> HIDE DEF M, C, W
  <2> QED
    BY <1>2, <2>2, <2>4, <2>11, <2>12, <2>13
<1> QED
  BY <1>4, <1>5
-----------------------------------------------------------------------------
(* Budgets: what rooms are given and what a pending session waits for. *)

Counters ==
    /\ budget \in Budgets
    /\ granted \in Nat /\ claimed \in Int /\ moves \in 0 .. MaxMoves

\* What is missing is what was, with what has been claimed, less what has been
\* granted.
ShortfallOwed ==
    pc = "pending" =>
        composition.minimum - (budget.deployable - budget.spent)
            = shortfall + claimed - granted

\* When rooms opened the minimum was there.
OpenedOnMinimum == pc = "active" => DeployableRemaining >= composition.minimum

RoomsFunded ==
    pc = "active" =>
        \E base \in Bases :
            /\ rooms.primary.budget \in Scaled(base, composition.recommended)
            /\ \A r \in rooms.counter : r.budget \in Scaled(base, config.counterCap)

ShortfallType == shortfall \in Word

FundInv ==
    GovInv /\ Counters /\ ShortfallOwed /\ OpenedOnMinimum /\ RoomsFunded /\ ShortfallType

\* The composition's budget is of u32s.
LEMMA ComposedBudget ==
    ASSUME GovInv, pc \in ComposedPcs
    PROVE  /\ composition.recommended \in Word /\ composition.minimum \in Word
           /\ composition.minimum \in Nat
           /\ tier = TierOf(config, request) /\ tier \in Tier
           /\ config.minimum[tier] \in Word /\ Recommended(config, tier) \in Word
BY TierBudget, U32Assumption DEF GovInv, TierAssessed, CompositionMade, ComposedPcs, Word

\* A new budget has spent nothing and reserved no room.
LEMMA FundInit == Init => FundInv
<1> SUFFICES ASSUME Init
             PROVE  FundInv
  OBVIOUS
<1>1. PICK total \in Totals : budget = NewBudget(total)
  BY DEF Init
<1>2. total \in Nat /\ total \div 5 \in Nat /\ total \div 5 <= total
  BY BudgetsAssumption
<1>3. Counters
  BY <1>1, <1>2, BudgetsAssumption DEF Init, Counters, Budgets, NewBudget
<1> QED
  BY <1>3, GovInit, U32Assumption
  DEF Init, FundInv, ShortfallOwed, OpenedOnMinimum, RoomsFunded, ShortfallType, Word

\* What is claimed follows every payment and every edit of the minimum.
LEMMA FundStep == FundInv /\ [Next]_vars => FundInv'
<1> SUFFICES ASSUME FundInv, [Next]_vars
             PROVE  Counters' /\ ShortfallOwed' /\ OpenedOnMinimum' /\ RoomsFunded'
                      /\ ShortfallType'
  BY GovStep DEF FundInv
<1> USE DEF FundInv
<1>1. CASE Assess \/ Compose \/ ComposePanics \/ CheckConstitution
  BY <1>1 DEF Assess, Compose, ComposePanics, CheckConstitution, historyVars, Counters,
              ShortfallOwed, OpenedOnMinimum, RoomsFunded, ShortfallType
<1>2. CASE OpenRooms
  <2>1. PICK base \in Bases : rooms' \in RoomSets(base)
    BY <1>2 DEF OpenRooms
  <2>2. PICK p \in Scaled(base, composition.recommended),
             q \in Scaled(base, config.counterCap) :
          rooms' = [primary |-> [seats |-> PrimarySeats, budget |-> p],
                    counter |-> {[seats |-> CounterSeats(c), budget |-> q] :
                                   c \in composition.counter}]
    BY <2>1 DEF RoomSets
  <2>3. RoomsFunded'
    BY <1>2, <2>2 DEF OpenRooms, RoomsFunded
  <2> QED
    BY <1>2, <2>3 DEF OpenRooms, historyVars, Counters, ShortfallOwed, OpenedOnMinimum,
                      DeployableRemaining, ShortfallType
<1>3. CASE AwaitBudget
  <2>1. composition.minimum \in Word
    BY <1>3, ComposedBudget DEF AwaitBudget, ComposedPcs
  <2>2. /\ budget.deployable \in Nat /\ budget.spent \in Nat
        /\ DeployableRemaining \in Nat
    BY DEF Counters, Budgets, DeployableRemaining
  <2>3. ShortfallType'
    BY <1>3, <2>1, <2>2, U32Assumption DEF AwaitBudget, Missing, ShortfallType, Word
  <2>4. ShortfallOwed'
    BY <1>3, <2>1, <2>2, U32Assumption
    DEF AwaitBudget, Missing, DeployableRemaining, ShortfallOwed, Larger, Word
  <2>5. Counters'
    BY <1>3, <2>2 DEF AwaitBudget, Counters, Larger
  <2> QED
    BY <1>3, <2>3, <2>4, <2>5 DEF AwaitBudget, OpenedOnMinimum, RoomsFunded
<1>4. CASE Edit
  <2>1. /\ pc \in {"check", "init", "pending"}
        /\ UNCHANGED <<pc, budget, shortfall, granted>>
        /\ moves' \in 0 .. MaxMoves
    BY <1>4, BudgetsAssumption DEF Edit, Move, Counters
  <2>2. /\ Shaped /\ composition.minimum \in Int
    BY <2>1, ComposedBudget DEF GovInv, CompositionMade, ComposedPcs
  <2>3. CASE UNCHANGED claimed /\ composition'.minimum = composition.minimum
    BY <2>1, <2>3 DEF Counters, ShortfallOwed, OpenedOnMinimum, RoomsFunded, ShortfallType
  <2>4. CASE EditBudget
    <3>1. PICK e \in Envelopes :
            /\ composition' = [composition EXCEPT !.recommended = e.recommended,
                                                  !.minimum = e.minimum]
            /\ claimed' = claimed + e.minimum - composition.minimum
      BY <2>4 DEF EditBudget
    <3>2. e.minimum \in Int
      BY EditsAssumption, U32Assumption DEF Envelope, Word
    <3>3. composition'.minimum = e.minimum
      BY <2>2, <3>1 DEF Shaped, Made
    <3>4. Counters'
      BY <2>1, <2>2, <3>1, <3>2 DEF Counters
    <3>5. ShortfallOwed'
      <4>1. /\ budget.deployable \in Int /\ budget.spent \in Int
            /\ claimed \in Int /\ granted \in Int /\ shortfall \in Int
        BY U32Assumption DEF Counters, Budgets, ShortfallType, Word
      <4> QED
        BY <2>1, <2>2, <3>1, <3>2, <3>3, <4>1 DEF ShortfallOwed
    <3> QED
      BY <2>1, <3>4, <3>5 DEF OpenedOnMinimum, RoomsFunded, ShortfallType
  <2>5. EditOverride \/ EditTier \/ EditPrimary \/ EditCounter
          => composition'.minimum = composition.minimum
    BY <2>2 DEF EditOverride, EditTier, EditPrimary, EditCounter, Shaped, Made
  <2> QED
    BY <1>4, <2>3, <2>4, <2>5 DEF Edit
<1>5. ASSUME NEW n \in Tokens, Spend(n)
      PROVE  Counters' /\ ShortfallOwed' /\ OpenedOnMinimum' /\ RoomsFunded'
               /\ ShortfallType'
  <2>1. n \in Nat /\ moves' \in 0 .. MaxMoves
    BY <1>5, BudgetsAssumption DEF Spend, Move, Counters
  <2>2. Counters'
    BY <1>5, <2>1 DEF Spend, Counters, Budgets
  <2>3. ShortfallOwed'
    <3>1. CASE pc = "pending"
      <4>1. /\ budget.deployable \in Int /\ budget.spent \in Int
            /\ claimed \in Int /\ granted \in Int /\ shortfall \in Int
            /\ composition.minimum \in Int
        BY <3>1, ComposedBudget, U32Assumption
        DEF Counters, Budgets, ShortfallType, Word, ComposedPcs
      <4>2. /\ budget'.deployable = budget.deployable
            /\ budget'.spent = budget.spent + n
        BY <1>5 DEF Spend, Counters, Budgets
      <4>3. /\ claimed' = claimed + n /\ granted' = granted
            /\ UNCHANGED <<composition, shortfall>>
        BY <1>5 DEF Spend, Move
      <4> QED
        BY <2>1, <3>1, <4>1, <4>2, <4>3 DEF ShortfallOwed
    <3>2. CASE pc # "pending"
      BY <1>5, <3>2 DEF Spend, Move, ShortfallOwed
    <3> QED
      BY <3>1, <3>2
  <2> QED
    BY <1>5, <2>2, <2>3 DEF Spend, Move, OpenedOnMinimum, RoomsFunded, ShortfallType
<1>6. ASSUME NEW n \in Tokens, Grant(n)
      PROVE  Counters' /\ ShortfallOwed' /\ OpenedOnMinimum' /\ RoomsFunded'
               /\ ShortfallType'
  <2>1. n \in Nat /\ moves' \in 0 .. MaxMoves
    BY <1>6, BudgetsAssumption DEF Grant, Move, Counters
  <2>2. Counters'
    BY <1>6, <2>1 DEF Grant, Counters, Budgets
  <2>3. ShortfallOwed'
    <3>1. CASE pc = "pending"
      <4>1. /\ budget.deployable \in Int /\ budget.spent \in Int
            /\ claimed \in Int /\ granted \in Int /\ shortfall \in Int
            /\ composition.minimum \in Int
        BY <3>1, ComposedBudget, U32Assumption
        DEF Counters, Budgets, ShortfallType, Word, ComposedPcs
      <4>2. /\ budget'.deployable = budget.deployable + n
            /\ budget'.spent = budget.spent
        BY <1>6 DEF Grant, Counters, Budgets
      <4>3. /\ claimed' = claimed /\ granted' = granted + n
            /\ UNCHANGED <<composition, shortfall>>
        BY <1>6 DEF Grant, Move
      <4>4. composition.minimum - (budget.deployable - budget.spent)
              = shortfall + claimed - granted
        BY <3>1 DEF ShortfallOwed
      <4>5. composition.minimum - ((budget.deployable + n) - budget.spent)
              = shortfall + claimed - (granted + n)
        BY <2>1, <4>1, <4>4
      <4> QED
        BY <4>2, <4>3, <4>5 DEF ShortfallOwed
    <3>2. CASE pc # "pending"
      BY <1>6, <3>2 DEF Grant, Move, ShortfallOwed
    <3> QED
      BY <3>1, <3>2
  <2> QED
    BY <1>6, <2>2, <2>3 DEF Grant, Move, OpenedOnMinimum, RoomsFunded, ShortfallType
<1>7. CASE UNCHANGED vars
  BY <1>7 DEF vars, historyVars, Counters, ShortfallOwed, OpenedOnMinimum,
              DeployableRemaining, RoomsFunded, ShortfallType
<1> QED
  BY <1>1, <1>2, <1>3, <1>4, <1>5, <1>6, <1>7 DEF Next, Finished

\* The budget's counters, the rooms' funds and the shortfall agree in every
\* reachable state.
LEMMA FundHolds == Spec => []FundInv
BY FundInit, FundStep, PTL DEF Spec

\* Rooms open on the minimum; and what has to be granted until then is exactly the
\* shortfall and what was claimed beside it.
THEOREM ShortfallExact == Spec => []ShortfallSuffices
<1>1. FundInv => ShortfallSuffices
  <2> SUFFICES ASSUME FundInv, pc = "pending", composition.minimum > 0
               PROVE  granted >= shortfall + claimed
                        <=> DeployableRemaining >= composition.minimum
    BY DEF ShortfallSuffices, FundInv, OpenedOnMinimum
  <2>1. composition.minimum \in Int /\ shortfall \in Int
    BY ComposedBudget, U32Assumption DEF FundInv, ComposedPcs, ShortfallType, Word
  <2> QED
    BY <2>1 DEF FundInv, Counters, Budgets, ShortfallOwed, DeployableRemaining
<1> QED
  BY <1>1, FundHolds, PTL

\* Where the configuration is consistent and the envelope is as composed, the
\* primary room gets at least the tier's minimum and at most the cap, unless the
\* base canvas has no token to scale.
THEOREM PrimaryFunded == Spec => []FundedPrimary
<1>1. FundInv => FundedPrimary
  <2> SUFFICES ASSUME FundInv, pc = "active", Untouched("budget"),
                      config.minimum[tier] <= config.cap, 2 * config.minimum[tier] < U32
               PROVE  \/ rooms.primary.budget.total \in config.minimum[tier] .. config.cap
                      \/ rooms.primary.budget \in Bases /\ rooms.primary.budget.total = 0
    BY DEF FundedPrimary
  <2>1. /\ composition.recommended = Recommended(config, tier)
        /\ composition.recommended \in Word
        /\ config.minimum[tier] \in Word /\ config.cap \in Word
    BY ComposedBudget, ConfigsAssumption
    DEF FundInv, GovInv, CompositionMade, Asks, ComposedPcs, Config
  <2>2. PICK base \in Bases : rooms.primary.budget \in Scaled(base, composition.recommended)
    BY DEF FundInv, RoomsFunded
  <2>3. \/ rooms.primary.budget = base /\ base.total = 0
        \/ rooms.primary.budget.total = composition.recommended
    BY <2>1, <2>2, BasesAssumption, ScaledType
  <2>4. composition.recommended \in config.minimum[tier] .. config.cap
    BY <2>1, U32Assumption DEF Recommended, Lesser, Word
  <2> QED
    BY <2>3, <2>4
<1> QED
  BY <1>1, FundHolds, PTL

\* The pools of a room add up to its total but for the pools' last tokens.
THEOREM PoolsFollowTotal == Spec => []PoolsNearTotal
<1>1. FundInv => PoolsNearTotal
  <2> SUFFICES ASSUME FundInv, pc = "active", \A b \in Bases : SumOf(b.pools) <= b.total,
                      NEW r \in OpenRoomSet
               PROVE  SumOf(r.budget.pools)
                        <= r.budget.total + Cardinality(Minimal(r.budget.pools))
    BY DEF PoolsNearTotal
  <2>1. PICK base \in Bases :
          /\ rooms.primary.budget \in Scaled(base, composition.recommended)
          /\ \A c \in rooms.counter : c.budget \in Scaled(base, config.counterCap)
    BY DEF FundInv, RoomsFunded
  <2>2. /\ composition.recommended \in Word /\ config.counterCap \in Word
        /\ base \in CanvasBudget
    BY ComposedBudget, ConfigsAssumption, BasesAssumption
    DEF FundInv, GovInv, Asks, ComposedPcs, Config, CanvasBudget
  <2>3. PICK slice \in Word : r.budget \in Scaled(base, slice)
    BY <2>1, <2>2 DEF OpenRoomSet
  <2> QED
    BY <2>2, <2>3, ScaledSum
<1> QED
  BY <1>1, FundHolds, PTL

\* Every variable keeps its type; rooms get budgets of u32s.
THEOREM TypeCorrect == Spec => []TypeOK
<1> DEFINE Pcs == pc \in {"assess", "compose", "check", "init", "pending", "active",
                         "refused", "panicked"}
           Early == pc \in {"assess", "compose", "panicked"} =>
                      tier \in Tier /\ composition = NoComposition
           Noted == edited \subseteq Fields /\ late \subseteq Fields
<1>1. Init => Pcs /\ Early /\ Noted
  BY DEF Init, Tier
<1>2. FundInv /\ Pcs /\ Early /\ [Next]_vars => (Pcs /\ Early)'
  <2> SUFFICES ASSUME FundInv, Pcs, Early, [Next]_vars
               PROVE  (Pcs /\ Early)'
    OBVIOUS
  <2>1. TierOf(config, request) \in Tier
    BY FloorsHold, ConfigsAssumption DEF FundInv, GovInv, Asks
  <2> QED
    BY <2>1 DEF Next, vars, Assess, Compose, ComposePanics, CheckConstitution, OpenRooms,
                AwaitBudget, Edit, Spend, Grant, Move, Finished
<1>3. FundInv /\ Pcs /\ Noted /\ [Next]_vars => Noted'
  <2> SUFFICES ASSUME FundInv, Pcs, Noted, [Next]_vars
               PROVE  Noted'
    OBVIOUS
  <2>1. CASE Edit
    <3>1. Shaped
      BY <2>1 DEF FundInv, GovInv, CompositionMade, ComposedPcs, Edit
    <3>2. PICK field \in Fields : Assigned(field)
      BY <2>1, <3>1, EditWrites
    <3> QED
      BY <3>2 DEF Assigned
  <2>2. CASE ~Edit
    BY <2>2 DEF Next, vars, historyVars, Assess, Compose, ComposePanics,
                CheckConstitution, OpenRooms, AwaitBudget, Spend, Grant, Finished
  <2> QED
    BY <2>1, <2>2
<1>4. FundInv /\ Pcs /\ Early /\ Noted => TypeOK
  <2> SUFFICES ASSUME FundInv, Pcs, Early, Noted
               PROVE  TypeOK
    OBVIOUS
  <2>1. /\ tier \in Tier
        /\ composition.recommended \in Word /\ composition.minimum \in Word
    BY ComposedBudget, U32Assumption DEF FundInv, ComposedPcs, NoComposition, Word
  <2>2. ASSUME pc = "active"
        PROVE  \A r \in OpenRoomSet : r.budget \in CanvasBudget
    <3>1. config.counterCap \in Word
      BY ConfigsAssumption DEF FundInv, GovInv, Asks, Config
    <3> QED
      BY <2>1, <2>2, <3>1, ScaledType, BasesAssumption
      DEF FundInv, RoomsFunded, OpenRoomSet
  <2> QED
    BY <2>1, <2>2 DEF TypeOK, FundInv, GovInv, Asks, Counters, ShortfallType
<1> QED
  BY <1>1, <1>2, <1>3, <1>4, FundInit, FundStep, PTL DEF Spec
=============================================================================
