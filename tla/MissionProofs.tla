---------------------------- MODULE MissionProofs ----------------------------
(***************************************************************************)
(* What a mission guarantees for every set of sub-objectives, every plan   *)
(* the meta-moderator may answer and every budget.                         *)
(***************************************************************************)
EXTENDS Mission, FiniteSetTheorems, SequenceTheorems, TLAPS

\* How often a plan names an objective is a number, and at least 1 if it does.
LEMMA OccurrencesType ==
    ASSUME NEW ids \in Seq(Ids), NEW id
    PROVE  /\ Occurrences(id, ids) \in Nat
           /\ id \in Named(ids) => Occurrences(id, ids) >= 1
<1> DEFINE at == {i \in DOMAIN ids : ids[i] = id}
<1>1. DOMAIN ids = 1 .. Len(ids) /\ Len(ids) \in Nat
  OBVIOUS
<1>2. IsFiniteSet(1 .. Len(ids))
  BY <1>1, FS_Interval
<1>3. at \in SUBSET (1 .. Len(ids))
  BY <1>1
<1>4. IsFiniteSet(at)
  BY <1>2, <1>3, FS_Subset
<1>5. Cardinality(at) \in Nat
  BY <1>4, FS_CardinalityType
<1>6. id \in Named(ids) => at # {}
  BY DEF Named
<1>7. Cardinality(at) = 0 <=> at = {}
  BY <1>4, FS_EmptySet
<1> QED
  BY <1>5, <1>6, <1>7 DEF Occurrences

\* A plan list of the meta-moderator, and what is left of one, holds plans.
LEMMA PlansType ==
    ASSUME TypeOK
    PROVE  /\ \A new \in Answers : new \in Seq(Plan) /\ new \o pending \in Seq(Plan)
           /\ pending # <<>> =>
                /\ Head(pending) \in Plan
                /\ Tail(pending) \in Seq(Plan)
                /\ Head(pending).objectives \in Seq(Ids)
                /\ Head(pending).slice \in Nat
           /\ targets # <<>> => Target \in Ids /\ Tail(targets) \in Seq(Ids)
           /\ plan.objectives \in Seq(Ids)
<1>1. pending \in Seq(Plan) /\ targets \in Seq(Ids) /\ plan \in Plan
  BY DEF TypeOK
<1>2. \A new \in Answers : new \in Seq(Plan)
  BY AnswersAssumption
<1>3. \A new \in Answers : new \o pending \in Seq(Plan)
  BY <1>1, <1>2, ConcatProperties
<1>4. pending # <<>> => Head(pending) \in Plan /\ Tail(pending) \in Seq(Plan)
  BY <1>1, HeadTailProperties
<1>5. targets # <<>> => Head(targets) \in Ids /\ Tail(targets) \in Seq(Ids)
  BY <1>1, HeadTailProperties
<1> QED
  BY <1>1, <1>2, <1>3, <1>4, <1>5 DEF Plan, Ids, Target

\* Counting and giving up objectives keeps both functions in their types.
LEMMA CountType ==
    ASSUME TypeOK, CountReplan
    PROVE  counts' \in [Ids -> Nat] /\ status' \in [Objectives -> Statuses]
<1>1. plan.objectives \in Seq(Ids)
  BY PlansType
<1>2. \A id \in Ids : counts[id] \in Nat /\ Occurrences(id, plan.objectives) \in Nat
  BY <1>1, OccurrencesType DEF TypeOK
<1>3. Tally \in [Ids -> Nat]
  BY <1>2 DEF Tally
<1>4. \A o \in Objectives :
        (IF GivenUp(o) THEN "OutOfScope" ELSE status[o]) \in Statuses
  BY DEF TypeOK, Statuses
<1> QED
  BY <1>3, <1>4 DEF CountReplan

\* Every step keeps every field in its type.
LEMMA StepType == TypeOK /\ [Next]_vars => TypeOK'
<1> SUFFICES ASSUME TypeOK, [Next]_vars
             PROVE  TypeOK'
  OBVIOUS
<1> USE DEF vars, engineVars, localVars
<1>1. CASE Strategize
  BY <1>1, PlansType DEF TypeOK, Strategize
<1>2. CASE BudgetExhausted
  BY <1>2 DEF TypeOK, BudgetExhausted
<1>3. CASE UnknownCanvas
  BY <1>3 DEF TypeOK, UnknownCanvas
<1>4. CASE RunSession
  <2>1. PICK tokens \in Reports :
           /\ spent' = spent + tokens
           /\ guarded' = guarded + (IF Head(pending).slice = 0 THEN 0 ELSE tokens)
    BY <1>4 DEF RunSession
  <2>2. Excess \in Nat /\ Head(pending).slice \in Nat /\ Head(pending) \in Plan
        /\ Tail(pending) \in Seq(Plan) /\ Head(pending).objectives \in Seq(Ids)
    BY <1>4, PlansType, MissionBudgetAssumption DEF RunSession
  <2>3. guarded' \in Nat /\ spent' \in Nat
    BY <2>1, <2>2 DEF TypeOK, Reports
  <2> QED
    BY <1>4, <2>2, <2>3 DEF TypeOK, RunSession
<1>5. CASE SkipTarget
  BY <1>5, PlansType DEF TypeOK, SkipTarget, AtTarget
<1>6. ASSUME NEW verdict \in {"yes", "no"}, Judge(verdict)
      PROVE  TypeOK'
  <2>1. status' \in [Objectives -> Statuses]
    BY <1>6 DEF TypeOK, Judge, Statuses
  <2>2. output' \in [Objectives -> Nat]
    <3>1. Len(sessions) + 1 \in Nat
      BY LenProperties DEF TypeOK
    <3> QED BY <1>6, <3>1 DEF TypeOK, Judge
  <2>3. lastEval' \in [Objectives -> {"none", "yes", "no"}]
    BY <1>6 DEF TypeOK, Judge
  <2>4. targets' \in Seq(Ids)
    BY <1>6, PlansType DEF Judge, AtTarget
  <2>5. satisfied' \in BOOLEAN
    BY <1>6 DEF TypeOK, Judge
  <2> QED
    BY <1>6, <2>1, <2>2, <2>3, <2>4, <2>5 DEF TypeOK, Judge, AtTarget
<1>7. CASE JudgeFails
  BY <1>7 DEF TypeOK, JudgeFails, Statuses
<1>8. CASE RecordSession
  <2>1. [objectives |-> plan.objectives, satisfied |-> satisfied]
           \in [objectives : Seq(Ids), satisfied : BOOLEAN]
    BY PlansType DEF TypeOK
  <2>2. sessions' \in Seq([objectives : Seq(Ids), satisfied : BOOLEAN])
    BY <1>8, <2>1, AppendProperties DEF TypeOK, RecordSession
  <2> QED
    BY <1>8, <2>2 DEF TypeOK, RecordSession
<1>9. CASE CountReplan
  BY <1>9, CountType DEF TypeOK, CountReplan
<1>10. CASE Replan
  BY <1>10, PlansType DEF TypeOK, Replan
<1>11. CASE CheckMission
  BY <1>11 DEF TypeOK, CheckMission
<1>12. CASE CompleteMission
  BY <1>12 DEF TypeOK, CompleteMission, parse_farga_verdict
<1>13. CASE CallFails
  BY <1>13 DEF TypeOK, CallFails
<1>14. CASE RunAgain
  BY <1>14 DEF TypeOK, RunAgain, NoPlan, Plan
<1>15. CASE UNCHANGED vars
  BY <1>15 DEF TypeOK
<1> QED
  BY <1>1, <1>2, <1>3, <1>4, <1>5, <1>6, <1>7, <1>8, <1>9, <1>10, <1>11, <1>12,
     <1>13, <1>14, <1>15 DEF Next, RunStep, Stopped, check

\* A new engine has pending objectives, no counts and nothing spent (engine.rs).
LEMMA InitType == Init => TypeOK
BY DEF Init, TypeOK, Statuses, NoPlan, Plan, Ids

\* The fields of the engine and the locals of run() keep their types, whatever
\* the meta-moderator and the evaluator answer.
THEOREM TypeCorrect == Spec => []TypeOK
BY InitType, StepType, PTL DEF Spec

-----------------------------------------------------------------------------
(* The deployable budget. *)

\* What the guard holds is part of deployable_spent, which sessions of an empty
\* slice raise as well.
GuardInv == guarded <= spent /\ WithinDeployable

\* The guard lets no session of a planned slice begin that could take more than
\* its excess beyond the budget.
LEMMA SessionHeld ==
    ASSUME TypeOK, GuardInv, RunSession
    PROVE  GuardInv'
<1>1. PICK tokens \in Reports :
        /\ spent' = spent + tokens
        /\ guarded' = guarded + (IF Head(pending).slice = 0 THEN 0 ELSE tokens)
  BY DEF RunSession
<1>2. Head(pending).slice \in Nat /\ Head(pending).slice <= Remaining
  BY PlansType DEF RunSession
<1>3. /\ Deployable \in Nat /\ Excess \in Nat /\ guarded \in Nat /\ spent \in Nat
      /\ guarded <= spent /\ guarded <= Deployable + Excess
  BY MissionBudgetAssumption DEF TypeOK, GuardInv, WithinDeployable
<1>4. tokens \in Nat /\ tokens <= Head(pending).slice + Excess
  BY <1>2, <1>3 DEF Reports
<1>5. CASE Head(pending).slice = 0
  BY <1>1, <1>3, <1>4, <1>5 DEF GuardInv, WithinDeployable
<1>6. CASE Head(pending).slice # 0
  <2>1. spent + Head(pending).slice <= Deployable
    BY <1>2, <1>3, <1>6 DEF Remaining
  <2> QED
    BY <1>1, <1>2, <1>3, <1>4, <1>6, <2>1 DEF GuardInv, WithinDeployable
<1> QED
  BY <1>5, <1>6

\* Only a session's report changes either.
LEMMA StepGuards == TypeOK /\ GuardInv /\ [Next]_vars => GuardInv'
<1> SUFFICES ASSUME TypeOK, GuardInv, [Next]_vars
             PROVE  GuardInv'
  OBVIOUS
<1>1. CASE RunSession
  BY <1>1, SessionHeld
<1>2. CASE UNCHANGED <<guarded, spent>>
  BY <1>2 DEF GuardInv, WithinDeployable
<1> QED
  BY <1>1, <1>2
  DEF Next, RunStep, Strategize, BudgetExhausted, UnknownCanvas, SkipTarget,
      Judge, JudgeFails, RecordSession, CountReplan, Replan, CheckMission,
      CompleteMission, CallFails, RunAgain, Stopped, vars, engineVars, localVars

\* What sessions of a planned slice report never gets past the deployable budget by
\* more than one session's excess, in all runs of an engine together; what is not
\* reported is not held.
THEOREM DeployableHeld == Spec => []WithinDeployable
<1>1. Init => GuardInv
  BY MissionBudgetAssumption DEF Init, GuardInv, WithinDeployable
<1>2. GuardInv => WithinDeployable
  BY DEF GuardInv
<1> QED
  BY TypeCorrect, StepGuards, <1>1, <1>2, PTL DEF Spec
-----------------------------------------------------------------------------
(* The number of replans. *)

\* One slot per sub-objective and count below the limit; taken when the count
\* has reached it.  Every replan is preceded by a count that takes a slot.
Slots == Objectives \X (1 .. Limit - 1)
Taken == {s \in Slots : s[2] <= counts[s[1]]}

SlotsCover ==
    replans + (IF pc = "replan" THEN 1 ELSE 0) <= Cardinality(Taken)

\* There are (Limit - 1) slots for each sub-objective.
LEMMA SlotsFinite ==
    /\ IsFiniteSet(Slots)
    /\ Cardinality(Slots) = (Limit - 1) * Cardinality(Objectives)
<1>0. 1 \in Int /\ Limit - 1 \in Int /\ Limit - 1 = 2
  BY DEF Limit
<1>1. IsFiniteSet(1 .. Limit - 1) /\ Cardinality(1 .. Limit - 1) = Limit - 1
  <2>1. /\ IsFiniteSet(1 .. Limit - 1)
        /\ Cardinality(1 .. Limit - 1) =
             IF 1 > Limit - 1 THEN 0 ELSE (Limit - 1) - 1 + 1
    BY <1>0, FS_Interval
  <2> QED BY <1>0, <2>1
<1>2. IsFiniteSet(Objectives) /\ Cardinality(Objectives) \in Nat
  BY ObjectivesAssumption, FS_CardinalityType
<1>3. /\ IsFiniteSet(Slots)
      /\ Cardinality(Slots) = Cardinality(Objectives) * Cardinality(1 .. Limit - 1)
  BY <1>1, <1>2, FS_Product DEF Slots
<1> QED
  BY <1>1, <1>2, <1>3 DEF Limit

\* The slots taken, before and after a step, are finitely many of these.
LEMMA TakenFinite ==
    /\ IsFiniteSet(Taken) /\ IsFiniteSet(Taken')
    /\ Cardinality(Taken) \in Nat /\ Cardinality(Taken') \in Nat
    /\ Cardinality(Taken) <= (Limit - 1) * Cardinality(Objectives)
<1>1. Taken \in SUBSET Slots /\ Taken' \in SUBSET Slots
  BY DEF Taken, Slots
<1>2. IsFiniteSet(Taken) /\ IsFiniteSet(Taken')
      /\ Cardinality(Taken) <= Cardinality(Slots)
  BY <1>1, SlotsFinite, FS_Subset
<1> QED
  BY <1>2, SlotsFinite, FS_CardinalityType

\* Counts never fall, so a slot once taken stays taken.
LEMMA TakenGrows ==
    ASSUME TypeOK, CountReplan
    PROVE  Taken \subseteq Taken'
<1>1. \A o \in Objectives :
        counts[o] \in Nat /\ counts'[o] \in Nat /\ counts'[o] >= counts[o]
  <2> TAKE o \in Objectives
  <2>1. o \in Ids /\ counts[o] \in Nat
    BY DEF Ids, TypeOK
  <2>2. Occurrences(o, plan.objectives) \in Nat
    BY PlansType, OccurrencesType
  <2>3. counts'[o] = counts[o] + Occurrences(o, plan.objectives)
    BY <2>1 DEF CountReplan, Tally
  <2> QED
    BY <2>1, <2>2, <2>3
<1> QED
  BY <1>1 DEF Taken, Slots, Limit

\* A replan is asked for only when some objective of the plan is not given
\* up; its count has just taken a new slot.
LEMMA ReplanTakesSlot ==
    ASSUME TypeOK, CountReplan, pc' = "replan"
    PROVE  \E s \in Slots : s \in Taken' /\ s \notin Taken
<1>1. PICK o \in Objectives \cap Named(plan.objectives) :
         status'[o] \in {"Pending", "InProgress"}
  BY DEF CountReplan
<1>2. o \in Ids /\ counts[o] \in Nat
  BY DEF Ids, TypeOK
<1>3. ~GivenUp(o)
  BY <1>1 DEF CountReplan
<1>4. Tally[o] < Limit
  <2>1. Tally[o] \in Nat
    BY <1>2, PlansType, OccurrencesType DEF Tally
  <2> QED BY <1>1, <1>3, <2>1 DEF GivenUp, Limit
<1>5. /\ Occurrences(o, plan.objectives) \in Nat
      /\ Occurrences(o, plan.objectives) >= 1
  BY <1>1, PlansType, OccurrencesType
<1>6. counts'[o] = counts[o] + Occurrences(o, plan.objectives) /\ counts'[o] < Limit
  BY <1>2, <1>4 DEF CountReplan, Tally
<1>7. counts'[o] \in 1 .. Limit - 1 /\ counts'[o] > counts[o]
  BY <1>2, <1>5, <1>6 DEF Limit
<1>8. <<o, counts'[o]>> \in Slots
  BY <1>7 DEF Slots
<1> QED
  BY <1>2, <1>7, <1>8 DEF Taken

\* Each replan takes a slot of its own: no step asks for a replan (do_replan)
\* unless the count before it took one.
LEMMA StepCovers == TypeOK /\ SlotsCover /\ [Next]_vars => SlotsCover'
<1> SUFFICES ASSUME TypeOK, SlotsCover, [Next]_vars
             PROVE  SlotsCover'
  OBVIOUS
<1>0. replans \in Nat
  BY DEF TypeOK
<1>1. CASE CountReplan
  <2>1. replans' = replans /\ pc = "count"
    BY <1>1 DEF CountReplan
  <2>2. Cardinality(Taken) <= Cardinality(Taken')
    BY <1>1, TakenGrows, TakenFinite, FS_Subset
  <2>3. CASE pc' = "replan"
    <3>1. PICK s : s \in Taken' /\ s \notin Taken
      BY <1>1, <2>3, ReplanTakesSlot
    <3>2. Taken # Taken' /\ Taken \subseteq Taken'
      BY <1>1, <3>1, TakenGrows
    <3>3. Cardinality(Taken) # Cardinality(Taken')
      BY <3>2, TakenFinite, FS_Subset
    <3> QED
      BY <1>0, <2>1, <2>2, <2>3, <3>3, TakenFinite DEF SlotsCover
  <2>4. CASE pc' # "replan"
    BY <1>0, <2>1, <2>2, <2>4, TakenFinite DEF SlotsCover
  <2> QED
    BY <2>3, <2>4
<1>2. CASE Replan
  <2>1. pc = "replan" /\ pc' = "loop" /\ replans' = replans + 1 /\ counts' = counts
    BY <1>2 DEF Replan, engineVars
  <2>2. Taken' = Taken
    BY <2>1 DEF Taken
  <2> QED
    BY <1>0, <2>1, <2>2, TakenFinite DEF SlotsCover
<1>3. CASE /\ replans' = replans /\ counts' = counts
           /\ pc' = "replan" => pc = "replan"
  <2>1. Taken' = Taken
    BY <1>3 DEF Taken
  <2> QED
    BY <1>0, <1>3, <2>1, TakenFinite DEF SlotsCover
<1> QED
  BY <1>1, <1>2, <1>3
  DEF Next, RunStep, Strategize, BudgetExhausted, UnknownCanvas, RunSession,
      SkipTarget, Judge, JudgeFails, RecordSession, CheckMission,
      CompleteMission, CallFails, RunAgain, Stopped, vars, engineVars, localVars

\* The meta-moderator is asked to replan at most twice per sub-objective, in
\* all runs of an engine together: the counts bound the loop of run().
THEOREM ReplansHeld == Spec => []ReplansBounded
<1>1. Init => SlotsCover
  BY TakenFinite DEF Init, SlotsCover
<1>2. TypeOK /\ SlotsCover => ReplansBounded
  <2> SUFFICES ASSUME TypeOK, SlotsCover
               PROVE  replans <= (Limit - 1) * Cardinality(Objectives)
    BY DEF ReplansBounded
  <2>1. replans \in Nat
    BY DEF TypeOK
  <2>2. Cardinality(Objectives) \in Nat
    BY ObjectivesAssumption, FS_CardinalityType
  <2>3. replans <= Cardinality(Taken)
    BY <2>1, TakenFinite DEF SlotsCover
  <2> QED
    BY <2>1, <2>2, <2>3, TakenFinite DEF Limit
<1> QED
  BY TypeCorrect, StepCovers, <1>1, <1>2, PTL DEF Spec
-----------------------------------------------------------------------------
(* Evidence: what a judgment leaves behind until its session is recorded. *)

\* The objectives of the plan whose judgment is over.
Judged == Named(plan.objectives) \ Named(targets)

\* An id is judged, or passed over, by taking the head of the targets off.
LEMMA NamedHead ==
    ASSUME NEW ids \in Seq(Ids), ids # <<>>
    PROVE  Named(ids) = {Head(ids)} \cup Named(Tail(ids))
<1>1. /\ Len(ids) \in Nat /\ Len(ids) >= 1 /\ DOMAIN ids = 1 .. Len(ids)
      /\ Head(ids) = ids[1] /\ Tail(ids) \in Seq(Ids)
      /\ DOMAIN Tail(ids) = 1 .. Len(ids) - 1
      /\ \A i \in 1 .. Len(ids) - 1 : Tail(ids)[i] = ids[i + 1]
  BY HeadTailProperties
<1>2. \A i \in DOMAIN ids : ids[i] \in {Head(ids)} \cup Named(Tail(ids))
  <2> TAKE i \in DOMAIN ids
  <2>1. CASE i = 1
    BY <1>1, <2>1
  <2>2. CASE i # 1
    <3>1. i - 1 \in 1 .. Len(ids) - 1 /\ ids[i] = Tail(ids)[i - 1]
      BY <1>1, <2>2
    <3> QED BY <1>1, <3>1 DEF Named
  <2> QED BY <2>1, <2>2
<1>3. \A i \in DOMAIN Tail(ids) : Tail(ids)[i] \in Named(ids)
  <2> TAKE i \in DOMAIN Tail(ids)
  <2>1. i + 1 \in DOMAIN ids /\ Tail(ids)[i] = ids[i + 1]
    BY <1>1
  <2> QED BY <2>1 DEF Named
<1>4. Head(ids) \in Named(ids)
  BY <1>1 DEF Named
<1> QED
  BY <1>2, <1>3, <1>4 DEF Named

\* Targets are objectives of the plan.  What was judged is Complete or has the
\* reason why not; if all were satisfied, all exist and have an output.
JudgedInv ==
    pc = "evaluate" =>
        /\ Named(targets) \subseteq Named(plan.objectives)
        /\ \A o \in Objectives \cap Judged :
             status[o] = "Complete" \/ lastEval[o] = "no"
        /\ satisfied => \A id \in Judged : id \in Objectives /\ output[id] # 0

\* What is Complete has an output.
CompleteHasOutput == \A o \in Objectives : status[o] = "Complete" => output[o] # 0

\* The failed session is on record before it is counted and replanned.
RecordedInv ==
    pc \in {"count", "replan"} =>
        /\ sessions # <<>>
        /\ ~sessions[Len(sessions)].satisfied
        /\ sessions[Len(sessions)].objectives = plan.objectives
        /\ \A o \in Objectives \cap Named(plan.objectives) :
             status[o] \in {"Pending", "InProgress"} => lastEval[o] = "no"

EvidenceInv ==
    /\ runs >= 1
    /\ JudgedInv /\ CompleteHasOutput /\ RecordedInv
    /\ SatisfiedSessionsMet /\ CompleteHasEvidence

\* Judging the next target, or passing it over, judges that one and no other.
LEMMA TargetJudged ==
    ASSUME TypeOK, JudgedInv, AtTarget, targets' = Tail(targets), plan' = plan
    PROVE  /\ Target \in Named(plan.objectives)
           /\ Named(targets') \subseteq Named(plan.objectives)
           /\ Judged' \subseteq Judged \cup {Target}
<1>1. targets \in Seq(Ids) /\ targets # <<>>
  BY DEF TypeOK, AtTarget
<1>2. Named(targets) = {Target} \cup Named(targets')
  BY <1>1, NamedHead DEF Target
<1>3. Named(targets) \subseteq Named(plan.objectives)
  BY DEF JudgedInv, AtTarget
<1>4. Judged' = Named(plan.objectives) \ Named(targets')
  BY DEF Judged, Named
<1> QED
  BY <1>2, <1>3, <1>4 DEF Judged

\* A judgment leaves evidence, whatever it says.
LEMMA JudgeEvident ==
    ASSUME TypeOK, EvidenceInv, NEW verdict \in {"yes", "no"}, Judge(verdict)
    PROVE  EvidenceInv'
<1>1. /\ pc = "evaluate" /\ pc' = "evaluate" /\ targets' = Tail(targets)
      /\ AtTarget /\ Target \in Objectives /\ status[Target] # "Complete"
      /\ UNCHANGED <<sessions, plan, runs>>
      /\ lastEval' = [lastEval EXCEPT ![Target] = verdict]
  BY DEF Judge, AtTarget
<1>2. /\ Target \in Named(plan.objectives)
      /\ Named(targets') \subseteq Named(plan.objectives)
      /\ Judged' \subseteq Judged \cup {Target}
  BY <1>1, TargetJudged DEF EvidenceInv
<1>3. \/ /\ verdict = "yes" /\ satisfied' = satisfied
         /\ status' = [status EXCEPT ![Target] = "Complete"]
         /\ output' = [output EXCEPT ![Target] = Len(sessions) + 1]
      \/ /\ verdict = "no" /\ ~satisfied'
         /\ status' = [status EXCEPT ![Target] = "InProgress"]
         /\ output' = output
  BY DEF Judge
<1>4. /\ status \in [Objectives -> Statuses] /\ output \in [Objectives -> Nat]
      /\ lastEval \in [Objectives -> {"none", "yes", "no"}]
      /\ Len(sessions) \in Nat /\ Len(sessions) + 1 # 0
  BY DEF TypeOK
<1>5. \A o \in Objectives : output[o] # 0 => output'[o] # 0
  BY <1>3, <1>4
<1>6. JudgedInv'
  <2>1. \A o \in Objectives \cap Judged' : status'[o] = "Complete" \/ lastEval'[o] = "no"
    BY <1>1, <1>2, <1>3, <1>4 DEF EvidenceInv, JudgedInv
  <2>2. satisfied' => \A id \in Judged' : id \in Objectives /\ output'[id] # 0
    BY <1>1, <1>2, <1>3, <1>4, <1>5 DEF EvidenceInv, JudgedInv
  <2> QED
    BY <1>1, <1>2, <2>1, <2>2 DEF JudgedInv
<1>7. CompleteHasOutput'
  BY <1>3, <1>4, <1>5 DEF EvidenceInv, CompleteHasOutput
<1>8. SatisfiedSessionsMet'
  BY <1>1, <1>5 DEF EvidenceInv, SatisfiedSessionsMet
<1>9. CompleteHasEvidence'
  BY <1>1, <1>2, <1>3, <1>4 DEF EvidenceInv, CompleteHasEvidence
<1> QED
  BY <1>1, <1>6, <1>7, <1>8, <1>9 DEF EvidenceInv, RecordedInv

\* The record of a session says what was judged.
LEMMA RecordEvident ==
    ASSUME TypeOK, EvidenceInv, RecordSession
    PROVE  EvidenceInv'
<1> DEFINE record == [objectives |-> plan.objectives, satisfied |-> satisfied]
<1>1. /\ pc = "evaluate" /\ targets = <<>>
      /\ pc' = IF satisfied THEN "loop" ELSE "count"
      /\ sessions' = Append(sessions, record)
      /\ UNCHANGED <<status, output, lastEval, plan, runs>>
  BY DEF RecordSession, localVars
<1>2. /\ Len(sessions) \in Nat
      /\ DOMAIN sessions = 1 .. Len(sessions)
      /\ DOMAIN sessions' = 1 .. Len(sessions) + 1
      /\ Len(sessions') = Len(sessions) + 1
      /\ sessions'[Len(sessions) + 1] = record
      /\ \A i \in DOMAIN sessions : sessions'[i] = sessions[i]
  BY <1>1, AppendProperties DEF TypeOK
<1>3. Judged = Named(plan.objectives)
  BY <1>1 DEF Judged, Named
<1>4. JudgedInv' /\ CompleteHasOutput'
  BY <1>1 DEF EvidenceInv, JudgedInv, CompleteHasOutput
<1>5. RecordedInv'
  <2>1. sessions' # <<>>
    BY <1>2
  <2>2. \A o \in Objectives \cap Named(plan.objectives) :
          status[o] \in {"Pending", "InProgress"} => lastEval[o] = "no"
    BY <1>1, <1>3 DEF EvidenceInv, JudgedInv
  <2> QED
    BY <1>1, <1>2, <2>1, <2>2 DEF RecordedInv
<1>6. SatisfiedSessionsMet'
  <2>1. satisfied => \A id \in Named(plan.objectives) : id \in Objectives /\ output[id] # 0
    BY <1>1, <1>3 DEF EvidenceInv, JudgedInv
  <2> QED
    BY <1>1, <1>2, <2>1 DEF EvidenceInv, SatisfiedSessionsMet
<1>7. CompleteHasEvidence'
  BY <1>1, <1>2 DEF EvidenceInv, CompleteHasEvidence
<1> QED
  BY <1>1, <1>4, <1>5, <1>6, <1>7 DEF EvidenceInv

\* Every other step leaves the evidence alone, or forgets objectives.
LEMMA StepEvident == TypeOK /\ EvidenceInv /\ [Next]_vars => EvidenceInv'
<1> SUFFICES ASSUME TypeOK, EvidenceInv, [Next]_vars
             PROVE  EvidenceInv'
  OBVIOUS
<1> USE DEF engineVars, localVars
<1>1. ASSUME NEW answer \in {"yes", "no", "unclear"}, Judge(check(answer))
      PROVE  EvidenceInv'
  BY <1>1, JudgeEvident DEF check
<1>2. CASE RecordSession
  BY <1>2, RecordEvident
<1>3. CASE SkipTarget
  <2>1. /\ pc = "evaluate" /\ AtTarget /\ targets' = Tail(targets)
        /\ UNCHANGED <<pc, status, output, lastEval, sessions, plan, runs>>
        /\ Target \in Objectives => status[Target] = "Complete" /\ satisfied' = satisfied
        /\ Target \notin Objectives => ~satisfied'
    BY <1>3 DEF SkipTarget, AtTarget
  <2>2. /\ Named(targets') \subseteq Named(plan.objectives)
        /\ Judged' \subseteq Judged \cup {Target}
    BY <2>1, TargetJudged DEF EvidenceInv
  <2>3. JudgedInv'
    BY <2>1, <2>2 DEF EvidenceInv, JudgedInv, CompleteHasOutput
  <2> QED
    BY <2>1, <2>3 DEF EvidenceInv, CompleteHasOutput, RecordedInv,
                      SatisfiedSessionsMet, CompleteHasEvidence
<1>4. CASE RunSession
  <2>1. /\ pc = "loop" /\ pc' = "evaluate" /\ targets' = plan'.objectives
        /\ UNCHANGED <<status, output, lastEval, sessions, runs>>
    BY <1>4 DEF RunSession
  <2>2. JudgedInv'
    BY <2>1 DEF JudgedInv, Judged, Named
  <2> QED
    BY <2>1, <2>2 DEF EvidenceInv, CompleteHasOutput, RecordedInv,
                      SatisfiedSessionsMet, CompleteHasEvidence
<1>5. CASE CountReplan
  <2>1. /\ pc = "count" /\ pc' \in {"replan", "loop"}
        /\ UNCHANGED <<output, lastEval, sessions, plan, runs>>
    BY <1>5 DEF CountReplan
  <2>2. \A o \in Objectives : status'[o] = status[o] \/ status'[o] = "OutOfScope"
    BY <1>5 DEF CountReplan
  <2> QED
    BY <2>1, <2>2 DEF EvidenceInv, JudgedInv, CompleteHasOutput, RecordedInv,
                      SatisfiedSessionsMet, CompleteHasEvidence
<1>6. CASE JudgeFails
  <2>1. /\ pc' = "failed" /\ UNCHANGED <<output, sessions, runs>>
        /\ \A o \in Objectives : status'[o] = status[o] \/ status'[o] = "InProgress"
    BY <1>6 DEF JudgeFails, AtTarget, TypeOK
  <2> QED
    BY <2>1 DEF EvidenceInv, JudgedInv, CompleteHasOutput, RecordedInv,
                SatisfiedSessionsMet, CompleteHasEvidence
<1>7. CASE RunAgain
  <2>1. /\ pc' = "strategize" /\ runs' = runs + 1
        /\ UNCHANGED <<status, output, sessions>>
    BY <1>7 DEF RunAgain
  <2>2. runs' >= 1 /\ runs' # 1
    BY <2>1 DEF TypeOK, EvidenceInv
  <2> QED
    BY <2>1, <2>2 DEF EvidenceInv, JudgedInv, CompleteHasOutput, RecordedInv,
                SatisfiedSessionsMet, CompleteHasEvidence
<1>8. CASE \/ Strategize \/ BudgetExhausted \/ UnknownCanvas \/ Replan
           \/ CheckMission \/ CompleteMission \/ CallFails
  <2>1. /\ pc' \notin {"evaluate", "count", "replan"} /\ pc # "failed"
        /\ UNCHANGED <<status, output, sessions, runs>>
        /\ pc # "evaluate"
    BY <1>8 DEF Strategize, BudgetExhausted, UnknownCanvas, Replan, CheckMission,
       CompleteMission, CallFails
  <2> QED
    BY <2>1 DEF EvidenceInv, JudgedInv, CompleteHasOutput, RecordedInv,
                SatisfiedSessionsMet, CompleteHasEvidence
<1>9. CASE UNCHANGED vars
  BY <1>9 DEF vars, EvidenceInv, JudgedInv, Judged, CompleteHasOutput, RecordedInv,
              SatisfiedSessionsMet, CompleteHasEvidence
<1> QED
  BY <1>1, <1>2, <1>3, <1>4, <1>5, <1>6, <1>7, <1>8, <1>9 DEF Next, RunStep, Stopped

\* Nothing is judged or recorded before the first session.
LEMMA InitEvident == Init => EvidenceInv
BY DEF Init, EvidenceInv, JudgedInv, CompleteHasOutput, RecordedInv,
       SatisfiedSessionsMet, CompleteHasEvidence

\* An objective is Complete on the evidence of a recorded session that was run
\* for it, until a run has failed.
THEOREM CompletenessEvident == Spec => []CompleteHasEvidence
<1>1. EvidenceInv => CompleteHasEvidence
  BY DEF EvidenceInv
<1> QED
  BY TypeCorrect, InitEvident, StepEvident, <1>1, PTL DEF Spec

\* A session is recorded as satisfied only if each objective it names exists
\* and has been met.
THEOREM SatisfiedMeansMet == Spec => []SatisfiedSessionsMet
<1>1. EvidenceInv => SatisfiedSessionsMet
  BY DEF EvidenceInv
<1> QED
  BY TypeCorrect, InitEvident, StepEvident, <1>1, PTL DEF Spec

\* Whoever replans is shown the session that failed and why.
THEOREM ReplanInformed == Spec => []ReplanIsInformed
<1>1. EvidenceInv => ReplanIsInformed
  BY DEF EvidenceInv, RecordedInv, ReplanIsInformed, Envelope
<1> QED
  BY TypeCorrect, InitEvident, StepEvident, <1>1, PTL DEF Spec
=============================================================================
