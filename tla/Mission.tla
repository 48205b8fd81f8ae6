------------------------------ MODULE Mission -------------------------------
(***************************************************************************)
(* MissionEngine::run and do_replan (mission/engine.rs): sessions planned  *)
(* by a meta-moderator, judged by an evaluator against sub-objectives, and *)
(* replanned when they fall short.  Meta-moderator, evaluator and session  *)
(* runner are the environment: each call answers anything or fails, and a  *)
(* failure leaves run() with an error.  The engine outlives its run: its   *)
(* fields stay, and run() may be called again.                             *)
(***************************************************************************)
EXTENDS Integers, FiniteSets, Sequences

CONSTANTS
    Objectives,     \* ids of sub_objectives
    Strangers,      \* ids a plan may name that are no sub-objective
    Answers,        \* the plan lists the meta-moderator may answer
    Deployable,     \* MissionBudget::deployable
    Excess,         \* what a session may use beyond its slice
    MaxRuns         \* bound: how often run() is called

Limit == 3          \* REPLAN_LIMIT

Plan == [objectives : Seq(Objectives \cup Strangers), slice : Nat,
         known : BOOLEAN]               \* known: is its canvas in the library?

ASSUME ObjectivesAssumption ==
    IsFiniteSet(Objectives) /\ Objectives \cap Strangers = {}
ASSUME AnswersAssumption == Answers \subseteq Seq(Plan)
ASSUME MissionBudgetAssumption ==
    Deployable \in Nat /\ Excess \in Nat /\ MaxRuns \in Nat

VARIABLES
    pc,             \* where run() is
    status,         \* SubObjective::status
    output,         \* SubObjective::output: the session it came from, or 0
    lastEval,       \* SubObjective::last_eval_reason: of which judgment?
    counts,         \* replan_counts
    spent,          \* deployable_spent
    sessions,       \* sessions_run
    pending,        \* pending_plans
    plan,           \* the plan being carried out
    targets,        \* its objectives not evaluated yet
    satisfied,      \* all_satisfied
    outcome         \* the verdict run() returned

\* History variables.
VARIABLES
    replans,        \* calls of MetaModerator::replan
    guarded,        \* tokens reported by sessions whose slice was not empty
    runs            \* calls of run()

engineVars == <<status, output, lastEval, counts, spent, sessions>>
localVars == <<pending, plan, targets, satisfied>>
vars == <<pc, engineVars, localVars, outcome, replans, guarded, runs>>
-----------------------------------------------------------------------------
NoPlan == [objectives |-> <<>>, slice |-> 0, known |-> TRUE]

Ids == Objectives \cup Strangers

\* Mutant: what earlier sessions spent is forgotten.
WholeDeployable == Deployable

\* deployable_remaining, a saturating subtraction.
Remaining == IF spent <= Deployable THEN Deployable - spent ELSE 0

Named(ids) == {ids[i] : i \in DOMAIN ids}

Occurrences(id, ids) == Cardinality({i \in DOMAIN ids : ids[i] = id})

Init ==
    /\ pc = "strategize"
    /\ status = [o \in Objectives |-> "Pending"]
    /\ output = [o \in Objectives |-> 0]
    /\ lastEval = [o \in Objectives |-> "none"]
    /\ counts = [id \in Ids |-> 0]
    /\ spent = 0 /\ sessions = <<>>
    /\ pending = <<>> /\ plan = NoPlan /\ targets = <<>> /\ satisfied = TRUE
    /\ outcome = "none"
    /\ replans = 0 /\ guarded = 0 /\ runs = 1

Strategize ==
    /\ pc = "strategize"
    /\ pending' \in Answers
    /\ pc' = "loop"
    /\ UNCHANGED <<engineVars, plan, targets, satisfied, outcome, replans, guarded,
                   runs>>

\* The budget guard ends the mission, whatever plans are left.
BudgetExhausted ==
    /\ pc = "loop" /\ pending # <<>>
    /\ Head(pending).slice > Remaining
    /\ pc' = "done" /\ outcome' = "exhausted"
    /\ UNCHANGED <<engineVars, localVars, replans, guarded, runs>>

\* Mutant: the plan is tried again.
UnknownCanvasRetried ==
    /\ pc = "loop" /\ pending # <<>>
    /\ Head(pending).slice <= Remaining
    /\ ~Head(pending).known
    /\ UNCHANGED vars

UnknownCanvas ==
    /\ pc = "loop" /\ pending # <<>>
    /\ Head(pending).slice <= Remaining
    /\ ~Head(pending).known
    /\ pc' = "failed"
    /\ UNCHANGED <<engineVars, localVars, outcome, replans, guarded, runs>>

\* What a session may report: 0, which is all that the runner of this repository
\* ever does, or what it used.  The scaled pools may exceed the slice (Scaling),
\* and so may sidebars and [ADJUST_BUDGET] (Round).
Reports == {0, Head(pending).slice, Head(pending).slice + Excess}

\* runner.run on the canvas scaled to the slice; what it reports is added to
\* deployable_spent.
RunSession ==
    /\ pc = "loop" /\ pending # <<>>
    /\ Head(pending).slice <= Remaining
    /\ Head(pending).known
    /\ \E tokens \in Reports :
         /\ spent' = spent + tokens
         /\ guarded' = guarded + (IF Head(pending).slice = 0 THEN 0 ELSE tokens)
    /\ plan' = Head(pending)
    /\ pending' = Tail(pending)
    /\ targets' = Head(pending).objectives
    /\ satisfied' = TRUE
    /\ pc' = "evaluate"
    /\ UNCHANGED <<status, output, lastEval, counts, sessions, outcome, replans,
                   runs>>

Target == Head(targets)

AtTarget == pc = "evaluate" /\ targets # <<>>

\* Mutant: an id that is no sub-objective is passed over.
SkipUnknown ==
    /\ AtTarget
    /\ Target \in Objectives => status[Target] = "Complete"
    /\ targets' = Tail(targets)
    /\ UNCHANGED <<pc, engineVars, pending, plan, satisfied, outcome, replans,
                   guarded, runs>>

\* An id that is no sub-objective counts as unsatisfied; one that is Complete
\* is not judged again.
SkipTarget ==
    /\ AtTarget
    /\ IF Target \in Objectives
       THEN status[Target] = "Complete" /\ UNCHANGED satisfied
       ELSE satisfied' = FALSE
    /\ targets' = Tail(targets)
    /\ UNCHANGED <<pc, engineVars, pending, plan, outcome, replans, guarded, runs>>

\* ClaudeEvaluator::check: an answer that does not say is no.
check(answer) == IF answer = "yes" THEN "yes" ELSE "no"

\* Any other status, OutOfScope too, becomes InProgress and is judged.
Judge(verdict) ==
    /\ AtTarget
    /\ Target \in Objectives
    /\ status[Target] # "Complete"
    /\ lastEval' = [lastEval EXCEPT ![Target] = verdict]
    /\ IF verdict = "yes"
       THEN /\ status' = [status EXCEPT ![Target] = "Complete"]
            /\ output' = [output EXCEPT ![Target] = Len(sessions) + 1]
            /\ UNCHANGED satisfied
       ELSE /\ status' = [status EXCEPT ![Target] = "InProgress"]
            /\ satisfied' = FALSE
            /\ UNCHANGED output
    /\ targets' = Tail(targets)
    /\ UNCHANGED <<pc, counts, spent, sessions, pending, plan, outcome, replans,
                   guarded, runs>>

\* evaluator.check fails: the objective stays InProgress, the session is not
\* recorded.
JudgeFails ==
    /\ AtTarget
    /\ Target \in Objectives
    /\ status[Target] # "Complete"
    /\ status' = [status EXCEPT ![Target] = "InProgress"]
    /\ pc' = "failed"
    /\ UNCHANGED <<output, lastEval, counts, spent, sessions, localVars, outcome,
                   replans, guarded, runs>>

\* Mutant: a session that fell short leaves no record.
RecordSatisfied ==
    /\ pc = "evaluate" /\ targets = <<>>
    /\ sessions' = IF satisfied
                   THEN Append(sessions, [objectives |-> plan.objectives,
                                          satisfied |-> satisfied])
                   ELSE sessions
    /\ pc' = IF satisfied THEN "loop" ELSE "count"
    /\ UNCHANGED <<status, output, lastEval, counts, spent, localVars, outcome,
                   replans, guarded, runs>>

RecordSession ==
    /\ pc = "evaluate" /\ targets = <<>>
    /\ sessions' = Append(sessions, [objectives |-> plan.objectives,
                                     satisfied |-> satisfied])
    /\ pc' = IF satisfied THEN "loop" ELSE "count"
    /\ UNCHANGED <<status, output, lastEval, counts, spent, localVars, outcome,
                   replans, guarded, runs>>
-----------------------------------------------------------------------------
\* build_mission_envelope: what the meta-moderator is shown.
Envelope ==
    [objectives |-> [o \in Objectives |->
                       [mark |-> status[o], output |-> output[o], reason |-> lastEval[o]]],
     spent |-> spent, sessions |-> sessions]

(* do_replan *)

Tally == [id \in Ids |-> counts[id] + Occurrences(id, plan.objectives)]

\* Mutant: one replan too many.
GivenUpLate(o) == o \in Named(plan.objectives) /\ Tally[o] > Limit

GivenUp(o) == o \in Named(plan.objectives) /\ Tally[o] >= Limit

\* Every objective of the plan is counted, and given up when its count reaches
\* the limit, whether it was this one that failed or another.
CountReplan ==
    /\ pc = "count"
    /\ counts' = Tally
    /\ status' = [o \in Objectives |->
                    IF GivenUp(o) THEN "OutOfScope" ELSE status[o]]
    /\ pc' = IF \E o \in Objectives \cap Named(plan.objectives) :
                  status'[o] \in {"Pending", "InProgress"}
             THEN "replan" ELSE "loop"
    /\ UNCHANGED <<output, lastEval, spent, sessions, localVars, outcome,
                   replans, guarded, runs>>

\* The new plans go before the ones still pending.
Replan ==
    /\ pc = "replan"
    /\ \E new \in Answers : pending' = new \o pending
    /\ replans' = replans + 1
    /\ pc' = "loop"
    /\ UNCHANGED <<engineVars, plan, targets, satisfied, outcome, guarded, runs>>
-----------------------------------------------------------------------------
\* The mission's own condition, judged when no plan is left.
CheckMission ==
    /\ pc = "loop" /\ pending = <<>>
    /\ \/ pc' = "complete" /\ UNCHANGED outcome
       \/ pc' = "done" /\ outcome' = "unmet"
    /\ UNCHANGED <<engineVars, localVars, replans, guarded, runs>>

\* parse_farga_verdict: whatever is not "submit" skips.
parse_farga_verdict(answer) == IF answer = "submit" THEN "submit" ELSE "skip"

\* The meta-moderator submits the contribution or skips.
CompleteMission ==
    /\ pc = "complete"
    /\ \E answer \in {"submit", "skip", "unclear"} :
         outcome' = parse_farga_verdict(answer)
    /\ pc' = "done"
    /\ UNCHANGED <<engineVars, localVars, replans, guarded, runs>>

\* An error of strategize, runner.run, replan, the mission's check, complete; an
\* answer that is no JSON is one.  What a session used until it failed is never
\* reported: deployable_spent stays.
CallFails ==
    /\ \/ pc \in {"strategize", "replan", "complete"}
       \/ pc = "loop" /\ pending = <<>>
       \/ /\ pc = "loop" /\ pending # <<>>
          /\ Head(pending).slice <= Remaining /\ Head(pending).known
    /\ pc' = "failed"
    /\ UNCHANGED <<engineVars, localVars, outcome, replans, guarded, runs>>

Ended == pc \in {"done", "failed"}

\* run() again on the same engine: only what the engine keeps survives.
RunAgain ==
    /\ Ended /\ runs < MaxRuns
    /\ runs' = runs + 1
    /\ pc' = "strategize"
    /\ pending' = <<>> /\ plan' = NoPlan /\ targets' = <<>> /\ satisfied' = TRUE
    /\ outcome' = "none"
    /\ UNCHANGED <<engineVars, replans, guarded>>

Stopped == Ended /\ runs = MaxRuns /\ UNCHANGED vars

RunStep ==
    \/ Strategize \/ BudgetExhausted \/ UnknownCanvas \/ RunSession
    \/ SkipTarget \/ JudgeFails
    \/ \E answer \in {"yes", "no", "unclear"} : Judge(check(answer))
    \/ RecordSession \/ CountReplan \/ Replan \/ CheckMission \/ CompleteMission

Next == RunStep \/ CallFails \/ RunAgain \/ Stopped

Spec == Init /\ [][Next]_vars

\* Every call of the environment answers or fails.
FairSpec == Spec /\ WF_vars(RunStep)
-----------------------------------------------------------------------------
Statuses == {"Pending", "InProgress", "Complete", "OutOfScope"}

\* Every field holds a value of its type.
TypeOK ==
    /\ pc \in {"strategize", "loop", "evaluate", "count", "replan", "complete",
               "done", "failed"}
    /\ status \in [Objectives -> Statuses]
    /\ output \in [Objectives -> Nat]
    /\ lastEval \in [Objectives -> {"none", "yes", "no"}]
    /\ counts \in [Ids -> Nat]
    /\ spent \in Nat
    /\ sessions \in Seq([objectives : Seq(Ids), satisfied : BOOLEAN])
    /\ pending \in Seq(Plan)
    /\ plan \in Plan
    /\ targets \in Seq(Ids)
    /\ satisfied \in BOOLEAN
    /\ outcome \in {"none", "exhausted", "unmet", "submit", "skip"}
    /\ replans \in Nat /\ guarded \in Nat /\ runs \in Nat

\* The meta-moderator is asked to replan at most twice per sub-objective, in
\* all runs of an engine together and whatever plans it answers: the counts
\* bound the loop even when objectives come back from OutOfScope.
ReplansBounded == replans <= (Limit - 1) * Cardinality(Objectives)

\* An objective is Complete on the evidence of a session that was run for it
\* and is on record, so that the outcome of a run never reports an objective no
\* recorded session was about.  (Not after a failed run: the error of an
\* evaluator leaves Complete objectives behind whose session is not recorded.)
CompleteHasEvidence ==
    runs = 1 /\ pc # "failed" =>
        \A o \in Objectives :
            status[o] = "Complete" =>
                \/ /\ output[o] \in DOMAIN sessions
                   /\ o \in Named(sessions[output[o]].objectives)
                \/ /\ pc = "evaluate"
                   /\ output[o] = Len(sessions) + 1
                   /\ o \in Named(plan.objectives)

\* A session is recorded as satisfied only if each objective it names exists
\* and has at some time been met.
SatisfiedSessionsMet ==
    \A i \in DOMAIN sessions :
        sessions[i].satisfied =>
            \A id \in Named(sessions[i].objectives) :
                id \in Objectives /\ output[id] # 0

\* What sessions of a slice that is not empty report, in all runs of an engine
\* together, never gets past the deployable budget by more than one session's
\* excess.  No more than that is held: what a session uses and does not report
\* (the runner of this repository reports nothing), what one used that failed, and
\* what those of an empty slice use, which run on a spent budget too, has no bound.
WithinDeployable == guarded <= Deployable + Excess

\* When the meta-moderator is asked to replan, its envelope says why: the last
\* session on record is the one that failed, and each of its objectives that is
\* open carries the reason of a failed judgment.  (One that was met and then given
\* up with the others of its plan carries the reason it was met for.)
ReplanIsInformed ==
    pc = "replan" =>
        /\ Envelope.sessions # <<>>
        /\ LET last == Envelope.sessions[Len(Envelope.sessions)]
           IN  /\ ~last.satisfied /\ last.objectives = plan.objectives
               /\ \A o \in Objectives \cap Named(last.objectives) :
                    Envelope.objectives[o].mark \in {"Pending", "InProgress"}
                      => Envelope.objectives[o].reason = "no"

\* A run always comes to an end: no answer of the meta-moderator and no verdict
\* of the evaluator keeps the loop going for ever.
RunEnds == pc = "strategize" ~> Ended
=============================================================================
