------------------------------ MODULE Session -------------------------------
(***************************************************************************)
(* SessionEngine::run (session.rs): rounds until the moderator closes, the *)
(* budget is exhausted or the canvas's last round is over, the human       *)
(* approval in between, then synthesis, output and persistence.  The human *)
(* and the model calls are the environment; a transport error at any       *)
(* broadcast ends the run.                                                 *)
(***************************************************************************)
EXTENDS Round

Start ==
    /\ pc = "start"
    /\ pc' = "head" /\ state' = "Running"
    /\ UNCHANGED <<canvas, round, participants, pools, transcript, whispers,
                   graph, nextScope, roundVars, inbox, stored, historyVars>>

\* Mutant: the maximum of the first canvas is kept after a switch.
StartRoundOfHome ==
    /\ pc = "head"
    /\ round <= Canvas[Home].max
    /\ BeginRound(ContextKind(round, graph, nextScope # NoScope))

StartRound ==
    /\ pc = "head"
    /\ round <= Canvas[canvas].max
    /\ BeginRound(ContextKind(round, graph, nextScope # NoScope))

RoundsExhausted ==
    /\ pc = "head"
    /\ round > Canvas[canvas].max
    /\ pc' = "synthesize" /\ state' = "Synthesizing"
    /\ UNCHANGED <<canvas, round, participants, pools, transcript, whispers,
                   graph, nextScope, roundVars, inbox, stored, historyVars>>

\* RoundCompleted; the agents' proposals, then the moderator's.  A round
\* nobody answered is neither extracted from nor selects a scope.
EndRound ==
    /\ pc = "roundEnd"
    /\ graph' \in ProposalsApplied(graph, result.agentOps # <<>>,
                                   result.moderatorOps # <<>>)
    /\ IF result.transcript # <<>>
       THEN pc' = "extract" /\ UNCHANGED nextScope
       ELSE pc' = "boundary" /\ nextScope' = NoScope
    /\ prompts' = <<>> /\ replies' = <<>> /\ cursor' = 0 /\ todo' = NothingTodo
    /\ UNCHANGED <<state, canvas, round, participants, pools, transcript,
                   whispers, result, inbox, stored, historyVars>>

\* extract_delta; its failure is not fatal.
Extract ==
    /\ pc = "extract"
    /\ graph' \in {graph} \cup DeltaApplied(graph, TRUE)
    /\ pc' = "select"
    /\ UNCHANGED <<state, canvas, round, participants, pools, transcript,
                   whispers, nextScope, roundVars, inbox, stored, historyVars>>

\* Mutant: without a new selection the old one stays.
SelectScopeOrKeep ==
    /\ pc = "select"
    /\ nextScope' \in {nextScope, round}
    /\ pc' = "boundary"
    /\ UNCHANGED <<state, canvas, round, participants, pools, transcript,
                   whispers, graph, roundVars, inbox, stored, historyVars>>

\* select_scope_from_response; nothing selected and a failure are the same.
SelectScope ==
    /\ pc = "select"
    /\ nextScope' \in {NoScope, round}
    /\ pc' = "boundary"
    /\ UNCHANGED <<state, canvas, round, participants, pools, transcript,
                   whispers, graph, roundVars, inbox, stored, historyVars>>

\* Mutant: the participants of the old canvas stay.
SwitchUnseated ==
    /\ canvas' = IF result.switch \in Library THEN result.switch ELSE canvas
    /\ UNCHANGED participants

\* A switch to a canvas of the library seats that canvas's participants; the
\* round number, the ledger, the transcript and the whispers stay.
SwitchCanvas ==
    IF result.switch \in Library
    THEN canvas' = result.switch /\ participants' = Seated(result.switch)
    ELSE UNCHANGED <<canvas, participants>>

Boundary ==
    /\ pc = "boundary"
    /\ SwitchCanvas
    /\ IF result.approval
       THEN pc' = "approval" /\ state' = "AwaitingApproval"
       ELSE pc' = "decide" /\ UNCHANGED state
    /\ UNCHANGED <<round, pools, transcript, whispers, graph, nextScope,
                   roundVars, inbox, stored, historyVars>>

Received ==
    /\ pc = "approval"
    /\ inbox # <<>>
    /\ inbox' = Tail(inbox)
    /\ UNCHANGED <<canvas, round, participants, pools, transcript, whispers,
                   graph, nextScope, roundVars, stored, spoken, told, due, hasty>>

\* Does the verdict answer this round's request, or was it sent before?
Given == IF Head(inbox).answers = round THEN "given" ELSE "early"

\* Mutant: any input ends the wait.
PollAnyInput ==
    /\ Received
    /\ pc' = "decide" /\ state' = "Running"
    /\ verdict' = IF Head(inbox).kind \in Verdict THEN Given ELSE verdict

\* Mutant: the wait ends, the session stays AwaitingApproval.
PollInSilence ==
    /\ Received
    /\ IF Head(inbox).kind \in Verdict
       THEN pc' = "decide" /\ verdict' = Given
       ELSE UNCHANGED <<pc, verdict>>
    /\ UNCHANGED state

\* Mutant: a rejection is not taken for a verdict.
PollUntilApproved ==
    /\ Received
    /\ IF Head(inbox).kind = "Approve"
       THEN pc' = "decide" /\ state' = "Running" /\ verdict' = Given
       ELSE UNCHANGED <<pc, state, verdict>>

\* One poll that finds input: only a verdict ends the wait.
Poll ==
    /\ Received
    /\ IF Head(inbox).kind \in Verdict
       THEN pc' = "decide" /\ state' = "Running" /\ verdict' = Given
       ELSE UNCHANGED <<pc, state, verdict>>

\* Mutant: a close before the minimum is put off.
DecideAfterMinimum ==
    /\ pc = "decide"
    /\ IF result.close /\ round >= Canvas[canvas].min
       THEN pc' = "synthesize" /\ state' = "Synthesizing" /\ UNCHANGED round
       ELSE pc' = "head" /\ round' = round + 1 /\ UNCHANGED state
    /\ UNCHANGED <<canvas, participants, pools, transcript, whispers, graph,
                   nextScope, roundVars, inbox, stored, historyVars>>

\* Closing is tested under "close or past the minimum", so that the minimum
\* decides nothing.
Decide ==
    /\ pc = "decide"
    /\ IF (result.close \/ round >= Canvas[canvas].min) /\ result.close
       THEN pc' = "synthesize" /\ state' = "Synthesizing" /\ UNCHANGED round
       ELSE pc' = "head" /\ round' = round + 1 /\ UNCHANGED state
    /\ UNCHANGED <<canvas, participants, pools, transcript, whispers, graph,
                   nextScope, roundVars, inbox, stored, historyVars>>

Goto(from, to) ==
    /\ pc = from
    /\ pc' = to
    /\ UNCHANGED <<state, canvas, round, participants, pools, transcript,
                   whispers, graph, nextScope, roundVars, inbox, stored,
                   historyVars>>

\* One call per section; a single failed section fails the run.
Synthesize == Goto("synthesize", "output")
SynthesisFails == Canvas[canvas].sections > 0 /\ Goto("synthesize", "failed")

EmitOutput == Goto("output", IF Farga THEN "save" ELSE "done")

\* save_graph: the caller cannot tell whether it worked.
SaveGraph ==
    /\ pc = "save"
    /\ stored' \in {stored, graph.version}
    /\ pc' = "done"
    /\ UNCHANGED <<state, canvas, round, participants, pools, transcript,
                   whispers, graph, nextScope, roundVars, inbox, historyVars>>

\* An Err of the transport, propagated by "?" out of run(): SessionStarted,
\* RoundStarted, the events of a turn, RoundCompleted, the synthesis events,
\* emit_output.  Nothing of a failed run is read any more, so that it does not
\* matter between which two steps of a turn the error falls.
TransportFails ==
    \/ \E from \in {"start", "respond", "roundEnd", "synthesize", "output"} :
          Goto(from, "failed")
    \/ round <= Canvas[canvas].max /\ Goto("head", "failed")
-----------------------------------------------------------------------------
Ended == pc \in {"done", "failed"}

\* Is a verdict asked for that has not been sent?
Asked == state = "AwaitingApproval" /\ \A i \in DOMAIN inbox : inbox[i].kind \notin Verdict

\* The human writes to the transport whenever the channel has room, a verdict also
\* when none is asked for.
HumanSends(kind) ==
    /\ ~Ended
    /\ Len(inbox) < InboxCap
    /\ inbox' = Append(inbox, [kind |-> kind,
                               answers |-> IF kind \in Verdict /\ Asked THEN round ELSE 0])
    /\ hasty' = (hasty \/ (kind \in Verdict /\ ~Asked))
    /\ UNCHANGED <<pc, state, canvas, round, participants, pools, transcript,
                   whispers, graph, nextScope, roundVars, stored, spoken, told,
                   due, verdict>>

HumanAnswers ==
    /\ pc = "approval"
    /\ \E kind \in HumanInputs \cap Verdict : HumanSends(kind)

Stopped == Ended /\ UNCHANGED vars

EngineStep ==
    \/ Start \/ StartRound \/ RoundsExhausted \/ RunnerStep
    \/ EndRound \/ Extract \/ SelectScope \/ Boundary \/ Poll \/ Decide
    \/ Synthesize \/ SynthesisFails \/ EmitOutput \/ SaveGraph

Next ==
    \/ EngineStep
    \/ CallStep
    \/ TransportFails
    \/ \E kind \in HumanInputs : HumanSends(kind)
    \/ Stopped

Spec == Init /\ [][Next]_vars

\* The executor runs the engine's task; every outstanding call is answered or
\* fails; a human who is asked for approval gives a verdict.
FairSpec ==
    /\ Spec
    /\ WF_vars(EngineStep)
    /\ WF_vars(CallStep)
    /\ SF_vars(HumanAnswers)
=============================================================================
