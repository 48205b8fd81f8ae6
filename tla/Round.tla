------------------------------- MODULE Round --------------------------------
(***************************************************************************)
(* One round: RoundRunner::run (round.rs) with the ModeratorExecutor       *)
(* (moderator.rs), the ContextBuilder (context.rs) and the WhisperQueue    *)
(* (channels/whisper.rs) it drives.  The round is entered at pc "head" and *)
(* left at pc "roundEnd".  Between two awaits the code runs alone, so the  *)
(* steps it is cut into below interleave with nothing it can observe; the  *)
(* dispatches of phase 2 are spawned tasks and complete in any order.      *)
(***************************************************************************)
EXTENDS SessionState

Whisper(kind) == [kind |-> kind, round |-> round]

Enqueued(address, kind) == [whispers EXCEPT ![address] = Append(@, Whisper(kind))]

Told(address, kind) == [told EXCEPT ![address] = Append(@, Whisper(kind))]

\* push_turn: a window of at most the last n records.
LastOf(s, n) == SubSeq(s, Larger(1, Len(s) - n + 1), Len(s))

\* Mutant: a sealed participant is shown the turns like everyone else.
PromptUnsealed(a, shared) ==
    [turns |-> transcript, graph |-> IF Sealed(a) THEN "none" ELSE shared,
     preamble |-> Aporia(a) /\ "open" \in graph.nodes,
     whispers |-> whispers[a], model |-> participants[a].model]

\* Mutant: only a moderator is given its whispers, the others' are lost.
PromptWhispersLost(a, shared) ==
    [turns |-> IF Sealed(a) THEN <<>> ELSE transcript,
     graph |-> IF Sealed(a) THEN "none" ELSE shared,
     preamble |-> Aporia(a) /\ "open" \in graph.nodes,
     whispers |-> IF IsModerator(a) THEN whispers[a] ELSE <<>>,
     model |-> participants[a].model]

\* Phase 1: the request built for a participant.  A sealed one is given its
\* whispers, neither turns nor shared context; the preamble asks for no seal.
Prompt(a, shared) ==
    [turns    |-> IF Sealed(a) THEN <<>> ELSE transcript,
     graph    |-> IF Sealed(a) THEN "none" ELSE shared,
     preamble |-> Aporia(a) /\ "open" \in graph.nodes,
     whispers |-> whispers[a],
     model    |-> participants[a].model]

\* WhisperQueue::drain, for every participant of the round.
Drained == [a \in Address |-> IF a \in Ids(canvas) THEN <<>> ELSE whispers[a]]

\* The next seat to answer after seat i, or the one past the roster's last:
\* always exactly one.
SeatAfter(i) ==
    LET seats == Seats(canvas) \cup {Len(Canvas[canvas].roster) + 1}
    IN  {j \in seats : i < j /\ \A k \in seats : k <= i \/ j <= k}

\* RoundStarted, then phase 1 for every participant, then phase 2 spawns.
BeginRound(shared) ==
    /\ prompts' = [a \in Ids(canvas) |-> Prompt(a, shared)]
    /\ whispers' = Drained
    /\ replies' = [a \in Ids(canvas) |-> Pending]
    /\ result' = NoResult
    /\ cursor' \in SeatAfter(0)
    /\ pc' = "dispatch"
    /\ told' = NoWhispers /\ due' = told
    /\ UNCHANGED <<state, canvas, round, participants, pools, transcript, graph,
                   nextScope, todo, inbox, stored, spoken, approvalVars>>

\* A spawned task finishes, with a response or with an error.
Complete(a, outcome) ==
    /\ pc = "dispatch"
    /\ replies[a] = Pending
    /\ replies' = [replies EXCEPT ![a] = outcome]
    /\ UNCHANGED <<pc, state, canvas, round, participants, pools, transcript,
                   whispers, graph, nextScope, prompts, cursor, todo, result,
                   inbox, stored, historyVars>>

DispatchAnswers(a) == \E r \in Replies : Complete(a, Answered(r))
DispatchFails(a) == Complete(a, Failed)

JoinAll ==
    /\ pc = "dispatch"
    /\ \A a \in Ids(canvas) : replies[a] # Pending
    /\ pc' = "collect"
    /\ UNCHANGED <<state, canvas, round, participants, pools, transcript,
                   whispers, graph, nextScope, roundVars, inbox, stored,
                   historyVars>>
-----------------------------------------------------------------------------
(* Phase 3: the responses, in participant order. *)

\* Mutant: the responses are processed from the last to the first.
LastSpeakerFirst == Occupant(Len(Canvas[canvas].roster) - cursor + 1)

Speaker == Occupant(cursor)
AtResponse == pc = "collect" /\ cursor \in Seats(canvas)
Response == replies[Speaker].reply

SkipFailedDispatch ==
    /\ AtResponse
    /\ replies[Speaker] = Failed
    /\ cursor' \in SeatAfter(cursor)
    /\ UNCHANGED <<pc, state, canvas, round, participants, pools, transcript,
                   whispers, graph, nextScope, prompts, replies, todo, result,
                   inbox, stored, historyVars>>

\* Proposals and transcript text are collected before the turn is charged.
Collected ==
    LET ops == IF Response.proposes THEN <<Speaker>> ELSE <<>>
    IN  [result EXCEPT
           !.moderatorOps = IF IsModerator(Speaker) THEN @ \o ops ELSE @,
           !.agentOps = IF IsModerator(Speaker) THEN @ ELSE @ \o ops,
           !.transcript = Append(@, Speaker)]

Affordable == CanCharge(pools, "main_session", Response.tokens)

\* Mutant: the round goes on with the next response.
RefuseTurnOnly ==
    /\ AtResponse
    /\ replies[Speaker] # Failed
    /\ ~Affordable
    /\ result' = [Collected EXCEPT !.close = TRUE]
    /\ cursor' \in SeatAfter(cursor)
    /\ UNCHANGED <<pc, state, canvas, round, participants, pools, transcript,
                   whispers, graph, nextScope, prompts, replies, todo, inbox,
                   stored, historyVars>>

\* BudgetExhausted: the round ends here and asks the session to close.
RefuseTurn ==
    /\ AtResponse
    /\ replies[Speaker] # Failed
    /\ ~Affordable
    /\ result' = [Collected EXCEPT !.close = TRUE]
    /\ pc' = "roundEnd"
    /\ UNCHANGED <<state, canvas, round, participants, pools, transcript,
                   whispers, graph, nextScope, prompts, replies, cursor, todo,
                   inbox, stored, historyVars>>

TurnRecord ==
    [agent |-> Speaker, round |-> round, index |-> participants[Speaker].turns,
     tokens |-> Response.tokens]

\* Mutant: the window is trimmed before the turn is added.
PushedUntrimmed == Append(LastOf(transcript, Canvas[Home].window), TurnRecord)

\* push_turn
Pushed == LastOf(Append(transcript, TurnRecord), Canvas[Home].window)

\* Mutant: every participant is taken to have spoken in every round.
CountedByRound == [participants EXCEPT ![Speaker].turns = round]

Counted == [participants EXCEPT ![Speaker].turns = @ + 1]

TakeTurn ==
    /\ AtResponse
    /\ replies[Speaker] # Failed
    /\ Affordable
    /\ pools' = Charged(pools, "main_session", Response.tokens)
    /\ result' = Collected
    /\ transcript' = Pushed
    /\ spoken' = Append(spoken, TurnRecord)
    /\ participants' = Counted
    /\ todo' = [directives |-> IF IsModerator(Speaker) THEN Response.directives
                                                       ELSE <<>>,
                forks |-> <<>>,
                consults |-> Response.consults]
    /\ pc' = "respond"
    /\ UNCHANGED <<state, canvas, round, whispers, graph, nextScope, prompts,
                   replies, cursor, inbox, stored, told, due, approvalVars>>
-----------------------------------------------------------------------------
(* ModeratorExecutor::execute, one directive after the other. *)

ThisDirective == Head(todo.directives)

Execute(kind) ==
    /\ pc = "respond"
    /\ todo.directives # <<>>
    /\ ThisDirective.kind = kind
    /\ UNCHANGED <<pc, state, canvas, round, transcript, whispers, graph,
                   nextScope, prompts, replies, cursor, inbox, stored, spoken,
                   told, due, hasty>>

DirectiveDone == todo' = [todo EXCEPT !.directives = Tail(@)]

ExecuteClose ==
    /\ Execute("close") /\ DirectiveDone
    /\ result' = [result EXCEPT !.close = TRUE]
    /\ UNCHANGED <<participants, pools, verdict>>

\* INVITE only reports the new id (ExecutionResult::new_participants), which
\* no caller reads.
ExecuteInvite ==
    /\ Execute("invite") /\ DirectiveDone
    /\ UNCHANGED <<participants, pools, result, verdict>>

\* So does RELEASE (ExecutionResult::released): the roster stays as it is.
ExecuteRelease ==
    /\ Execute("release") /\ DirectiveDone
    /\ UNCHANGED <<participants, pools, result, verdict>>

ExecuteRequestApproval ==
    /\ Execute("approval") /\ DirectiveDone
    /\ result' = [result EXCEPT !.approval = TRUE]
    /\ verdict' = "due"
    /\ UNCHANGED <<participants, pools>>

\* Mutant: the pool is changed, its counterpart is not.
RebalancedOneSided(p, delta) == [pools EXCEPT ![p].total = Larger(@ + delta, 0)]

Rebalanced(p, delta) == Adjusted(pools, p, delta, Counterpart(p), -delta)

\* An unknown pool is skipped, a refused adjustment ignored.
ExecuteAdjustBudget ==
    /\ Execute("adjust") /\ DirectiveDone
    /\ pools' = IF ThisDirective.pool \in PoolName
                THEN Rebalanced(ThisDirective.pool, ThisDirective.delta)
                ELSE pools
    /\ UNCHANGED <<participants, result, verdict>>

\* The first participant with that persona, or with that id.
Addressed(address) ==
    LET same == {a \in Ids(canvas) : a = address \/ <<a[1], 0>> = address}
    IN  {a \in same : \A b \in same : a[2] <= b[2]}

ExecuteSetModel ==
    /\ Execute("model") /\ DirectiveDone
    /\ participants' = [a \in Ids(canvas) |->
                          IF a \in Addressed(ThisDirective.who)
                          THEN [participants[a] EXCEPT !.model = ThisDirective.model]
                          ELSE participants[a]]
    /\ UNCHANGED <<pools, result, verdict>>

ExecuteForkConsultation ==
    /\ Execute("fork")
    /\ todo' = [todo EXCEPT !.directives = Tail(@), !.forks = Append(@, ThisDirective.who)]
    /\ UNCHANGED <<participants, pools, result, verdict>>

ExecuteSwitchCanvas ==
    /\ Execute("switch") /\ DirectiveDone
    /\ result' = [result EXCEPT !.switch = ThisDirective.canvas]
    /\ UNCHANGED <<participants, pools, verdict>>
-----------------------------------------------------------------------------
(* The calls a turn asks for, one after the other: forks, then consultations. *)

AtFork == pc = "respond" /\ todo.directives = <<>> /\ todo.forks # <<>>
AtConsult == /\ pc = "respond"
             /\ todo.directives = <<>> /\ todo.forks = <<>>
             /\ todo.consults > 0

CallReturns ==
    UNCHANGED <<pc, state, canvas, round, participants, transcript, graph,
                nextScope, prompts, replies, cursor, result, inbox, stored,
                spoken, due, approvalVars>>

\* The sidebar's answer is whispered to whatever string the directive named;
\* its tokens are charged to no pool.
ForkReturns(answered) ==
    /\ AtFork
    /\ IF answered
       THEN /\ whispers' = Enqueued(Head(todo.forks), "sidebar")
            /\ told' = Told(Head(todo.forks), "sidebar")
       ELSE UNCHANGED <<whispers, told>>
    /\ todo' = [todo EXCEPT !.forks = Tail(@)]
    /\ UNCHANGED pools
    /\ CallReturns

\* The reply is delivered first and charged to main_session second; a refused
\* charge is only logged.
ConsultAnswers(tokens) ==
    /\ AtConsult
    /\ whispers' = Enqueued(Speaker, "reply") /\ told' = Told(Speaker, "reply")
    /\ pools' = Charged(pools, "main_session", tokens)
    /\ todo' = [todo EXCEPT !.consults = @ - 1]
    /\ CallReturns

ConsultFails ==
    /\ AtConsult
    /\ whispers' = Enqueued(Speaker, "failed") /\ told' = Told(Speaker, "failed")
    /\ todo' = [todo EXCEPT !.consults = @ - 1]
    /\ UNCHANGED pools
    /\ CallReturns

EndTurn ==
    /\ pc = "respond"
    /\ todo = NothingTodo
    /\ IF result.close
       THEN pc' = "roundEnd" /\ UNCHANGED cursor
       ELSE pc' = "collect" /\ cursor' \in SeatAfter(cursor)
    /\ UNCHANGED <<state, canvas, round, participants, pools, transcript,
                   whispers, graph, nextScope, prompts, replies, todo, result,
                   inbox, stored, historyVars>>

AllCollected ==
    /\ pc = "collect"
    /\ cursor \notin Seats(canvas)
    /\ pc' = "roundEnd"
    /\ UNCHANGED <<state, canvas, round, participants, pools, transcript,
                   whispers, graph, nextScope, roundVars, inbox, stored,
                   historyVars>>

RunnerStep ==
    \/ JoinAll \/ SkipFailedDispatch \/ RefuseTurn \/ TakeTurn
    \/ ExecuteClose \/ ExecuteInvite \/ ExecuteRelease
    \/ ExecuteRequestApproval \/ ExecuteAdjustBudget \/ ExecuteSetModel
    \/ ExecuteForkConsultation \/ ExecuteSwitchCanvas
    \/ EndTurn \/ AllCollected

CallStep ==
    \/ \E a \in DOMAIN replies : DispatchAnswers(a) \/ DispatchFails(a)
    \/ \E answered \in BOOLEAN : ForkReturns(answered)
    \/ \E tokens \in ConsultCosts : ConsultAnswers(tokens)
    \/ ConsultFails
=============================================================================
