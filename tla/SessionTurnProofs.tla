-------------------------- MODULE SessionTurnProofs --------------------------
(***************************************************************************)
(* What holds of a session's turns, prompts and whispers, and of its life  *)
(* cycle, for every set of canvases, every reply and every input.          *)
(***************************************************************************)
EXTENDS SessionProofs, BudgetLemmas, SequenceTheorems, FiniteSetTheorems

-----------------------------------------------------------------------------
(* Seats. *)

\* The participants of a canvas are addresses, one for each seat a human does
\* not take.
LEMMA IdsAreAddresses ==
    ASSUME NEW c \in CanvasIds
    PROVE  /\ Ids(c) \subseteq Address
           /\ Seats(c) \subseteq Nat \ {0}
           /\ \A i \in Seats(c) : <<Canvas[c].roster[i].persona, i>> \in Ids(c)
           /\ \A a \in Ids(c) : a[2] \in Seats(c)
<1>1. /\ Canvas[c].roster \in Seq(Seat)
      /\ Len(Canvas[c].roster) <= MaxSeats
      /\ MaxSeats \in Nat
  BY CanvasAssumption DEF CanvasDef
<1>2. \A i \in Seats(c) : /\ i \in 1 .. Len(Canvas[c].roster)
                          /\ Canvas[c].roster[i].persona \in Personas
  <2> SUFFICES ASSUME NEW i \in DOMAIN Canvas[c].roster
               PROVE  /\ i \in 1 .. Len(Canvas[c].roster)
                      /\ Canvas[c].roster[i].persona \in Personas
    BY DEF Seats
  <2> DEFINE roster == Canvas[c].roster
  <2> HIDE DEF roster
  <2>1. i \in 1 .. Len(roster) /\ roster[i] \in Seat
    BY <1>1 DEF roster
  <2> QED
    BY <2>1 DEF Seat, roster
<1>3. \A i \in Seats(c) : i \in 0 .. MaxSeats /\ i \in Nat \ {0}
  BY <1>1, <1>2
<1> QED
  BY <1>2, <1>3 DEF Ids, Address

\* The seat that follows another is a later one, and no seat lies between.
LEMMA SeatAfterIsNext ==
    ASSUME canvas \in CanvasIds, NEW i \in Nat, NEW j \in SeatAfter(i)
    PROVE  j \in Nat /\ i < j
<1>1. Len(Canvas[canvas].roster) \in Nat
  BY CanvasAssumption DEF CanvasDef
<1> QED
  BY <1>1, IdsAreAddresses DEF SeatAfter
-----------------------------------------------------------------------------
(* Steps: what each kind of step does to the turns of a session. *)

\* Executing a directive leaves turns, prompts and whispers alone; it may
\* change a participant's model, a pool and the round's result.
DirectiveStep ==
    /\ pc = "respond" /\ todo.directives # <<>>
    /\ UNCHANGED <<pc, state, canvas, round, transcript, whispers, graph, nextScope,
                   prompts, replies, cursor, inbox, stored, spoken, told, due, hasty>>
    /\ \/ todo' = [todo EXCEPT !.directives = Tail(@)]
       \/ /\ ThisDirective.kind = "fork"
          /\ todo' = [todo EXCEPT !.directives = Tail(@),
                                  !.forks = Append(@, ThisDirective.who)]
    /\ \/ UNCHANGED participants
       \/ ThisDirective.kind = "model" /\ ExecuteSetModel
    /\ \/ UNCHANGED result
       \/ result' = [result EXCEPT !.close = TRUE]
       \/ result' = [result EXCEPT !.approval = TRUE]
       \/ /\ ThisDirective.kind = "switch"
          /\ result' = [result EXCEPT !.switch = ThisDirective.canvas]
    /\ UNCHANGED pools \/ (ThisDirective.kind = "adjust" /\ ExecuteAdjustBudget)
    /\ verdict' \in {verdict, "due"}

\* A call that returns queues at most one whisper.
CallStepDone ==
    /\ pc = "respond"
    /\ CallReturns
    /\ \/ UNCHANGED <<whispers, told>>
       \/ /\ todo.forks # <<>>
          /\ whispers' = Enqueued(Head(todo.forks), "sidebar")
          /\ told' = Told(Head(todo.forks), "sidebar")
       \/ \E kind \in {"reply", "failed"} :
             whispers' = Enqueued(Speaker, kind) /\ told' = Told(Speaker, kind)
    /\ \/ todo.forks # <<>> /\ todo' = [todo EXCEPT !.forks = Tail(@)]
       \/ todo.consults > 0 /\ todo' = [todo EXCEPT !.consults = @ - 1]
    /\ \/ UNCHANGED pools
       \/ \E tokens \in ConsultCosts : pools' = Charged(pools, "main_session", tokens)

\* Every other step leaves the turns alone and only moves the run on.
Elsewhere ==
    /\ UNCHANGED <<canvas, participants, pools, transcript, whispers, prompts, replies,
                   cursor, todo, result, spoken, told, due>>
    /\ \/ /\ UNCHANGED round
          /\ \/ <<pc, pc'>> \in {<<"start", "head">>, <<"dispatch", "collect">>,
                                 <<"collect", "roundEnd">>, <<"extract", "select">>,
                                 <<"select", "boundary">>, <<"approval", "decide">>}
             \/ pc' \in EndPcs
             \/ pc' = pc
       \/ /\ pc = "decide" /\ pc' = "head"
          /\ round' = round + 1
-----------------------------------------------------------------------------
\* Every step is a step of a turn or one that leaves the turns alone.
LEMMA StepKinds ==
    ASSUME [Next]_vars
    PROVE  \/ StartRound \/ EndRound \/ Boundary \/ TakeTurn \/ RefuseTurn
           \/ SkipFailedDispatch \/ EndTurn
           \/ \E a \in DOMAIN replies :
                 \E outcome \in ModelReplies \cup {Failed} : Complete(a, outcome)
           \/ DirectiveStep \/ CallStepDone \/ Elsewhere
<1>1. CASE CallStep
  <2>1. ASSUME NEW a \in DOMAIN replies, DispatchAnswers(a) \/ DispatchFails(a)
        PROVE  \E outcome \in ModelReplies \cup {Failed} : Complete(a, outcome)
    BY <2>1 DEF DispatchAnswers, DispatchFails, ModelReplies
  <2>2. ASSUME NEW answered \in BOOLEAN, ForkReturns(answered)
        PROVE  CallStepDone
    BY <2>2 DEF ForkReturns, AtFork, CallStepDone
  <2>3. ASSUME NEW tokens \in ConsultCosts, ConsultAnswers(tokens)
        PROVE  CallStepDone
    BY <2>3 DEF ConsultAnswers, AtConsult, CallStepDone
  <2>4. ASSUME ConsultFails
        PROVE  CallStepDone
    BY <2>4 DEF ConsultFails, AtConsult, CallStepDone
  <2> QED
    BY <1>1, <2>1, <2>2, <2>3, <2>4 DEF CallStep
<1>2. CASE \/ ExecuteClose \/ ExecuteInvite \/ ExecuteRelease \/ ExecuteRequestApproval
           \/ ExecuteAdjustBudget \/ ExecuteSetModel \/ ExecuteForkConsultation
           \/ ExecuteSwitchCanvas
  BY <1>2 DEF ExecuteClose, ExecuteInvite, ExecuteRelease, ExecuteRequestApproval,
     ExecuteAdjustBudget, ExecuteSetModel, ExecuteForkConsultation,
     ExecuteSwitchCanvas, Execute, DirectiveDone, DirectiveStep
<1>3. CASE \/ JoinAll \/ AllCollected \/ Start \/ RoundsExhausted \/ Extract
           \/ SelectScope \/ Poll \/ Decide
  BY <1>3 DEF JoinAll, AllCollected, Start, RoundsExhausted, Extract, SelectScope, Poll,
     Received, Decide, Elsewhere, EndPcs, roundVars, historyVars
<1>4. CASE Synthesize \/ SynthesisFails \/ EmitOutput \/ SaveGraph \/ TransportFails
  BY <1>4 DEF Synthesize, SynthesisFails, EmitOutput, SaveGraph, TransportFails, Goto,
     Elsewhere, EndPcs, roundVars, historyVars
<1>5. CASE (\E kind \in HumanInputs : HumanSends(kind)) \/ UNCHANGED vars
  BY <1>5 DEF HumanSends, Elsewhere, roundVars, historyVars, vars
<1> QED
  BY <1>1, <1>2, <1>3, <1>4, <1>5 DEF Next, EngineStep, RunnerStep, Stopped
-----------------------------------------------------------------------------
(* Types. *)

\* The part of TypeOK about what turns change, and the part about the rest.
TurnTypes ==
    /\ canvas \in CanvasIds
    /\ round \in Nat \ {0}
    /\ participants \in [Ids(canvas) -> [turns : Nat, model : Models \cup {Default}]]
    /\ pools \in Ledger
    /\ transcript \in Seq(TurnRecords)
    /\ whispers \in Queues
    /\ DOMAIN prompts \in {{}, Ids(canvas)} /\ DOMAIN replies = DOMAIN prompts
    /\ cursor \in Nat
    /\ todo \in [directives : Seq(Directive), forks : Seq(Address), consults : Nat]
    /\ result \in Outcome
    /\ spoken \in Seq(TurnRecords)
    /\ told \in Queues /\ due \in Queues

EngineTypes ==
    /\ pc \in {"start", "head"} \cup RoundPcs \cup AfterRoundPcs \cup EndPcs
    /\ state \in {"Initializing", "Running", "AwaitingApproval", "Synthesizing"}
    /\ graph \in [version : Nat, nodes : SUBSET NodeKinds]
    /\ nextScope \in Nat
    /\ inbox \in Seq(Input) /\ Len(inbox) <= InboxCap
    /\ stored \in Nat \cup {Nothing}
    /\ verdict \in {"none", "due", "given", "early"} /\ hasty \in BOOLEAN

\* The requests of a round exist from its start to its end, one per participant
\* of its canvas; a turn is taken by a participant.
RoundShape ==
    /\ pc \in {"start", "head", "extract", "select"} \cup AfterRoundPcs => prompts = <<>>
    /\ pc \in {"dispatch", "collect", "respond", "roundEnd"} => DOMAIN prompts = Ids(canvas)
    /\ pc = "respond" => cursor \in Seats(canvas)

TypeInv == TurnTypes /\ RoundShape /\ ResponseInv

\* An interval from 1 counts as many as its end.
LEMMA CountTo ==
    ASSUME NEW n \in Nat
    PROVE  IsFiniteSet(1 .. n) /\ Cardinality(1 .. n) = n
<1>1. 1 \in Int /\ n \in Int
  OBVIOUS
<1>2. IsFiniteSet(1 .. n) /\ Cardinality(1 .. n) = IF 1 > n THEN 0 ELSE n - 1 + 1
  BY <1>1, FS_Interval
<1>3. (IF 1 > n THEN 0 ELSE n - 1 + 1) = n
  OBVIOUS
<1> QED
  BY <1>2, <1>3

\* A turn's window is a part of the records it is taken from.
LEMMA LastOfType ==
    ASSUME NEW S, NEW s \in Seq(S), NEW n \in Nat
    PROVE  LastOf(s, n) \in Seq(S)
<1>1. Larger(1, Len(s) - n + 1) \in 1 .. Len(s) + 1
  BY DEF Larger
<1> QED
  BY <1>1, SubSeqProperties DEF LastOf

\* A whisper goes to the end of one queue, and of its history.
LEMMA EnqueuedType ==
    ASSUME whispers \in Queues, told \in Queues, round \in Nat,
           NEW to \in Address, NEW kind \in {"reply", "failed", "sidebar"}
    PROVE  Enqueued(to, kind) \in Queues /\ Told(to, kind) \in Queues
<1> DEFINE Item == [kind : {"reply", "failed", "sidebar"}, round : Nat]
<1>1. Whisper(kind) \in Item
  BY DEF Whisper
<1> QED
  BY <1>1 DEF Enqueued, Told, Queues

\* The response being processed is a parsed reply of a participant.
LEMMA ResponseType ==
    ASSUME TypeInv, AtResponse, replies[Speaker] # Failed
    PROVE  Response \in Reply /\ Speaker \in Ids(canvas) /\ Speaker \in Address
BY ResponseIsReply, IdsAreAddresses, RepliesAssumption
DEF TypeInv, TurnTypes, AtResponse, Speaker, Occupant

\* What is collected of a response is an outcome; its window stays one of turns.
LEMMA CollectedType ==
    ASSUME TypeInv, AtResponse, replies[Speaker] # Failed
    PROVE  Collected \in Outcome
<1>1. Response \in Reply /\ Speaker \in Address /\ result \in Outcome
  BY ResponseType DEF TypeInv, TurnTypes
<1> DEFINE ops == IF Response.proposes THEN <<Speaker>> ELSE <<>>
<1>2. ops \in Seq(Address)
  BY <1>1
<1>3. /\ result.agentOps \o ops \in Seq(Address)
      /\ result.moderatorOps \o ops \in Seq(Address)
      /\ Append(result.transcript, Speaker) \in Seq(Address)
  BY <1>1, <1>2 DEF Outcome
<1> HIDE DEF ops
<1>4. Collected = [result EXCEPT
           !.moderatorOps = IF IsModerator(Speaker) THEN @ \o ops ELSE @,
           !.agentOps = IF IsModerator(Speaker) THEN @ ELSE @ \o ops,
           !.transcript = Append(@, Speaker)]
  BY DEF Collected, ops
<1> QED
  BY <1>1, <1>3, <1>4 DEF Outcome

\* Taking a turn keeps the types of all it changes.
LEMMA TakeTurnTypes ==
    ASSUME TypeInv, TakeTurn
    PROVE  TurnTypes' /\ RoundShape'
<1>1. /\ AtResponse /\ replies[Speaker] # Failed
      /\ pc' = "respond"
      /\ UNCHANGED <<canvas, round, whispers, prompts, replies, cursor, told, due>>
  BY DEF TakeTurn
<1>2. /\ Response \in Reply /\ Speaker \in Ids(canvas) /\ Speaker \in Address
  BY <1>1, ResponseType
<1>3. result' \in Outcome
  BY <1>1, CollectedType DEF TakeTurn
<1>4. pools' \in Ledger
  BY <1>2, ChargedType DEF TakeTurn, TypeInv, TurnTypes, Reply, PoolName
<1>5. /\ participants[Speaker] \in [turns : Nat, model : Models \cup {Default}]
      /\ participants' = [participants EXCEPT ![Speaker].turns = @ + 1]
  BY <1>2 DEF TakeTurn, Counted, TypeInv, TurnTypes
<1>6. participants' \in [Ids(canvas) -> [turns : Nat, model : Models \cup {Default}]]
  <2> DEFINE p == participants[Speaker]
             Participant == [turns : Nat, model : Models \cup {Default}]
  <2>1. [p EXCEPT !.turns = @ + 1] \in Participant
    BY <1>5
  <2>2. participants' = [participants EXCEPT ![Speaker] = [p EXCEPT !.turns = @ + 1]]
    BY <1>5
  <2> HIDE DEF p, Participant
  <2>3. participants \in [Ids(canvas) -> Participant]
    BY DEF TypeInv, TurnTypes, Participant
  <2> QED
    BY <2>1, <2>2, <2>3 DEF Participant
<1>7. TurnRecord \in TurnRecords
  BY <1>2, <1>5 DEF TurnRecord, TurnRecords, Reply, TypeInv, TurnTypes
<1>8. spoken' \in Seq(TurnRecords) /\ Append(transcript, TurnRecord) \in Seq(TurnRecords)
  BY <1>7 DEF TakeTurn, TypeInv, TurnTypes
<1>9. Canvas[Home].window \in Nat
  BY CanvasAssumption DEF CanvasDef
<1>10. transcript' \in Seq(TurnRecords)
  BY <1>8, <1>9, LastOfType DEF TakeTurn, Pushed
<1>11. todo' \in [directives : Seq(Directive), forks : Seq(Address), consults : Nat]
  BY <1>2 DEF TakeTurn, Reply
<1> QED
  BY <1>1, <1>3, <1>4, <1>6, <1>8, <1>10, <1>11
  DEF TypeInv, TurnTypes, RoundShape, AtResponse, AfterRoundPcs

\* So does a directive: what it names is an address, a model or a canvas.
LEMMA DirectiveTypes ==
    ASSUME TypeInv, DirectiveStep
    PROVE  TurnTypes' /\ RoundShape'
<1> DEFINE d == ThisDirective
<1>1. d \in Directive /\ Tail(todo.directives) \in Seq(Directive)
  BY DEF TypeInv, TurnTypes, DirectiveStep, ThisDirective
<1>2. /\ d.kind = "fork" => d.who \in Address
      /\ d.kind = "model" => d.model \in Models
      /\ d.kind = "switch" => d.canvas \in CanvasIds \cup {"unknown"}
      /\ d.kind = "adjust" => d.delta \in Int
  BY <1>1, DeltaIsInt DEF Directive
<1>3. todo' \in [directives : Seq(Directive), forks : Seq(Address), consults : Nat]
  <2>1. todo \in [directives : Seq(Directive), forks : Seq(Address), consults : Nat]
    BY DEF TypeInv, TurnTypes
  <2>2. CASE todo' = [todo EXCEPT !.directives = Tail(@)]
    BY <1>1, <2>1, <2>2
  <2>3. CASE /\ d.kind = "fork"
             /\ todo' = [todo EXCEPT !.directives = Tail(@), !.forks = Append(@, d.who)]
    <3>1. Append(todo.forks, d.who) \in Seq(Address)
      BY <1>2, <2>1, <2>3
    <3> QED
      BY <1>1, <2>1, <2>3, <3>1
  <2> QED
    BY <2>2, <2>3 DEF DirectiveStep
<1>4. participants' \in [Ids(canvas) -> [turns : Nat, model : Models \cup {Default}]]
  <2>1. CASE d.kind = "model" /\ ExecuteSetModel
    <3>1. participants' = [a \in Ids(canvas) |->
                             IF a \in Addressed(d.who)
                             THEN [participants[a] EXCEPT !.model = d.model]
                             ELSE participants[a]]
      BY <2>1 DEF ExecuteSetModel
    <3> QED
      BY <1>2, <2>1, <3>1 DEF TypeInv, TurnTypes
  <2> QED
    BY <2>1 DEF DirectiveStep, TypeInv, TurnTypes
<1>5. result' \in Outcome
  BY <1>2 DEF DirectiveStep, TypeInv, TurnTypes, Outcome
<1>6. pools' \in Ledger
  <2>1. CASE d.kind = "adjust" /\ ExecuteAdjustBudget
    <3>1. \A p \in PoolName : Adjusted(pools, p, d.delta, Counterpart(p), -d.delta) \in Ledger
      BY <1>2, <2>1, AdjustedType DEF TypeInv, TurnTypes, Counterpart, PoolName
    <3> QED
      BY <2>1, <3>1 DEF ExecuteAdjustBudget, Rebalanced, TypeInv, TurnTypes
  <2> QED
    BY <2>1 DEF DirectiveStep, TypeInv, TurnTypes
<1> QED
  BY <1>3, <1>4, <1>5, <1>6
  DEF DirectiveStep, TypeInv, TurnTypes, RoundShape, AfterRoundPcs

\* So does a call: a reply goes to the participant that asked for it, a sidebar's
\* answer to the address of the directive.
LEMMA CallTypes ==
    ASSUME TypeInv, CallStepDone
    PROVE  TurnTypes' /\ RoundShape'
<1> USE DEF TypeInv
<1>1. /\ pc = "respond" /\ cursor \in Seats(canvas)
      /\ UNCHANGED <<pc, canvas, round, participants, transcript, prompts, replies, cursor,
                     result, spoken, due>>
  BY DEF CallStepDone, CallReturns, RoundShape
<1>2. Speaker \in Address
  BY <1>1, IdsAreAddresses DEF TurnTypes, Speaker, Occupant
<1>3. todo \in [directives : Seq(Directive), forks : Seq(Address), consults : Nat]
  BY DEF TurnTypes
<1>4. /\ todo.forks # <<>> => /\ Head(todo.forks) \in Address
                              /\ Tail(todo.forks) \in Seq(Address)
      /\ todo.consults > 0 => todo.consults - 1 \in Nat
  BY <1>3
<1>5. todo' \in [directives : Seq(Directive), forks : Seq(Address), consults : Nat]
  BY <1>3, <1>4 DEF CallStepDone
<1>6. whispers' \in Queues /\ told' \in Queues
  <2>1. whispers \in Queues /\ told \in Queues /\ round \in Nat
    BY DEF TurnTypes
  <2>2. \A to \in Address : \A kind \in {"reply", "failed", "sidebar"} :
           Enqueued(to, kind) \in Queues /\ Told(to, kind) \in Queues
    BY <2>1, EnqueuedType
  <2>3. \/ UNCHANGED <<whispers, told>>
        \/ \E to \in Address : \E kind \in {"reply", "failed", "sidebar"} :
              whispers' = Enqueued(to, kind) /\ told' = Told(to, kind)
    BY <1>2, <1>4 DEF CallStepDone
  <2> QED
    BY <2>1, <2>2, <2>3
<1>7. pools' \in Ledger
  BY ChargedType, RepliesAssumption DEF CallStepDone, TurnTypes, PoolName
<1> QED
  BY <1>1, <1>5, <1>6, <1>7 DEF TurnTypes, RoundShape, AfterRoundPcs

\* The other steps of a round, and its boundary, keep types and shape as well.
LEMMA RoundTypes ==
    ASSUME TypeInv,
           \/ StartRound \/ EndRound \/ Boundary \/ RefuseTurn \/ SkipFailedDispatch
           \/ EndTurn \/ Elsewhere
           \/ \E a \in DOMAIN replies :
                 \E outcome \in ModelReplies \cup {Failed} : Complete(a, outcome)
    PROVE  TurnTypes' /\ RoundShape'
<1> USE DEF TypeInv, TurnTypes, RoundShape, AfterRoundPcs
<1>1. CASE StartRound
  <2>1. /\ pc' = "dispatch" /\ UNCHANGED <<canvas, round, participants, pools, transcript,
                                           todo, spoken>>
        /\ told' = NoWhispers /\ due' = told
        /\ cursor' \in SeatAfter(0) /\ result' = NoResult
        /\ whispers' = [a \in Address |-> IF a \in Ids(canvas) THEN <<>> ELSE whispers[a]]
        /\ DOMAIN prompts' = Ids(canvas) /\ DOMAIN replies' = Ids(canvas)
    BY <1>1 DEF StartRound, BeginRound, Drained, historyVars
  <2>2. cursor' \in Nat /\ NoResult \in Outcome
    BY <2>1, SeatAfterIsNext DEF NoResult, Outcome
  <2>3. whispers' \in Queues /\ told' \in Queues /\ due' \in Queues
    BY <2>1 DEF Queues, NoWhispers
  <2> QED
    BY <2>1, <2>2, <2>3
<1>2. CASE EndRound
  <2>1. /\ pc' \in {"extract", "boundary"} /\ prompts' = <<>> /\ replies' = <<>>
        /\ cursor' = 0 /\ todo' = NothingTodo
        /\ UNCHANGED <<canvas, round, participants, pools, transcript, whispers, result,
                       spoken, told, due>>
    BY <1>2 DEF EndRound, historyVars
  <2>2. NothingTodo \in [directives : Seq(Directive), forks : Seq(Address), consults : Nat]
    BY DEF NothingTodo
  <2> QED
    BY <2>1, <2>2
<1>3. CASE Boundary
  <2>1. /\ pc = "boundary" /\ pc' \in {"approval", "decide"}
        /\ UNCHANGED <<round, pools, transcript, whispers, prompts, replies, cursor, todo,
                       result, spoken, told, due>>
        /\ \/ UNCHANGED <<canvas, participants>>
           \/ canvas' \in Library /\ participants' = Seated(canvas')
    BY <1>3 DEF Boundary, SwitchCanvas, roundVars, historyVars
  <2>2. canvas' \in CanvasIds
    BY <2>1, CanvasAssumption
  <2>3. participants' \in [Ids(canvas') -> [turns : Nat, model : Models \cup {Default}]]
    BY <2>1 DEF Seated
  <2>4. prompts = <<>> /\ DOMAIN prompts = {}
    BY <2>1
  <2> QED
    BY <2>1, <2>2, <2>3, <2>4
<1>4. CASE RefuseTurn
  <2>1. /\ AtResponse /\ replies[Speaker] # Failed /\ pc = "collect" /\ pc' = "roundEnd"
        /\ result' = [Collected EXCEPT !.close = TRUE]
        /\ UNCHANGED <<canvas, round, participants, pools, transcript, whispers, prompts,
                       replies, cursor, todo, spoken, told, due>>
    BY <1>4 DEF RefuseTurn, AtResponse, historyVars
  <2>2. result' \in Outcome
    BY <2>1, CollectedType DEF Outcome
  <2> QED
    BY <2>1, <2>2
<1>5. CASE SkipFailedDispatch \/ EndTurn
  <2>1. /\ UNCHANGED <<canvas, round, participants, pools, transcript, whispers, prompts,
                       replies, todo, result, spoken, told, due>>
        /\ pc \in {"collect", "respond"} /\ pc' \in {"collect", "roundEnd"}
        /\ cursor' \in SeatAfter(cursor) \/ UNCHANGED cursor
    BY <1>5 DEF SkipFailedDispatch, AtResponse, EndTurn, historyVars
  <2>2. cursor' \in Nat
    BY <2>1, SeatAfterIsNext
  <2> QED
    BY <2>1, <2>2
<1>6. CASE Elsewhere
  BY <1>6 DEF Elsewhere, EndPcs
<1>7. ASSUME NEW a \in DOMAIN replies, NEW outcome, Complete(a, outcome)
      PROVE  TurnTypes' /\ RoundShape'
  BY <1>7 DEF Complete, historyVars
<1> QED
  BY <1>1, <1>2, <1>3, <1>4, <1>5, <1>6, <1>7

\* Graph updates leave a version and kinds of nodes.
LEMMA GraphTypes ==
    ASSUME NEW g \in [version : Nat, nodes : SUBSET NodeKinds],
           NEW agents \in BOOLEAN, NEW moderator \in BOOLEAN
    PROVE  /\ DeltaApplied(g, agents) \subseteq [version : Nat, nodes : SUBSET NodeKinds]
           /\ ProposalsApplied(g, agents, moderator)
                \subseteq [version : Nat, nodes : SUBSET NodeKinds]
BY DEF DeltaApplied, ProposalsApplied

\* Where the run is, its graph, its scope, its inbox and what is stored keep
\* their types.
LEMMA StepEngineTypes ==
    ASSUME TypeInv, EngineTypes, [Next]_vars
    PROVE  EngineTypes'
<1> USE DEF EngineTypes, RoundPcs, AfterRoundPcs, EndPcs, historyVars, approvalVars
<1>1. CASE StartRound \/ RunnerStep \/ CallStep
  <2>1. /\ UNCHANGED <<state, graph, nextScope, inbox, stored>>
        /\ pc' \in {"head"} \cup RoundPcs
        /\ verdict' \in {verdict, "due"} /\ UNCHANGED hasty
    BY <1>1, StepInRound
    DEF StartRound, BeginRound, RunnerStep, CallStep, JoinAll, SkipFailedDispatch,
        AtResponse, RefuseTurn, TakeTurn, Execute, ExecuteClose, ExecuteInvite,
        ExecuteRelease, ExecuteRequestApproval, ExecuteAdjustBudget, ExecuteSetModel,
        ExecuteForkConsultation, ExecuteSwitchCanvas, EndTurn, AllCollected, Complete,
        DispatchAnswers, DispatchFails, CallReturns, ForkReturns, AtFork,
        ConsultAnswers, ConsultFails, AtConsult, historyVars
  <2> QED
    BY <2>1
<1>2. CASE EndRound
  <2>1. graph' \in [version : Nat, nodes : SUBSET NodeKinds]
    BY <1>2, GraphTypes DEF EndRound
  <2> QED
    BY <1>2, <2>1 DEF EndRound, NoScope, historyVars
<1>3. CASE Extract
  <2>1. graph' \in [version : Nat, nodes : SUBSET NodeKinds]
    BY <1>3, GraphTypes DEF Extract
  <2> QED
    BY <1>3, <2>1 DEF Extract, historyVars
<1>4. CASE SelectScope
  <2>1. nextScope' \in Nat
    BY <1>4 DEF SelectScope, NoScope, TypeInv, TurnTypes
  <2> QED
    BY <1>4, <2>1 DEF SelectScope, historyVars
<1>5. CASE Start \/ RoundsExhausted \/ Boundary \/ Decide
  BY <1>5 DEF Start, RoundsExhausted, Boundary, Decide
<1>6. CASE Poll
  <2>1. inbox' \in Seq(Input) /\ Len(inbox') <= InboxCap
    BY <1>6, EnvironmentAssumption DEF Poll, Received
  <2> QED
    BY <1>6, <2>1 DEF Poll, Received, Given
<1>7. CASE Synthesize \/ SynthesisFails \/ EmitOutput \/ TransportFails
  BY <1>7 DEF Synthesize, SynthesisFails, EmitOutput, TransportFails, Goto, historyVars
<1>8. CASE SaveGraph
  BY <1>8 DEF SaveGraph, historyVars
<1>9. ASSUME NEW kind \in HumanInputs, HumanSends(kind)
      PROVE  EngineTypes'
  <2> DEFINE sent == [kind |-> kind,
                      answers |-> IF kind \in Verdict /\ Asked THEN round ELSE 0]
  <2>1. /\ inbox' = Append(inbox, sent)
        /\ Len(inbox) < InboxCap
        /\ UNCHANGED <<pc, state, graph, nextScope, stored, verdict>>
        /\ hasty' \in BOOLEAN
    BY <1>9 DEF HumanSends
  <2>2. sent \in Input
    BY DEF Input, TypeInv, TurnTypes
  <2> HIDE DEF sent
  <2>3. inbox' \in Seq(Input) /\ Len(inbox') = Len(inbox) + 1
    BY <2>1, <2>2
  <2> QED
    BY <2>1, <2>3, EnvironmentAssumption
<1>10. CASE UNCHANGED vars
  BY <1>10 DEF vars
<1> QED
  BY <1>1, <1>2, <1>3, <1>4, <1>5, <1>6, <1>7, <1>8, <1>9, <1>10
  DEF Next, EngineStep, Stopped

\* A session begins with the participants of its own canvas and no turn.
LEMMA InitTypes == Init => TypeInv /\ EngineTypes
<1> SUFFICES ASSUME Init
             PROVE  TypeInv /\ EngineTypes
  OBVIOUS
<1>1. Home \in CanvasIds /\ Canvas[Home].pools \in [PoolName -> Word]
  BY CanvasAssumption DEF CanvasDef
<1>2. pools \in Ledger
  BY <1>1, U32Assumption DEF Init, NewLedger, Ledger, Pool, Word
<1>3. participants \in [Ids(canvas) -> [turns : Nat, model : Models \cup {Default}]]
  BY DEF Init, Seated
<1>4. result \in Outcome
  BY DEF Init, NoResult, Outcome
<1>5. todo \in [directives : Seq(Directive), forks : Seq(Address), consults : Nat]
  BY DEF Init, NothingTodo
<1>6. whispers \in Queues /\ told \in Queues /\ due \in Queues
  BY DEF Init, NoWhispers, Queues
<1>7. ResponseInv
  BY DEF Init, ResponseInv, NothingTodo
<1>8. TurnTypes /\ RoundShape
  BY <1>1, <1>2, <1>3, <1>4, <1>5, <1>6 DEF Init, TurnTypes, RoundShape
<1>9. EngineTypes
  <2>1. graph \in [version : Nat, nodes : SUBSET NodeKinds]
    BY DEF Init, EmptyGraph
  <2>2. inbox \in Seq(Input) /\ Len(inbox) <= InboxCap
    BY EnvironmentAssumption DEF Init
  <2>3. stored = Nothing \/ stored = 1
    BY DEF Init
  <2>4. pc = "start" /\ state = "Initializing" /\ nextScope \in Nat
    BY DEF Init, NoScope
  <2>5. verdict = "none" /\ hasty = FALSE
    BY DEF Init
  <2>6. stored \in Nat \cup {Nothing}
    BY <2>3
  <2>7. pc \in {"start", "head"} \cup RoundPcs \cup AfterRoundPcs \cup EndPcs
    BY <2>4
  <2> QED
    BY <2>1, <2>2, <2>4, <2>5, <2>6, <2>7 DEF EngineTypes
<1> QED
  BY <1>7, <1>8, <1>9 DEF TypeInv

\* No step takes the session out of its types.
LEMMA StepTypes ==
    ASSUME TypeInv, EngineTypes, [Next]_vars
    PROVE  TypeInv' /\ EngineTypes'
<1>1. TurnTypes' /\ RoundShape'
  BY StepKinds, RoundTypes, TakeTurnTypes, DirectiveTypes, CallTypes
<1> QED
  BY <1>1, StepResponse, StepEngineTypes DEF TypeInv

\* Every variable holds a value the code's types allow, and the participants are
\* those of the active canvas, whatever was switched to.
THEOREM SessionTyped == Spec => []TypeOK
<1>1. TypeInv /\ EngineTypes /\ [Next]_vars => (TypeInv /\ EngineTypes)'
  BY StepTypes
<1>2. TypeInv /\ EngineTypes => TypeOK
  BY DEF TypeInv, TurnTypes, EngineTypes, TypeOK
<1> QED
  BY InitTypes, <1>1, <1>2, PTL DEF Spec
-----------------------------------------------------------------------------
(* Turns: their order, the window, their numbers. *)

\* Dropping the oldest records before or after one is added makes no difference.
LEMMA WindowSlides ==
    ASSUME NEW S, NEW s \in Seq(S), NEW x \in S, NEW n \in Nat
    PROVE  LastOf(Append(LastOf(s, n), x), n) = LastOf(Append(s, x), n)
<1> DEFINE k == Larger(1, Len(s) - n + 1)
           w == LastOf(s, n)
           wx == Append(w, x)
           sx == Append(s, x)
<1>1. /\ k \in 1 .. Len(s) + 1
      /\ IF n >= Len(s) THEN k = 1 ELSE k = Len(s) - n + 1
  BY DEF Larger
<1>2. /\ w = SubSeq(s, k, Len(s)) /\ w \in Seq(S)
      /\ Len(w) = Len(s) - k + 1
      /\ \A i \in 1 .. Len(w) : w[i] = s[k + i - 1]
  BY <1>1, LastOfType, SubSeqProperties DEF LastOf
<1>3. /\ wx \in Seq(S) /\ Len(wx) = Len(w) + 1
      /\ \A i \in 1 .. Len(wx) : wx[i] = IF i <= Len(w) THEN w[i] ELSE x
  <2>1. w \in Seq(S)
    BY <1>2
  <2> HIDE DEF w
  <2> QED
    BY <2>1
<1>4. /\ sx \in Seq(S) /\ Len(sx) = Len(s) + 1
      /\ \A i \in 1 .. Len(sx) : sx[i] = IF i <= Len(s) THEN s[i] ELSE x
  OBVIOUS
<1> HIDE DEF w, wx, sx
<1>5. CASE n >= Len(s)
  <2>1. k = 1 /\ w = s
    BY <1>1, <1>2, <1>5, SubSeqFull
  <2> QED
    BY <2>1 DEF w, wx
<1>6. CASE n < Len(s)
  <2> DEFINE l == Larger(1, Len(wx) - n + 1)
             r == Larger(1, Len(sx) - n + 1)
  <2>1. Len(w) = n /\ k = Len(s) - n + 1 /\ Len(wx) = n + 1
    BY <1>1, <1>2, <1>3, <1>6
  <2>2. l = 2 /\ r = k + 1
    BY <1>1, <1>4, <1>6, <2>1 DEF Larger
  <2>3. /\ LastOf(wx, n) = SubSeq(wx, 2, n + 1)
        /\ LastOf(sx, n) = SubSeq(sx, k + 1, Len(s) + 1)
    BY <1>4, <2>1, <2>2 DEF LastOf
  <2>4. /\ SubSeq(wx, 2, n + 1) \in Seq(S) /\ Len(SubSeq(wx, 2, n + 1)) = n
        /\ \A i \in 1 .. n : SubSeq(wx, 2, n + 1)[i] = wx[i + 1]
    BY <1>3, <2>1, SubSeqProperties
  <2>5. /\ SubSeq(sx, k + 1, Len(s) + 1) \in Seq(S)
        /\ Len(SubSeq(sx, k + 1, Len(s) + 1)) = n
        /\ \A i \in 1 .. n : SubSeq(sx, k + 1, Len(s) + 1)[i] = sx[k + i]
    <3> HIDE DEF k, l, r
    <3>1. Len(s) \in Nat /\ k \in Int /\ k = Len(s) - n + 1
      BY <1>1, <1>6, <2>1
    <3>2. /\ k + 1 \in Int /\ Len(s) + 1 \in Int
          /\ (Len(s) + 1) - (k + 1) + 1 = n
          /\ (IF k + 1 <= Len(s) + 1 THEN n ELSE 0) = n
      BY <3>1
    <3>3. \A i \in (k + 1) .. (Len(s) + 1) : sx[i] \in S
      BY <1>1, <1>4
    <3>4. /\ SubSeq(sx, k + 1, Len(s) + 1) \in Seq(S)
          /\ Len(SubSeq(sx, k + 1, Len(s) + 1))
               = IF k + 1 <= Len(s) + 1 THEN (Len(s) + 1) - (k + 1) + 1 ELSE 0
          /\ \A i \in 1 .. (Len(s) + 1) - (k + 1) + 1 :
                SubSeq(sx, k + 1, Len(s) + 1)[i] = sx[(k + 1) + i - 1]
      BY <3>2, <3>3, SubSeqProperties
    <3>5. ASSUME NEW i \in 1 .. n
          PROVE  SubSeq(sx, k + 1, Len(s) + 1)[i] = sx[k + i]
      <4>1. SubSeq(sx, k + 1, Len(s) + 1)[i] = sx[(k + 1) + i - 1]
        BY <3>2, <3>4
      <4>2. (k + 1) + i - 1 = k + i
        BY <3>1
      <4> QED
        BY <4>1, <4>2
    <3>6. Len(SubSeq(sx, k + 1, Len(s) + 1)) = n
      BY <3>2, <3>4
    <3> QED
      BY <3>4, <3>5, <3>6
  <2>6. ASSUME NEW i \in 1 .. n
        PROVE  wx[i + 1] = sx[k + i]
    <3> HIDE DEF k, l, r
    <3>1. i + 1 \in 1 .. Len(wx) /\ k + i \in 1 .. Len(sx) /\ k + i = Len(s) + 1 - n + i
      BY <1>1, <1>4, <1>6, <2>1
    <3>2. CASE i = n
      BY <1>3, <1>4, <1>6, <2>1, <3>1, <3>2
    <3>3. CASE i < n
      <4>1. i + 1 \in 1 .. Len(w) /\ k + i <= Len(s)
        BY <1>6, <2>1, <3>1, <3>3
      <4>2. wx[i + 1] = w[i + 1] /\ sx[k + i] = s[k + i]
        BY <1>3, <1>4, <3>1, <4>1
      <4>3. w[i + 1] = s[k + (i + 1) - 1]
        BY <1>2, <4>1
      <4>4. k + (i + 1) - 1 = k + i
        BY <1>1
      <4> QED
        BY <4>2, <4>3, <4>4
    <3> QED
      BY <3>2, <3>3
  <2> HIDE DEF k, l, r
  <2> DEFINE a == SubSeq(wx, 2, n + 1)
             b == SubSeq(sx, k + 1, Len(s) + 1)
  <2>7. /\ a \in Seq(S) /\ b \in Seq(S) /\ Len(a) = Len(b)
        /\ \A i \in 1 .. Len(a) : a[i] = b[i]
    BY <2>4, <2>5, <2>6
  <2>8. a = b
    <3> HIDE DEF a, b
    <3> QED
      BY <2>7, SeqEqual
  <2> QED
    BY <2>3, <2>8 DEF wx, sx, w
<1> QED
  BY <1>5, <1>6

\* Turns are only ever added, and only by TakeTurn, to the records and the window.
LEMMA TurnsOnlyTaken ==
    ASSUME [Next]_vars
    PROVE  \/ TakeTurn
           \/ UNCHANGED <<spoken, transcript>>
BY StepKinds
DEF StartRound, BeginRound, EndRound, Boundary, RefuseTurn, SkipFailedDispatch, EndTurn,
    Complete, DirectiveStep, CallStepDone, CallReturns, Elsewhere, historyVars

\* The context window holds the most recent turns of the session, no other and
\* none missing, across rounds and canvas switches.
THEOREM WindowFollowsTurns == Spec => []WindowIsRecent
<1>1. Canvas[Home].window \in Nat
  BY CanvasAssumption DEF CanvasDef
<1>2. Init => WindowIsRecent
  BY <1>1, SubSeqEmpty DEF Init, WindowIsRecent, LastOf, Larger
<1>3. ASSUME TypeInv, WindowIsRecent, [Next]_vars
      PROVE  WindowIsRecent'
  <2>1. CASE TakeTurn
    <3>1. TurnRecord \in TurnRecords
      <4>1. spoken' \in Seq(TurnRecords) /\ spoken' = Append(spoken, TurnRecord)
        BY <2>1, TakeTurnTypes, <1>3 DEF TurnTypes, TakeTurn
      <4> QED
        BY <4>1 DEF TypeInv, TurnTypes
    <3> QED
      BY <1>1, <1>3, <2>1, <3>1, WindowSlides
      DEF TakeTurn, Pushed, WindowIsRecent, TypeInv, TurnTypes
  <2>2. CASE UNCHANGED <<spoken, transcript>>
    BY <1>3, <2>2 DEF WindowIsRecent, LastOf
  <2> QED
    BY <1>3, <2>1, <2>2, TurnsOnlyTaken
<1> QED
  BY InitTypes, StepTypes, <1>2, <1>3, PTL DEF Spec

\* No turn belongs to a later round; before a round's responses are processed none
\* belongs to it, and while they are, its turns belong to seats already passed.
OrderInv ==
    /\ SpokenInOrder
    /\ \A i \in DOMAIN spoken : spoken[i].round <= round
    /\ pc \in {"start", "head", "dispatch"} =>
         \A i \in DOMAIN spoken : spoken[i].round < round
    /\ pc = "collect" =>
         \A i \in DOMAIN spoken : spoken[i].round = round => spoken[i].agent[2] < cursor
    /\ pc = "respond" =>
         \A i \in DOMAIN spoken : spoken[i].round = round => spoken[i].agent[2] <= cursor

\* What a turn adds to the records.
LEMMA TurnTaken ==
    ASSUME TypeInv, TakeTurn
    PROVE  /\ pc = "collect" /\ pc' = "respond"
           /\ UNCHANGED <<canvas, round, whispers, prompts, replies, cursor>>
           /\ Speaker \in Ids(canvas) /\ Speaker[2] = cursor
           /\ spoken \in Seq(TurnRecords) /\ spoken' \in Seq(TurnRecords)
           /\ Len(spoken') = Len(spoken) + 1
           /\ DOMAIN spoken' = DOMAIN spoken \cup {Len(spoken) + 1}
           /\ \A i \in DOMAIN spoken : spoken'[i] = spoken[i] /\ i < Len(spoken) + 1
           /\ spoken'[Len(spoken) + 1] = TurnRecord
           /\ result'.transcript = Append(result.transcript, Speaker)
           /\ result'.close = result.close
<1>1. /\ AtResponse /\ replies[Speaker] # Failed /\ pc = "collect" /\ pc' = "respond"
      /\ UNCHANGED <<canvas, round, whispers, prompts, replies, cursor>>
      /\ result' = Collected
      /\ spoken' = Append(spoken, TurnRecord)
  BY DEF TakeTurn, AtResponse
<1>2. spoken \in Seq(TurnRecords) /\ spoken' \in Seq(TurnRecords)
  BY TakeTurnTypes DEF TypeInv, TurnTypes
<1>3. Speaker \in Ids(canvas) /\ Speaker[2] = cursor
  BY <1>1, ResponseType DEF Speaker, Occupant
<1>4. /\ result'.transcript = Append(result.transcript, Speaker)
      /\ result'.close = result.close
  BY <1>1 DEF Collected, TypeInv, TurnTypes, Outcome
<1>5. /\ Len(spoken') = Len(spoken) + 1
      /\ DOMAIN spoken' = DOMAIN spoken \cup {Len(spoken) + 1}
      /\ \A i \in DOMAIN spoken : spoken'[i] = spoken[i] /\ i < Len(spoken) + 1
      /\ spoken'[Len(spoken) + 1] = TurnRecord
  BY <1>1, <1>2
<1> QED
  BY <1>1, <1>2, <1>3, <1>4, <1>5

\* A turn is recorded behind those of the seats before it; a round is over before
\* the next one's first turn.
LEMMA StepOrder ==
    ASSUME TypeInv, OrderInv, [Next]_vars
    PROVE  OrderInv'
<1> USE DEF OrderInv
<1>0. /\ round \in Nat /\ cursor \in Nat /\ spoken \in Seq(TurnRecords)
      /\ \A i \in DOMAIN spoken : spoken[i].round \in Nat /\ spoken[i].agent[2] \in Nat
  <2>1. spoken \in Seq(TurnRecords)
    BY DEF TypeInv, TurnTypes
  <2>2. \A t \in TurnRecords : t.round \in Nat /\ t.agent[2] \in Nat
    BY CanvasAssumption DEF TurnRecords, Address
  <2> QED
    BY <2>1, <2>2 DEF TypeInv, TurnTypes
<1>1. CASE TakeTurn
  <2>1. TurnRecord.round = round /\ TurnRecord.agent[2] = cursor
    BY <1>1, TurnTaken DEF TurnRecord
  <2>2. SpokenInOrder'
    <3> SUFFICES ASSUME NEW i \in DOMAIN spoken', NEW j \in DOMAIN spoken', i < j
                 PROVE  \/ spoken'[i].round < spoken'[j].round
                        \/ /\ spoken'[i].round = spoken'[j].round
                           /\ spoken'[i].agent[2] < spoken'[j].agent[2]
      BY DEF SpokenInOrder
    <3>1. CASE j \in DOMAIN spoken
      <4>1. i \in DOMAIN spoken
        BY <1>0, <3>1, <1>1, TurnTaken
      <4>2. spoken'[i] = spoken[i] /\ spoken'[j] = spoken[j]
        BY <1>1, <3>1, <4>1, TurnTaken
      <4> QED
        BY <3>1, <4>1, <4>2 DEF SpokenInOrder
    <3>2. CASE j = Len(spoken) + 1
      <4>1. i \in DOMAIN spoken /\ spoken'[i] = spoken[i] /\ spoken'[j] = TurnRecord
        BY <1>0, <1>1, <3>2, TurnTaken
      <4>2. \/ spoken[i].round < round
            \/ spoken[i].round = round /\ spoken[i].agent[2] < cursor
        BY <1>0, <1>1, <4>1, TurnTaken
      <4> QED
        BY <2>1, <4>1, <4>2
    <3> QED
      BY <1>1, <3>1, <3>2, TurnTaken
  <2>3. \A i \in DOMAIN spoken' :
           /\ spoken'[i].round <= round
           /\ spoken'[i].round = round => spoken'[i].agent[2] <= cursor
    BY <1>0, <1>1, <2>1, TurnTaken
  <2> QED
    BY <1>1, <2>2, <2>3, TurnTaken
<1>2. CASE SkipFailedDispatch \/ EndTurn
  <2>1. /\ UNCHANGED <<round, spoken>> /\ pc' \in {"collect", "roundEnd"}
        /\ pc' = "collect" => cursor < cursor'
        /\ pc \in {"collect", "respond"}
    BY <1>0, <1>2, SeatAfterIsNext
    DEF SkipFailedDispatch, AtResponse, EndTurn, TypeInv, TurnTypes, historyVars
  <2>2. pc' = "collect" => cursor' \in Nat
    BY <1>0, <1>2, SeatAfterIsNext
    DEF SkipFailedDispatch, AtResponse, EndTurn, TypeInv, TurnTypes, historyVars
  <2> QED
    BY <1>0, <2>1, <2>2 DEF SpokenInOrder
<1>3. CASE \/ EndRound \/ Boundary \/ RefuseTurn \/ DirectiveStep \/ CallStepDone
           \/ \E a \in DOMAIN replies :
                 \E outcome \in ModelReplies \cup {Failed} : Complete(a, outcome)
  <2>1. /\ UNCHANGED <<round, spoken>>
        /\ \/ UNCHANGED <<pc, cursor>>
           \/ pc' \notin {"start", "head", "dispatch", "collect", "respond"}
    BY <1>3 DEF EndRound, Boundary, RefuseTurn, DirectiveStep, CallStepDone, CallReturns,
       Complete, historyVars
  <2> QED
    BY <2>1 DEF SpokenInOrder
<1>4. CASE StartRound
  <2>1. UNCHANGED <<round, spoken>> /\ pc = "head" /\ pc' = "dispatch"
    BY <1>4 DEF StartRound, BeginRound, historyVars
  <2> QED
    BY <2>1 DEF SpokenInOrder
<1>5. CASE Elsewhere
  BY <1>0, <1>5 DEF Elsewhere, EndPcs, SpokenInOrder
<1> QED
  BY <1>1, <1>2, <1>3, <1>4, <1>5, StepKinds

\* No session begins with turns.
LEMMA InitOrder == Init => OrderInv
BY DEF Init, OrderInv, SpokenInOrder

\* Turns are recorded by round and, within a round, in seat order, at most one per
\* participant, in whatever order the concurrent dispatches finish.
THEOREM TurnsInOrder == Spec => []SpokenInOrder
<1>1. OrderInv => SpokenInOrder
  BY DEF OrderInv
<1> QED
  BY InitTypes, StepTypes, InitOrder, StepOrder, <1>1, PTL DEF Spec
-----------------------------------------------------------------------------
(* Prompts. *)

\* A turn taken in a round changes nothing of what was recorded before it.
LEMMA PastIsFixed ==
    ASSUME TypeInv, TakeTurn
    PROVE  SpokenBefore(round)' = SpokenBefore(round)
<1> DEFINE past == {i \in DOMAIN spoken : spoken[i].round < round}
           k == Cardinality(past)
<1>1. /\ spoken \in Seq(TurnRecords) /\ spoken' \in Seq(TurnRecords)
      /\ Len(spoken') = Len(spoken) + 1
      /\ \A i \in DOMAIN spoken : spoken'[i] = spoken[i]
      /\ DOMAIN spoken' = DOMAIN spoken \cup {Len(spoken) + 1}
      /\ spoken'[Len(spoken) + 1].round = round /\ round' = round /\ round \in Nat
  BY TurnTaken DEF TypeInv, TurnTypes, TurnRecord
<1>2. {i \in DOMAIN spoken' : spoken'[i].round < round'} = past
  BY <1>1
<1>3. k \in Nat /\ k <= Len(spoken)
  <2>1. past \subseteq 1 .. Len(spoken)
    BY <1>1
  <2>2. IsFiniteSet(1 .. Len(spoken)) /\ Cardinality(1 .. Len(spoken)) = Len(spoken)
    <3>1. Len(spoken) \in Nat
      BY <1>1
    <3> QED
      BY <3>1, CountTo
  <2> QED
    BY <2>1, <2>2, FS_Subset, FS_CardinalityType
<1> HIDE DEF k, past
<1>4. /\ SubSeq(spoken, 1, k) \in Seq(TurnRecords) /\ Len(SubSeq(spoken, 1, k)) = k
      /\ \A i \in 1 .. k : SubSeq(spoken, 1, k)[i] = spoken[i]
  BY <1>1, <1>3, SubSeqProperties
<1>5. /\ SubSeq(spoken', 1, k) \in Seq(TurnRecords) /\ Len(SubSeq(spoken', 1, k)) = k
      /\ \A i \in 1 .. k : SubSeq(spoken', 1, k)[i] = spoken'[i]
  BY <1>1, <1>3, SubSeqProperties
<1>6. \A i \in 1 .. k : spoken'[i] = spoken[i]
  BY <1>1, <1>3
<1>7. SubSeq(spoken', 1, k) = SubSeq(spoken, 1, k)
  BY <1>4, <1>5, <1>6, SeqEqual
<1> QED
  BY <1>2, <1>7 DEF SpokenBefore, k, past

\* When a round begins, everything recorded is of the rounds before it.
LEMMA PastAtStart ==
    ASSUME TypeInv, OrderInv, pc = "head"
    PROVE  SpokenBefore(round) = spoken
<1>1. spoken \in Seq(TurnRecords)
  BY DEF TypeInv, TurnTypes
<1>2. {i \in DOMAIN spoken : spoken[i].round < round} = 1 .. Len(spoken)
  BY <1>1 DEF OrderInv
<1>3. Cardinality(1 .. Len(spoken)) = Len(spoken)
  <2>1. Len(spoken) \in Nat
    BY <1>1
  <2> QED
    BY <2>1, CountTo
<1> QED
  BY <1>1, <1>2, <1>3, SubSeqFull DEF SpokenBefore

\* All unsealed participants of a round are shown the same turns, those of the
\* rounds before it; a sealed one is shown no turns and no shared context, and only
\* an aporia one is given open nodes in its preamble.
THEOREM PromptsIsolated == Spec => []PromptIsolation
<1>1. Init => PromptIsolation
  BY DEF Init, PromptIsolation
<1>2. ASSUME TypeInv, OrderInv, WindowIsRecent, PromptIsolation, [Next]_vars
      PROVE  PromptIsolation'
  <2> USE DEF PromptIsolation, TypeInv, RoundShape
  <2>1. CASE StartRound
    <3>1. /\ pc = "head" /\ UNCHANGED <<canvas, round, spoken>>
          /\ \E shared : prompts' = [a \in Ids(canvas) |-> Prompt(a, shared)]
      BY <2>1 DEF StartRound, BeginRound, historyVars
    <3>2. transcript = LastOf(SpokenBefore(round), Canvas[Home].window)
      BY <1>2, <3>1, PastAtStart DEF WindowIsRecent
    <3>3. SpokenBefore(round)' = SpokenBefore(round)
      BY <3>1 DEF SpokenBefore
    <3>4. DOMAIN prompts' = Ids(canvas)
      BY <3>1
    <3>5. ASSUME NEW a \in Ids(canvas)
          PROVE  /\ prompts'[a].turns = IF Sealed(a) THEN <<>> ELSE transcript
                 /\ Sealed(a) => prompts'[a].graph = "none"
                 /\ prompts'[a].preamble => Aporia(a)
      <4>1. PICK shared : prompts'[a] = Prompt(a, shared)
        BY <3>1
      <4>2. /\ Prompt(a, shared).turns = IF Sealed(a) THEN <<>> ELSE transcript
            /\ Prompt(a, shared).graph = IF Sealed(a) THEN "none" ELSE shared
        BY DEF Prompt
      <4>3. Prompt(a, shared).preamble = (Aporia(a) /\ "open" \in graph.nodes)
        BY DEF Prompt
      <4> QED
        BY <4>1, <4>2, <4>3
    <3> QED
      BY <3>1, <3>2, <3>3, <3>4, <3>5 DEF Sealed, Aporia
  <2>2. CASE TakeTurn
    <3>1. UNCHANGED <<canvas, round, prompts>>
      BY <2>2 DEF TakeTurn
    <3>2. SpokenBefore(round)' = SpokenBefore(round)
      BY <1>2, <2>2, PastIsFixed
    <3> QED
      BY <1>2, <3>1, <3>2 DEF Sealed, Aporia
  <2>3. CASE UNCHANGED <<canvas, round, spoken, prompts>>
    BY <1>2, <2>3 DEF Sealed, Aporia, SpokenBefore
  <2>4. CASE prompts' = <<>>
    BY <2>4
  <2> QED
    BY <1>2, <2>1, <2>2, <2>3, <2>4, StepKinds
    DEF EndRound, Boundary, RefuseTurn, SkipFailedDispatch, EndTurn, Complete,
        DirectiveStep, CallStepDone, CallReturns, Elsewhere, roundVars, historyVars,
        AfterRoundPcs
<1> QED
  BY InitTypes, StepTypes, InitOrder, StepOrder, WindowFollowsTurns, <1>1, <1>2, PTL
  DEF Spec
-----------------------------------------------------------------------------
(* Whispers. *)

\* Without a canvas switch a participant's queue holds all that was whispered to it
\* since the running round began or, before the next one begins, in the one before.
WhisperInv ==
    Library = {} =>
        /\ canvas = Home
        /\ WhispersTimely
        /\ \A a \in Ids(canvas) : whispers[a] = told[a]

\* Draining empties a queue into the prompt; a whisper joins the queue's end.
LEMMA StepWhispers ==
    ASSUME TypeInv, WhisperInv, [Next]_vars
    PROVE  WhisperInv'
<1> SUFFICES ASSUME Library = {}
             PROVE  WhisperInv'
  BY DEF WhisperInv
<1> USE DEF WhisperInv, WhispersTimely, historyVars, approvalVars
<1>0. /\ canvas = Home /\ canvas \in CanvasIds /\ Ids(canvas) \subseteq Address
      /\ whispers \in Queues /\ told \in Queues
  BY IdsAreAddresses DEF TypeInv, TurnTypes
<1>1. CASE StartRound
  <2>1. /\ UNCHANGED canvas /\ due' = told /\ told' = NoWhispers
        /\ \E shared : prompts' = [a \in Ids(canvas) |-> Prompt(a, shared)]
        /\ whispers' = [a \in Address |-> IF a \in Ids(canvas) THEN <<>> ELSE whispers[a]]
    BY <1>1 DEF StartRound, BeginRound, Drained
  <2>2. \A a \in Ids(canvas) :
           prompts'[a].whispers = whispers[a] /\ whispers'[a] = <<>> /\ told'[a] = <<>>
    BY <1>0, <2>1 DEF Prompt, NoWhispers
  <2>3. DOMAIN prompts' = Ids(canvas)
    BY <2>1
  <2> QED
    BY <1>0, <2>1, <2>2, <2>3
<1>2. CASE CallStepDone
  <2>1. UNCHANGED <<canvas, prompts, due>>
    BY <1>2 DEF CallStepDone, CallReturns
  <2>2. \/ UNCHANGED <<whispers, told>>
        \/ \E to, kind : whispers' = Enqueued(to, kind) /\ told' = Told(to, kind)
    BY <1>2 DEF CallStepDone
  <2>3. ASSUME NEW to, NEW kind, whispers' = Enqueued(to, kind), told' = Told(to, kind),
               NEW a \in Ids(canvas)
        PROVE  whispers'[a] = told'[a]
    <3>1. /\ whispers'[a] = IF a = to THEN Append(whispers[a], Whisper(kind))
                                     ELSE whispers[a]
          /\ told'[a] = IF a = to THEN Append(told[a], Whisper(kind)) ELSE told[a]
      BY <1>0, <2>3 DEF Enqueued, Told, Queues
    <3> QED
      BY <3>1
  <2> QED
    BY <2>1, <2>2, <2>3
<1>3. CASE /\ UNCHANGED <<canvas, whispers, told, due>> /\ prompts' \in {prompts, <<>>}
  BY <1>3
<1> QED
  BY <1>1, <1>2, <1>3, StepKinds
  DEF TakeTurn, RefuseTurn, SkipFailedDispatch, EndTurn, DirectiveStep, Complete,
      EndRound, Boundary, SwitchCanvas, Elsewhere, roundVars

\* Without a canvas switch a participant's prompt holds everything that was whispered
\* to it in the round before, in order, and nothing else.
THEOREM WhispersInTime == Spec => []WhispersTimely
<1>1. Init => WhisperInv
  <2> SUFFICES ASSUME Init
               PROVE  WhisperInv
    OBVIOUS
  <2>1. canvas = Home /\ whispers = told /\ DOMAIN prompts = {}
    BY DEF Init
  <2> QED
    BY <2>1 DEF WhisperInv, WhispersTimely
<1>2. TypeInv /\ WhisperInv /\ [Next]_vars => WhisperInv'
  BY StepWhispers
<1>3. WhisperInv => WhispersTimely
  BY DEF WhisperInv, WhispersTimely
<1> QED
  BY InitTypes, StepTypes, <1>1, <1>2, <1>3, PTL DEF Spec
-----------------------------------------------------------------------------
(* Turn numbers. *)

TurnsOf(a) == {i \in DOMAIN spoken : spoken[i].agent = a}

\* Without a canvas switch every record is of a participant, and its number is
\* below the participant's count.
CountInv ==
    Library = {} =>
        /\ canvas = Home
        /\ TurnsCounted
        /\ \A i \in DOMAIN spoken :
             /\ spoken[i].agent \in Ids(canvas)
             /\ spoken[i].index < participants[spoken[i].agent].turns

\* A directive may give a participant another model, never another count.
LEMMA DirectiveKeepsCounts ==
    ASSUME TypeInv, DirectiveStep, NEW a \in Ids(canvas)
    PROVE  participants'[a].turns = participants[a].turns
<1>1. CASE ExecuteSetModel
  <2>1. participants'[a] = IF a \in Addressed(ThisDirective.who)
                           THEN [participants[a] EXCEPT !.model = ThisDirective.model]
                           ELSE participants[a]
    BY <1>1 DEF ExecuteSetModel
  <2> QED
    BY <2>1 DEF TypeInv, TurnTypes
<1> QED
  BY <1>1 DEF DirectiveStep

\* A turn adds one record of its speaker, numbered with the count so far.
LEMMA TurnCounted ==
    ASSUME TypeInv, CountInv, TakeTurn, Library = {}
    PROVE  CountInv'
<1> DEFINE n == Len(spoken) + 1
<1>1. /\ UNCHANGED canvas /\ Speaker \in Ids(canvas)
      /\ spoken \in Seq(TurnRecords) /\ n \in Nat \ {0} /\ n \notin DOMAIN spoken
      /\ DOMAIN spoken' = DOMAIN spoken \cup {n}
      /\ \A i \in DOMAIN spoken : spoken'[i] = spoken[i] /\ i < n
      /\ spoken'[n].agent = Speaker
      /\ spoken'[n].index = participants[Speaker].turns
  BY TurnTaken DEF TurnRecord
<1>2. /\ \A a \in Ids(canvas) : participants[a].turns \in Nat
      /\ \A a \in Ids(canvas) :
           participants'[a].turns = participants[a].turns + IF a = Speaker THEN 1 ELSE 0
  <2>1. participants \in [Ids(canvas) -> [turns : Nat, model : Models \cup {Default}]]
    BY DEF TypeInv, TurnTypes
  <2>2. participants' = [participants EXCEPT ![Speaker].turns = @ + 1]
    BY DEF TakeTurn, Counted
  <2>3. \A a \in Ids(canvas) : a # Speaker => participants'[a] = participants[a]
    BY <2>1, <2>2
  <2>4. participants'[Speaker].turns = participants[Speaker].turns + 1
    BY <1>1, <2>1, <2>2
  <2> QED
    BY <2>1, <2>3, <2>4
<1>3. \A i \in DOMAIN spoken : spoken[i].index \in Nat
  <2>1. \A t \in TurnRecords : t.index \in Nat
    BY DEF TurnRecords
  <2>2. \A i \in DOMAIN spoken : spoken[i] \in TurnRecords
    BY <1>1
  <2> QED
    BY <2>1, <2>2
<1> HIDE DEF n
<1>4. ASSUME NEW a \in Ids(canvas)
      PROVE  participants'[a].turns = Cardinality(TurnsOf(a)')
  <2>1. /\ participants[a].turns = Cardinality(TurnsOf(a))
        /\ TurnsOf(a) \subseteq DOMAIN spoken
    BY DEF CountInv, TurnsCounted, TurnsOf
  <2>2. IsFiniteSet(TurnsOf(a))
    <3>0. Len(spoken) \in Nat /\ DOMAIN spoken = 1 .. Len(spoken)
      BY <1>1
    <3>1. IsFiniteSet(1 .. Len(spoken)) /\ DOMAIN spoken = 1 .. Len(spoken)
      BY <3>0, CountTo
    <3> QED
      BY <2>1, <3>1, FS_Subset
  <2>3. CASE a = Speaker
    <3>1. TurnsOf(a)' = TurnsOf(a) \cup {n} /\ n \notin TurnsOf(a)
      BY <1>1, <2>1, <2>3 DEF TurnsOf
    <3>2. Cardinality(TurnsOf(a) \cup {n}) = Cardinality(TurnsOf(a)) + 1
      BY <2>2, <3>1, FS_AddElement
    <3> QED
      BY <1>2, <2>1, <2>3, <3>1, <3>2
  <2>4. CASE a # Speaker
    <3>1. TurnsOf(a)' = TurnsOf(a)
      BY <1>1, <2>4 DEF TurnsOf
    <3> QED
      BY <1>2, <2>1, <2>4, <3>1
  <2> QED
    BY <2>3, <2>4
<1>5. ASSUME NEW i \in DOMAIN spoken'
      PROVE  /\ spoken'[i].agent \in Ids(canvas)
             /\ spoken'[i].index < participants'[spoken'[i].agent].turns
  <2>1. CASE i \in DOMAIN spoken
    BY <1>1, <1>2, <1>3, <2>1 DEF CountInv
  <2>2. CASE i = n
    BY <1>1, <1>2, <2>2
  <2> QED
    BY <1>1, <2>1, <2>2
<1>6. ASSUME NEW i \in DOMAIN spoken', NEW j \in DOMAIN spoken', i < j,
             spoken'[i].agent = spoken'[j].agent
      PROVE  spoken'[i].index < spoken'[j].index
  <2>0. i \in DOMAIN spoken
    BY <1>1, <1>6
  <2>1. CASE j \in DOMAIN spoken
    BY <1>1, <1>6, <2>0, <2>1 DEF CountInv, TurnsCounted
  <2>2. CASE j = n
    BY <1>1, <1>6, <2>0, <2>2 DEF CountInv
  <2> QED
    BY <1>1, <2>1, <2>2
<1> QED
  BY <1>1, <1>4, <1>5, <1>6 DEF CountInv, TurnsCounted, TurnsOf

\* No other step changes a count or a record.
LEMMA StepCounts ==
    ASSUME TypeInv, CountInv, [Next]_vars
    PROVE  CountInv'
<1> SUFFICES ASSUME Library = {}
             PROVE  CountInv'
  BY DEF CountInv
<1>1. CASE TakeTurn
  BY <1>1, TurnCounted
<1>2. CASE DirectiveStep
  <2>1. UNCHANGED <<canvas, spoken>>
    BY <1>2 DEF DirectiveStep
  <2>2. \A a \in Ids(canvas) : participants'[a].turns = participants[a].turns
    BY <1>2, DirectiveKeepsCounts
  <2> QED
    BY <2>1, <2>2 DEF CountInv, TurnsCounted
<1>3. CASE UNCHANGED <<canvas, participants, spoken>>
  BY <1>3 DEF CountInv, TurnsCounted
<1> QED
  BY <1>1, <1>2, <1>3, StepKinds
  DEF StartRound, BeginRound, EndRound, Boundary, SwitchCanvas, RefuseTurn,
      SkipFailedDispatch, EndTurn, Complete, CallStepDone, CallReturns, Elsewhere,
      historyVars

\* turns_taken counts a participant's recorded turns, so that turn_index numbers
\* them from 0, as long as no canvas is switched to.
THEOREM TurnsNumbered == Spec => []TurnsCounted
<1>1. Init => CountInv
  BY FS_EmptySet DEF Init, CountInv, TurnsCounted, Seated
<1>2. TypeInv /\ CountInv /\ [Next]_vars => CountInv'
  BY StepCounts
<1>3. CountInv => TurnsCounted
  BY DEF CountInv, TurnsCounted
<1> QED
  BY InitTypes, StepTypes, <1>1, <1>2, <1>3, PTL DEF Spec
-----------------------------------------------------------------------------
(* Turns that were paid for. *)

PaidFor(i) ==
    \E t \in ToSet(spoken) : t.agent = result.transcript[i] /\ t.round = round

\* A round's transcript grows by a paid turn or, at its end, by a refused one; it
\* is empty when the round begins.
LEMMA StepPaid ==
    ASSUME TypeInv, ResultInv, ExtractedTurnsPaid, [Next]_vars
    PROVE  ExtractedTurnsPaid'
<1> USE DEF ExtractedTurnsPaid, RoundPcs, AfterRoundPcs
<1>0. /\ result \in Outcome /\ result.transcript \in Seq(Address)
      /\ pc = "collect" => ~result.close
  BY DEF TypeInv, TurnTypes, ResultInv, Outcome
<1>1. CASE TakeTurn
  <2>1. /\ pc = "collect" /\ UNCHANGED round
        /\ DOMAIN spoken' = DOMAIN spoken \cup {Len(spoken) + 1}
        /\ \A i \in DOMAIN spoken : spoken'[i] = spoken[i]
        /\ spoken'[Len(spoken) + 1].agent = Speaker
        /\ spoken'[Len(spoken) + 1].round = round
        /\ result'.transcript = Append(result.transcript, Speaker) /\ Speaker \in Address
    BY <1>1, TurnTaken, IdsAreAddresses DEF TurnRecord, TypeInv, TurnTypes
  <2>2. ASSUME NEW i \in DOMAIN result'.transcript
        PROVE  \E t \in ToSet(spoken') : t.agent = result'.transcript[i] /\ t.round = round
    <3>1. CASE i \in DOMAIN result.transcript
      <4>1. result'.transcript[i] = result.transcript[i] /\ PaidFor(i)
        BY <1>0, <2>1, <3>1 DEF PaidFor
      <4> QED
        BY <2>1, <4>1 DEF PaidFor, ToSet
    <3>2. CASE i = Len(result.transcript) + 1
      <4>1. result'.transcript[i] = Speaker
        BY <1>0, <2>1, <3>2
      <4> QED
        BY <2>1, <4>1 DEF ToSet
    <3> QED
      BY <1>0, <2>1, <2>2, <3>1, <3>2
  <2> QED
    BY <2>1, <2>2
<1>2. CASE RefuseTurn
  <2>1. /\ pc = "collect" /\ UNCHANGED <<round, spoken>>
        /\ AtResponse /\ replies[Speaker] # Failed
        /\ result' = [Collected EXCEPT !.close = TRUE]
    BY <1>2 DEF RefuseTurn, AtResponse, historyVars
  <2>2. /\ result'.transcript = Append(result.transcript, Speaker) /\ Speaker \in Address
        /\ result'.close
    BY <1>0, <2>1, ResponseType DEF Collected, Outcome
  <2>3. \A i \in DOMAIN result'.transcript :
           \/ i \in DOMAIN result.transcript /\ result'.transcript[i] = result.transcript[i]
           \/ i = Len(result'.transcript)
    BY <1>0, <2>2
  <2> QED
    BY <1>0, <2>1, <2>2, <2>3
<1>3. CASE StartRound
  <2>1. result' = NoResult
    BY <1>3 DEF StartRound, BeginRound
  <2> QED
    BY <2>1 DEF NoResult
<1>4. CASE DirectiveStep
  <2>1. /\ pc = "respond" /\ UNCHANGED <<pc, round, spoken>>
        /\ result'.transcript = result.transcript
        /\ result.close => result'.close
    BY <1>0, <1>4 DEF DirectiveStep, Outcome
  <2> QED
    BY <2>1
<1>5. CASE \/ EndRound \/ Boundary \/ SkipFailedDispatch \/ EndTurn \/ CallStepDone
           \/ \E a \in DOMAIN replies :
                 \E outcome \in ModelReplies \cup {Failed} : Complete(a, outcome)
  <2>1. /\ UNCHANGED <<round, spoken, result>>
        /\ pc \in RoundPcs \cup AfterRoundPcs
    BY <1>5 DEF EndRound, Boundary, SkipFailedDispatch, AtResponse, EndTurn,
       CallStepDone, CallReturns, Complete, roundVars, historyVars
  <2> QED
    BY <2>1
<1>6. CASE Elsewhere
  BY <1>6 DEF Elsewhere, EndPcs
<1> QED
  BY <1>1, <1>2, <1>3, <1>4, <1>5, <1>6, StepKinds

\* Of the turns whose text and proposals reach the graph at most one was not paid
\* for: the one that exhausted the budget, the last of its round.
THEOREM TurnsPaid == Spec => []ExtractedTurnsPaid
<1>1. Init => ExtractedTurnsPaid
  BY DEF Init, ExtractedTurnsPaid, RoundPcs, AfterRoundPcs
<1>2. TypeInv /\ ResultInv /\ ExtractedTurnsPaid /\ [Next]_vars => ExtractedTurnsPaid'
  BY StepPaid
<1> QED
  BY InitTypes, StepTypes, InitResult, StepResult, <1>1, <1>2, PTL DEF Spec
-----------------------------------------------------------------------------
(* The life cycle. *)

\* Where the run is determines its phase, and at a round's end some canvas allowed
\* the round.
PhaseInv ==
    /\ pc = "start" => state = "Initializing"
    /\ pc \in {"head", "boundary", "decide"} \cup RoundPcs => state = "Running"
    /\ pc = "approval" => state = "AwaitingApproval"
    /\ pc \in {"synthesize", "output", "save", "done"} => state = "Synthesizing"
    /\ pc = "boundary" => \E c \in CanvasIds : round <= Canvas[c].max

LifeInv == TypeInv /\ EngineTypes /\ ResultInv /\ RoundWithinCanvas /\ PhaseInv

\* Every step leaves the run in the phase of the point it has reached.
LEMMA StepPhase ==
    ASSUME LifeInv, [Next]_vars
    PROVE  PhaseInv'
<1> USE DEF PhaseInv, RoundPcs, historyVars
<1>1. CASE RunnerStep \/ CallStep
  <2>1. UNCHANGED <<state, canvas, round>> /\ pc' \in RoundPcs /\ pc \in RoundPcs
    BY <1>1, StepInRound
    DEF RunnerStep, CallStep, JoinAll, SkipFailedDispatch, AtResponse, RefuseTurn,
        TakeTurn, Execute, ExecuteClose, ExecuteInvite, ExecuteRelease,
        ExecuteRequestApproval, ExecuteAdjustBudget, ExecuteSetModel,
        ExecuteForkConsultation, ExecuteSwitchCanvas, EndTurn, AllCollected, Complete,
        DispatchAnswers, DispatchFails, CallReturns, ForkReturns, AtFork,
        ConsultAnswers, ConsultFails, AtConsult
  <2> QED
    BY <2>1 DEF LifeInv
<1>2. CASE StartRound
  BY <1>2 DEF LifeInv, StartRound, BeginRound
<1>3. CASE EndRound \/ Extract \/ SelectScope
  <2>1. /\ UNCHANGED <<state, canvas, round>> /\ pc \in RoundPcs
        /\ pc' \in {"extract", "select", "boundary"}
    BY <1>3 DEF EndRound, Extract, SelectScope
  <2>2. round <= Canvas[canvas].max /\ canvas \in CanvasIds
    BY <2>1 DEF LifeInv, RoundWithinCanvas, TypeInv, TurnTypes
  <2> QED
    BY <2>1, <2>2 DEF LifeInv
<1>4. CASE Boundary
  BY <1>4 DEF LifeInv, Boundary
<1>5. CASE Poll
  BY <1>5 DEF LifeInv, Poll, Received
<1>6. CASE Decide
  BY <1>6 DEF LifeInv, Decide
<1>7. CASE Start \/ RoundsExhausted
  BY <1>7 DEF LifeInv, Start, RoundsExhausted
<1>8. CASE Synthesize \/ SynthesisFails \/ EmitOutput \/ SaveGraph \/ TransportFails
  BY <1>8
  DEF LifeInv, Synthesize, SynthesisFails, EmitOutput, SaveGraph, TransportFails, Goto
<1>9. CASE UNCHANGED <<pc, state, round>>
  BY <1>9 DEF LifeInv
<1> QED
  BY <1>1, <1>2, <1>3, <1>4, <1>5, <1>6, <1>7, <1>8, <1>9
  DEF Next, EngineStep, HumanSends, Stopped, vars

\* Every step of a session is a step of the life cycle or none.
LEMMA StepOfLife ==
    ASSUME LifeInv, [Next]_vars
    PROVE  [Lifecycle!LifecycleNext]_(Lifecycle!lifecycle)
<1> USE DEF PhaseInv, RoundPcs, historyVars, Lifecycle!lifecycle, RoundsOver,
            ClosedByRound, PastBoundary
<1>0. /\ round \in Nat \ {0} /\ result.close \in BOOLEAN
      /\ result.close => pc \notin {"start", "head", "dispatch", "collect"}
  BY DEF LifeInv, TypeInv, TurnTypes, ResultInv
<1>1. CASE RunnerStep \/ CallStep
  <2>1. UNCHANGED <<state, round>> /\ pc' \in RoundPcs /\ pc \in RoundPcs
    BY <1>1, StepInRound
    DEF RunnerStep, CallStep, JoinAll, SkipFailedDispatch, AtResponse, RefuseTurn,
        TakeTurn, Execute, ExecuteClose, ExecuteInvite, ExecuteRelease,
        ExecuteRequestApproval, ExecuteAdjustBudget, ExecuteSetModel,
        ExecuteForkConsultation, ExecuteSwitchCanvas, EndTurn, AllCollected, Complete,
        DispatchAnswers, DispatchFails, CallReturns, ForkReturns, AtFork,
        ConsultAnswers, ConsultFails, AtConsult
  <2> QED
    BY <2>1 DEF LifeInv
<1>2. CASE StartRound \/ EndRound \/ Extract \/ SelectScope
  <2>1. /\ UNCHANGED <<state, round>> /\ state = "Running"
        /\ pc \in {"head", "roundEnd", "extract", "select"}
        /\ pc' \in {"dispatch", "extract", "select", "boundary"}
    BY <1>2 DEF StartRound, BeginRound, EndRound, Extract, SelectScope, LifeInv
  <2> QED
    BY <2>1
<1>3. CASE Boundary
  <2>1. /\ pc = "boundary" /\ state = "Running" /\ UNCHANGED <<round, result>>
        /\ pc' = (IF result.approval THEN "approval" ELSE "decide")
        /\ state' = (IF result.approval THEN "AwaitingApproval" ELSE "Running")
        /\ \E c \in CanvasIds : round <= Canvas[c].max
    BY <1>3 DEF Boundary, LifeInv, roundVars
  <2>2. \A c \in CanvasIds : Canvas[c].max \in Nat
    BY CanvasAssumption DEF CanvasDef
  <2>3. \E limit \in {Canvas[c].max : c \in CanvasIds} : round - 1 < limit
    <3>1. PICK c \in CanvasIds : round <= Canvas[c].max
      BY <2>1
    <3>2. round - 1 < Canvas[c].max
      BY <1>0, <2>2, <3>1
    <3> QED
      BY <3>2
  <2>4. Lifecycle!RoundOver
    BY <1>0, <2>1, <2>3 DEF Lifecycle!RoundOver
  <2> QED
    BY <2>4 DEF Lifecycle!LifecycleNext
<1>4. CASE Poll
  <2>1. UNCHANGED <<round, result>> /\ pc = "approval" /\ state = "AwaitingApproval"
    BY <1>4 DEF Poll, Received, LifeInv, roundVars
  <2>2. UNCHANGED <<pc, state>> \/ (pc' = "decide" /\ state' = "Running")
    BY <1>4 DEF Poll
  <2> QED
    BY <2>1, <2>2 DEF Lifecycle!LifecycleNext, Lifecycle!VerdictGiven
<1>5. CASE Decide
  <2>1. UNCHANGED result /\ pc = "decide" /\ state = "Running"
    BY <1>5 DEF Decide, LifeInv, roundVars
  <2>2. \/ /\ pc' = "synthesize" /\ state' = "Synthesizing" /\ round' = round
           /\ result.close
        \/ pc' = "head" /\ state' = state /\ round' = round + 1 /\ ~result.close
    BY <1>0, <1>5 DEF Decide
  <2> QED
    BY <1>0, <2>1, <2>2 DEF Lifecycle!LifecycleNext, Lifecycle!BeginSynthesis
<1>6. CASE Start
  <2>1. /\ UNCHANGED <<round, result>> /\ pc = "start" /\ state = "Initializing"
        /\ pc' = "head" /\ state' = "Running"
    BY <1>6 DEF Start, LifeInv, roundVars
  <2> QED
    BY <1>0, <2>1 DEF Lifecycle!LifecycleNext, Lifecycle!Begin
<1>7. CASE RoundsExhausted
  <2>1. /\ UNCHANGED <<round, result>> /\ pc = "head" /\ state = "Running"
        /\ pc' = "synthesize" /\ state' = "Synthesizing"
    BY <1>7 DEF RoundsExhausted, LifeInv, roundVars
  <2> QED
    BY <1>0, <2>1 DEF Lifecycle!LifecycleNext, Lifecycle!BeginSynthesis
<1>8. CASE Synthesize \/ SynthesisFails \/ EmitOutput \/ SaveGraph \/ TransportFails
  <2>1. /\ UNCHANGED <<state, round, result>>
        /\ \/ /\ pc \in {"synthesize", "output", "save"}
              /\ pc' \in {"output", "save", "done"}
           \/ /\ pc \in {"start", "head", "respond", "roundEnd", "synthesize", "output"}
              /\ pc' = "failed"
    BY <1>8
    DEF Synthesize, SynthesisFails, EmitOutput, SaveGraph, TransportFails, Goto, roundVars
  <2> QED
    BY <1>0, <2>1 DEF LifeInv, Lifecycle!LifecycleNext, Lifecycle!Finish, Lifecycle!GiveUp
<1>9. CASE UNCHANGED <<pc, state, round, result>>
  BY <1>9
<1> QED
  BY <1>1, <1>2, <1>3, <1>4, <1>5, <1>6, <1>7, <1>8, <1>9
  DEF Next, EngineStep, HumanSends, Stopped, vars, roundVars

\* Rounds, approvals, synthesis and failure succeed each other as in the life cycle,
\* from every interleaving of replies, human input and errors.
THEOREM LifecycleImplemented == Spec => ImplementsLifecycle
<1>1. Init => PhaseInv
  BY DEF Init, PhaseInv, RoundPcs
<1>2. Init => Lifecycle!LifecycleInit
  BY DEF Init, NoResult, Lifecycle!LifecycleInit, RoundsOver, ClosedByRound, PastBoundary
<1>3. LifeInv /\ [Next]_vars => PhaseInv' /\ [Lifecycle!LifecycleNext]_(Lifecycle!lifecycle)
  BY StepPhase, StepOfLife
<1> QED
  BY InitTypes, StepTypes, InitResult, StepResult, RoundsWithinCanvas, <1>1, <1>2, <1>3, PTL
  DEF Spec, LifeInv, ImplementsLifecycle, Lifecycle!LifecycleSpec
=============================================================================
