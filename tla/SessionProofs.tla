---------------------------- MODULE SessionProofs ----------------------------
(***************************************************************************)
(* What a session guarantees for every set of canvases, every reply of a   *)
(* model and every input of a human.                                       *)
(***************************************************************************)
EXTENDS SessionProps, TLAPS

-----------------------------------------------------------------------------
(* Rounds. *)

\* A step of the runner or of a call leaves the round number and the canvas
\* alone and goes from one point of the round to another.
LEMMA StepInRound ==
    ASSUME RunnerStep \/ CallStep
    PROVE  round' = round /\ canvas' = canvas /\ pc \in RoundPcs
BY DEF RunnerStep, CallStep, JoinAll, SkipFailedDispatch, AtResponse, RefuseTurn,
       TakeTurn, Execute, ExecuteClose, ExecuteInvite, ExecuteRelease,
       ExecuteRequestApproval, ExecuteAdjustBudget, ExecuteSetModel,
       ExecuteForkConsultation, ExecuteSwitchCanvas, EndTurn, AllCollected,
       Complete, DispatchAnswers, DispatchFails, CallReturns, ForkReturns,
       AtFork, ConsultAnswers, ConsultFails, AtConsult, RoundPcs

\* A round runs only within the maximum of the canvas it runs on, also after a
\* hot switch to a canvas that allows fewer rounds.
THEOREM RoundsWithinCanvas == Spec => []RoundWithinCanvas
<1>1. Init => RoundWithinCanvas
  BY DEF Init, RoundWithinCanvas, RoundPcs
<1>2. RoundWithinCanvas /\ [Next]_vars => RoundWithinCanvas'
  <2> SUFFICES ASSUME RoundWithinCanvas, [Next]_vars, pc' \in RoundPcs
               PROVE  round' <= Canvas[canvas'].max
    BY DEF RoundWithinCanvas
  <2>1. CASE RunnerStep \/ CallStep
    BY <2>1, StepInRound DEF RoundWithinCanvas
  <2>2. CASE StartRound
    BY <2>2 DEF StartRound, BeginRound
  <2>3. CASE EndRound \/ Extract
    BY <2>3 DEF EndRound, Extract, RoundWithinCanvas, RoundPcs
  <2>4. CASE \/ Start \/ RoundsExhausted \/ SelectScope \/ Boundary \/ Poll
             \/ Decide \/ Synthesize \/ SynthesisFails \/ EmitOutput \/ SaveGraph
             \/ TransportFails
    BY <2>4 DEF Start, RoundsExhausted, SelectScope, Boundary, Poll, Received,
       Decide, Synthesize, SynthesisFails, EmitOutput, SaveGraph,
       TransportFails, Goto, RoundPcs
  <2>5. CASE UNCHANGED <<pc, round, canvas>>
    BY <2>5 DEF RoundWithinCanvas
  <2> QED
    BY <2>1, <2>2, <2>3, <2>4, <2>5
    DEF Next, EngineStep, HumanSends, Stopped, vars
<1> QED
  BY <1>1, <1>2, PTL DEF Spec

-----------------------------------------------------------------------------
(* Closing and approval: what the flags of the round's result promise. *)

\* A result that closes is found only where no further round can begin any
\* more; a verdict is due only while the result still asks for it.
ResultInv ==
    /\ {"close", "approval"} \subseteq DOMAIN result
    /\ result.close \in BOOLEAN /\ result.approval \in BOOLEAN
    /\ verdict \in {"none", "due", "given", "early"}
    /\ result.close => pc \notin {"start", "head", "dispatch", "collect"}
    /\ verdict = "due" => result.approval
    /\ AwaitsVerdict

\* Collecting a response leaves both flags as they are.
LEMMA CollectedFlags ==
    ASSUME ResultInv
    PROVE  /\ DOMAIN Collected = DOMAIN result
           /\ Collected.close = result.close
           /\ Collected.approval = result.approval
BY DEF Collected, ResultInv

\* The moderator's directives only ever raise a flag.
LEMMA ExecuteFlags ==
    ASSUME ResultInv, RunnerStep, pc = "respond"
    PROVE  ResultInv' /\ (result.close => result'.close)
<1> USE DEF ResultInv, AwaitsVerdict, Execute, DirectiveDone, RoundPcs
<1>1. CASE ExecuteClose
  BY <1>1 DEF ExecuteClose
<1>2. CASE ExecuteRequestApproval
  BY <1>2 DEF ExecuteRequestApproval
<1>3. CASE ExecuteSwitchCanvas
  BY <1>3 DEF ExecuteSwitchCanvas
<1>4. CASE \/ ExecuteInvite \/ ExecuteRelease \/ ExecuteAdjustBudget
           \/ ExecuteSetModel \/ ExecuteForkConsultation
  BY <1>4 DEF ExecuteInvite, ExecuteRelease, ExecuteAdjustBudget,
     ExecuteSetModel, ExecuteForkConsultation
<1>5. CASE EndTurn
  BY <1>5 DEF EndTurn, historyVars, approvalVars
<1> QED
  BY <1>1, <1>2, <1>3, <1>4, <1>5
  DEF RunnerStep, JoinAll, SkipFailedDispatch, AtResponse, RefuseTurn, TakeTurn,
      AllCollected

\* Before a response is processed the result does not close; a refused turn
\* makes it close and ends the round at once.
LEMMA CollectFlags ==
    ASSUME ResultInv, RunnerStep, pc # "respond"
    PROVE  ResultInv' /\ (result.close => result'.close)
<1> USE DEF ResultInv, AwaitsVerdict, RoundPcs, historyVars, approvalVars, roundVars
<1>1. CASE RefuseTurn
  <2>1. /\ result' = [Collected EXCEPT !.close = TRUE]
        /\ pc = "collect" /\ pc' = "roundEnd" /\ verdict' = verdict
    BY <1>1 DEF RefuseTurn, AtResponse
  <2> QED BY <2>1, CollectedFlags
<1>2. CASE TakeTurn
  <2>1. /\ result' = Collected
        /\ pc = "collect" /\ pc' = "respond" /\ verdict' = verdict
    BY <1>2 DEF TakeTurn, AtResponse
  <2> QED BY <2>1, CollectedFlags
<1>3. CASE JoinAll \/ SkipFailedDispatch \/ AllCollected
  BY <1>3 DEF JoinAll, SkipFailedDispatch, AtResponse, AllCollected
<1> QED
  BY <1>1, <1>2, <1>3
  DEF RunnerStep, Execute, ExecuteClose, ExecuteInvite, ExecuteRelease,
      ExecuteRequestApproval, ExecuteAdjustBudget, ExecuteSetModel,
      ExecuteForkConsultation, ExecuteSwitchCanvas, EndTurn

\* No step takes back a close or starts a round after one, and none leaves the
\* round or the wait while a verdict is due.
LEMMA StepResult ==
    ResultInv /\ [Next]_vars
      => ResultInv' /\ (result.close => round' = round /\ result'.close)
<1> SUFFICES ASSUME ResultInv, [Next]_vars
             PROVE  ResultInv' /\ (result.close => round' = round /\ result'.close)
  OBVIOUS
<1> USE DEF historyVars, approvalVars, roundVars
<1>1. CASE RunnerStep
  BY <1>1, StepInRound, ExecuteFlags, CollectFlags
<1>2. CASE CallStep
  <2>1. UNCHANGED <<pc, result, verdict, round>>
    BY <1>2 DEF CallStep, Complete, DispatchAnswers, DispatchFails, CallReturns,
       ForkReturns, ConsultAnswers, ConsultFails
  <2> QED BY <2>1 DEF ResultInv, AwaitsVerdict
<1>3. CASE StartRound
  <2>1. /\ pc = "head" /\ pc' = "dispatch" /\ result' = NoResult
        /\ UNCHANGED <<verdict, round>>
    BY <1>3 DEF StartRound, BeginRound
  <2> QED BY <2>1 DEF ResultInv, AwaitsVerdict, NoResult, RoundPcs
<1>4. CASE EndRound \/ Extract \/ SelectScope
  <2>1. UNCHANGED <<result, verdict, round>>
    BY <1>4 DEF EndRound, Extract, SelectScope
  <2>2. /\ pc \in {"roundEnd", "extract", "select"}
        /\ pc' \in {"extract", "select", "boundary"}
    BY <1>4 DEF EndRound, Extract, SelectScope
  <2> QED BY <2>1, <2>2 DEF ResultInv, AwaitsVerdict, RoundPcs
<1>5. CASE Boundary
  <2>1. /\ pc = "boundary" /\ UNCHANGED <<result, verdict, round>>
        /\ pc' = IF result.approval THEN "approval" ELSE "decide"
    BY <1>5 DEF Boundary
  <2> QED BY <2>1 DEF ResultInv, AwaitsVerdict, RoundPcs
<1>6. CASE Poll
  BY <1>6 DEF Poll, Received, Given, ResultInv, AwaitsVerdict, RoundPcs
<1>7. CASE Decide
  BY <1>7 DEF Decide, ResultInv, AwaitsVerdict, RoundPcs
<1>8. CASE Start \/ RoundsExhausted
  BY <1>8 DEF Start, RoundsExhausted, ResultInv, AwaitsVerdict, RoundPcs
<1>9. CASE Synthesize \/ SynthesisFails \/ EmitOutput \/ SaveGraph \/ TransportFails
  BY <1>9 DEF Synthesize, SynthesisFails, EmitOutput, SaveGraph, TransportFails,
     Goto, ResultInv, AwaitsVerdict, RoundPcs
<1>10. CASE UNCHANGED <<pc, result, verdict, round>>
  BY <1>10 DEF ResultInv, AwaitsVerdict
<1> QED
  BY <1>1, <1>2, <1>3, <1>4, <1>5, <1>6, <1>7, <1>8, <1>9, <1>10
  DEF Next, EngineStep, HumanSends, Stopped, vars

\* A run starts with the empty result of no round, and no verdict is due.
LEMMA InitResult == Init => ResultInv
<1> SUFFICES ASSUME Init
             PROVE  ResultInv
  OBVIOUS
<1>1. result = NoResult /\ verdict = "none"
  BY DEF Init
<1>2. /\ {"close", "approval"} \subseteq DOMAIN NoResult
      /\ NoResult.close = FALSE /\ NoResult.approval = FALSE
  BY DEF NoResult
<1> QED
  BY <1>1, <1>2 DEF ResultInv, AwaitsVerdict

\* Once the moderator has closed the session, or the budget has refused a
\* turn, no further round begins.
THEOREM ClosesForGood == Spec => CloseIsFinal
<1>1. ResultInv /\ [Next]_vars
        => [result.close => round' = round /\ result'.close]_vars
  BY StepResult
<1> QED
  BY InitResult, StepResult, <1>1, PTL DEF Spec, CloseIsFinal

\* A run waits for approval exactly where its state says so.  A verdict sent in
\* answer to a request waits with that request, before every other one; the others
\* show that the human was hasty.
VerdictInv ==
    /\ round \in Nat \ {0}
    /\ inbox \in Seq(Input)
    /\ state = "AwaitingApproval" <=> pc = "approval"
    /\ \A i \in DOMAIN inbox :
         inbox[i].kind \in Verdict /\ inbox[i].answers # 0
           => /\ inbox[i].answers = round /\ pc = "approval"
              /\ \A j \in 1 .. (i - 1) : inbox[j].kind \notin Verdict
    /\ \A i \in DOMAIN inbox :
         inbox[i].kind \in Verdict /\ inbox[i].answers = 0 => hasty
    /\ verdict = "early" => hasty

\* Taking the input in front keeps the order of what stays.
LEMMA PollVerdict ==
    ASSUME VerdictInv, Poll
    PROVE  VerdictInv'
<1> DEFINE first == inbox[1]
<1>1. /\ pc = "approval" /\ inbox # <<>> /\ inbox' = Tail(inbox) /\ first = Head(inbox)
      /\ UNCHANGED <<round, hasty>>
  BY DEF Poll, Received
<1>2. inbox' \in Seq(Input) /\ Len(inbox') = Len(inbox) - 1 /\ Len(inbox) \in Nat
      /\ \A i \in DOMAIN inbox' : inbox'[i] = inbox[i + 1] /\ i + 1 \in DOMAIN inbox
  BY <1>1 DEF VerdictInv
<1>3. \A i \in DOMAIN inbox' :
        inbox'[i].kind \in Verdict /\ inbox'[i].answers = 0 => hasty
  BY <1>2 DEF VerdictInv
<1>4. ASSUME NEW i \in DOMAIN inbox', inbox'[i].kind \in Verdict, inbox'[i].answers # 0
      PROVE  /\ inbox'[i].answers = round /\ first.kind \notin Verdict
             /\ \A j \in 1 .. (i - 1) : inbox'[j].kind \notin Verdict
  <2>1. /\ inbox[i + 1].answers = round
        /\ \A j \in 1 .. i : inbox[j].kind \notin Verdict
    BY <1>2, <1>4 DEF VerdictInv
  <2>2. i \in Nat \ {0} /\ i - 1 < Len(inbox')
    BY <1>2
  <2>3. first.kind \notin Verdict
    BY <2>1, <2>2
  <2>4. ASSUME NEW j \in 1 .. (i - 1)
        PROVE  inbox'[j].kind \notin Verdict
    <3>1. j \in DOMAIN inbox' /\ j + 1 \in 1 .. i
      BY <1>2, <2>2
    <3>2. inbox'[j] = inbox[j + 1]
      BY <1>2, <3>1
    <3> QED
      BY <2>1, <3>1, <3>2
  <2>5. inbox'[i].answers = round
    BY <1>2, <2>1
  <2> QED
    BY <2>3, <2>4, <2>5
<1>5. CASE first.kind \in Verdict
  <2>1. pc' = "decide" /\ state' = "Running" /\ verdict' = Given
    BY <1>1, <1>5 DEF Poll
  <2>2. first.answers # 0 => first.answers = round
    BY <1>1, <1>5 DEF VerdictInv
  <2>3. verdict' = "early" => hasty
    <3>1. 1 \in DOMAIN inbox
      BY <1>1 DEF VerdictInv
    <3> QED
      BY <1>1, <1>5, <2>1, <2>2, <3>1 DEF VerdictInv, Given
  <2> QED
    BY <1>1, <1>2, <1>3, <1>4, <1>5, <2>1, <2>3 DEF VerdictInv
<1>6. CASE first.kind \notin Verdict
  <2>1. UNCHANGED <<pc, state, verdict>>
    BY <1>1, <1>6 DEF Poll
  <2> QED
    BY <1>1, <1>2, <1>3, <1>4, <2>1 DEF VerdictInv
<1> QED
  BY <1>5, <1>6

\* A verdict sent while one is asked for is the first to wait in the channel.
LEMMA SentVerdict ==
    ASSUME VerdictInv, NEW kind \in HumanInputs, HumanSends(kind)
    PROVE  VerdictInv'
<1> DEFINE sent == [kind |-> kind, answers |-> IF kind \in Verdict /\ Asked THEN round ELSE 0]
<1>1. /\ inbox' = Append(inbox, sent)
      /\ hasty' = (hasty \/ (kind \in Verdict /\ ~Asked))
      /\ UNCHANGED <<pc, state, round, verdict>>
  BY DEF HumanSends
<1>2. sent \in Input
  BY DEF Input, VerdictInv
<1>3. /\ sent.kind = kind
      /\ sent.kind \in Verdict /\ sent.answers # 0 => Asked /\ sent.answers = round
      /\ sent.kind \in Verdict /\ sent.answers = 0 => ~Asked
  BY DEF VerdictInv
<1> HIDE DEF sent
<1>4. /\ inbox' \in Seq(Input) /\ Len(inbox') = Len(inbox) + 1 /\ Len(inbox) \in Nat
      /\ DOMAIN inbox = 1 .. Len(inbox) /\ DOMAIN inbox' = 1 .. (Len(inbox) + 1)
      /\ inbox'[Len(inbox) + 1] = sent
      /\ \A i \in 1 .. Len(inbox) : inbox'[i] = inbox[i]
  BY <1>1, <1>2 DEF VerdictInv
<1>5. \A i \in DOMAIN inbox' :
        inbox'[i].kind \in Verdict /\ inbox'[i].answers = 0 => hasty'
  <2>1. hasty => hasty'
    BY <1>1
  <2>2. kind \in Verdict /\ ~Asked => hasty'
    BY <1>1
  <2> QED
    BY <1>3, <1>4, <2>1, <2>2 DEF VerdictInv
<1>6. ASSUME NEW i \in DOMAIN inbox', inbox'[i].kind \in Verdict, inbox'[i].answers # 0
      PROVE  /\ inbox'[i].answers = round /\ pc = "approval"
             /\ \A j \in 1 .. (i - 1) : inbox'[j].kind \notin Verdict
  <2>1. CASE i = Len(inbox) + 1
    BY <1>3, <1>4, <1>6, <2>1 DEF Asked, VerdictInv
  <2>2. CASE i \in 1 .. Len(inbox)
    BY <1>4, <1>6, <2>2 DEF VerdictInv
  <2> QED
    BY <1>4, <2>1, <2>2
<1>7. verdict' = "early" => hasty'
  BY <1>1 DEF VerdictInv
<1>8. state' = "AwaitingApproval" <=> pc' = "approval"
  BY <1>1 DEF VerdictInv
<1> QED
  BY <1>1, <1>4, <1>5, <1>6, <1>7, <1>8 DEF VerdictInv

\* Every other step leaves the channel alone and keeps to its side of the wait.
LEMMA StepVerdict == VerdictInv /\ [Next]_vars => VerdictInv'
<1> SUFFICES ASSUME VerdictInv, [Next]_vars
             PROVE  VerdictInv'
  OBVIOUS
<1> USE DEF historyVars, approvalVars, roundVars
<1>1. CASE RunnerStep \/ CallStep
  <2>1. /\ UNCHANGED <<state, round, inbox, hasty>> /\ verdict' \in {verdict, "due"}
        /\ pc # "approval" /\ pc' # "approval"
    BY <1>1 DEF RunnerStep, CallStep, JoinAll, SkipFailedDispatch, AtResponse,
       RefuseTurn, TakeTurn, Execute, ExecuteClose, ExecuteInvite, ExecuteRelease,
       ExecuteRequestApproval, ExecuteAdjustBudget, ExecuteSetModel,
       ExecuteForkConsultation, ExecuteSwitchCanvas, EndTurn, AllCollected,
       Complete, DispatchAnswers, DispatchFails, CallReturns, ForkReturns,
       AtFork, ConsultAnswers, ConsultFails, AtConsult
  <2> QED
    BY <2>1 DEF VerdictInv
<1>2. CASE \/ Start \/ StartRound \/ RoundsExhausted \/ EndRound \/ Extract
           \/ SelectScope \/ Synthesize \/ SynthesisFails \/ EmitOutput
           \/ SaveGraph \/ TransportFails
  <2>1. /\ UNCHANGED <<round, inbox, hasty, verdict>>
        /\ pc # "approval" /\ pc' # "approval"
        /\ state' \in {state, "Running", "Synthesizing"}
    BY <1>2 DEF Start, StartRound, BeginRound, RoundsExhausted, EndRound, Extract,
       SelectScope, Synthesize, SynthesisFails, EmitOutput, SaveGraph,
       TransportFails, Goto
  <2> QED
    BY <2>1 DEF VerdictInv
<1>3. CASE Boundary
  <2>1. /\ UNCHANGED <<round, inbox, hasty, verdict>> /\ pc = "boundary"
        /\ \/ pc' = "approval" /\ state' = "AwaitingApproval"
           \/ pc' = "decide" /\ state' = state
    BY <1>3 DEF Boundary
  <2> QED
    BY <2>1 DEF VerdictInv
<1>4. CASE Decide
  <2>1. /\ UNCHANGED <<inbox, hasty, verdict>> /\ pc = "decide"
        /\ pc' # "approval" /\ state' \in {state, "Synthesizing"}
        /\ round' \in {round, round + 1}
    BY <1>4 DEF Decide
  <2> QED
    BY <2>1 DEF VerdictInv
<1>5. CASE Poll
  BY <1>5, PollVerdict
<1>6. CASE \E kind \in HumanInputs : HumanSends(kind)
  BY <1>6, SentVerdict
<1>7. CASE UNCHANGED vars
  BY <1>7 DEF VerdictInv, vars
<1> QED
  BY <1>1, <1>2, <1>3, <1>4, <1>5, <1>6, <1>7 DEF Next, EngineStep, Stopped

\* No round and no synthesis begins before a requested approval is answered, and
\* it is answered by a verdict given to that request unless the human has sent one
\* unasked.
THEOREM ApprovalAwaited == Spec => []ApprovalGatesProgress
<1>1. Init => VerdictInv
  BY DEF Init, VerdictInv
<1>2. ResultInv /\ VerdictInv => ApprovalGatesProgress
  BY DEF ResultInv, VerdictInv, ApprovalGatesProgress
<1> QED
  BY InitResult, StepResult, StepVerdict, <1>1, <1>2, PTL DEF Spec
-----------------------------------------------------------------------------
(* The scope of a round. *)

\* A selection is at most as old as the round that is over, at its boundary as
\* well; the running round has not selected yet.
ScopeInv ==
    /\ round \in Nat
    /\ pc = "start" => nextScope \in {NoScope, round - 1}
    /\ pc \in AfterRoundPcs => nextScope \in {NoScope, round}
    /\ ScopeIsFresh

\* A round that selects nothing, or whose selection fails, forgets the one before.
LEMMA StepScope == ScopeInv /\ [Next]_vars => ScopeInv'
<1> SUFFICES ASSUME ScopeInv, [Next]_vars
             PROVE  ScopeInv'
  OBVIOUS
<1> USE DEF ScopeInv, ScopeIsFresh, RoundPcs, AfterRoundPcs
<1>1. CASE RunnerStep \/ CallStep
  <2>1. /\ pc \in RoundPcs \ {"extract", "select"} /\ UNCHANGED <<round, nextScope>>
        /\ pc' \in RoundPcs \ {"extract", "select"}
    BY <1>1 DEF RunnerStep, CallStep, JoinAll, SkipFailedDispatch, AtResponse,
       RefuseTurn, TakeTurn, Execute, ExecuteClose, ExecuteInvite, ExecuteRelease,
       ExecuteRequestApproval, ExecuteAdjustBudget, ExecuteSetModel,
       ExecuteForkConsultation, ExecuteSwitchCanvas, EndTurn, AllCollected,
       Complete, DispatchAnswers, DispatchFails, CallReturns, ForkReturns,
       AtFork, ConsultAnswers, ConsultFails, AtConsult, roundVars
  <2> QED
    BY <2>1
<1>2. CASE StartRound
  BY <1>2 DEF StartRound, BeginRound
<1>3. CASE EndRound
  BY <1>3 DEF EndRound
<1>4. CASE Extract \/ SelectScope
  BY <1>4 DEF Extract, SelectScope
<1>5. CASE Boundary
  BY <1>5 DEF Boundary
<1>6. CASE Poll
  BY <1>6 DEF Poll, Received
<1>7. CASE Decide
  <2>1. /\ pc = "decide" /\ nextScope \in {NoScope, round} /\ nextScope' = nextScope
        /\ \/ pc' = "head" /\ round' = round + 1
           \/ pc' = "synthesize" /\ round' = round
    BY <1>7 DEF Decide
  <2> QED
    BY <2>1
<1>8. CASE \/ Start \/ RoundsExhausted \/ Synthesize \/ SynthesisFails \/ EmitOutput
           \/ SaveGraph \/ TransportFails
  BY <1>8 DEF Start, RoundsExhausted, Synthesize, SynthesisFails, EmitOutput,
     SaveGraph, TransportFails, Goto
<1>9. CASE UNCHANGED <<pc, round, nextScope>>
  BY <1>9
<1> QED
  BY <1>1, <1>2, <1>3, <1>4, <1>5, <1>6, <1>7, <1>8, <1>9
  DEF Next, EngineStep, HumanSends, Stopped, vars

\* A scope selected from a round's responses is used in the next round or never.
THEOREM ScopeNeverStale == Spec => []ScopeIsFresh
<1>1. Init => ScopeInv
  BY DEF Init, ScopeInv, ScopeIsFresh, RoundPcs, AfterRoundPcs, NoScope
<1>2. ScopeInv => ScopeIsFresh
  BY DEF ScopeInv
<1> QED
  BY <1>1, <1>2, StepScope, PTL DEF Spec

-----------------------------------------------------------------------------
(* The ledger: what is charged and adjusted comes out of the replies. *)

ModelReplies == {Answered(r) : r \in Replies}

\* Every response of the running round is a reply of a model; what is left to
\* execute of one are directives of such a reply.
ResponseInv ==
    /\ pc \in {"dispatch", "collect", "respond"} =>
         /\ DOMAIN replies = Ids(canvas)
         /\ \A a \in Ids(canvas) : replies[a] \in ModelReplies \cup {Pending, Failed}
    /\ pc \in {"collect", "respond"} => \A a \in Ids(canvas) : replies[a] # Pending
    /\ DOMAIN todo = {"directives", "forks", "consults"}
    /\ todo.directives \in Seq(SessionDirectives)

\* The response that is processed is a reply of a model unless its dispatch failed.
LEMMA ResponseIsReply ==
    ASSUME ResponseInv, AtResponse, replies[Speaker] # Failed
    PROVE  Response \in Replies
<1>1. Speaker \in Ids(canvas)
  BY DEF AtResponse, Speaker, Occupant, Ids
<1>2. replies[Speaker] \in ModelReplies
  BY <1>1 DEF ResponseInv, AtResponse
<1> QED
  BY <1>2 DEF ModelReplies, Answered, Response

\* A reply's directives are those a session may be given.
LEMMA DirectivesOfReplies ==
    ASSUME NEW r \in Replies
    PROVE  r.directives \in Seq(SessionDirectives)
<1>1. r.directives \in Seq(Directive)
  BY RepliesAssumption DEF Reply
<1>2. \A i \in 1 .. Len(r.directives) : r.directives[i] \in SessionDirectives
  BY <1>1 DEF SessionDirectives, ToSet
<1> QED
  BY <1>1, <1>2

\* Collecting, executing and calling use up replies and directives, and bring in
\* none but a model's.
LEMMA StepResponse == ResponseInv /\ [Next]_vars => ResponseInv'
<1> SUFFICES ASSUME ResponseInv, [Next]_vars
             PROVE  ResponseInv'
  OBVIOUS
<1> USE DEF ResponseInv, roundVars, historyVars
<1>1. CASE StartRound
  <2>1. /\ pc' = "dispatch" /\ UNCHANGED <<canvas, todo>>
        /\ replies' = [a \in Ids(canvas) |-> Pending]
    BY <1>1 DEF StartRound, BeginRound
  <2> QED
    BY <2>1
<1>2. ASSUME NEW a \in DOMAIN replies, DispatchAnswers(a) \/ DispatchFails(a)
      PROVE  ResponseInv'
  <2>1. PICK outcome \in ModelReplies \cup {Failed} : Complete(a, outcome)
    BY <1>2 DEF DispatchAnswers, DispatchFails, ModelReplies
  <2>2. /\ pc = "dispatch" /\ UNCHANGED <<pc, canvas, todo>>
        /\ replies' = [replies EXCEPT ![a] = outcome]
    BY <2>1 DEF Complete
  <2> QED
    BY <2>2
<1>3. CASE JoinAll
  BY <1>3 DEF JoinAll
<1>4. CASE TakeTurn
  <2>1. /\ AtResponse /\ replies[Speaker] # Failed /\ pc = "collect"
        /\ pc' = "respond" /\ UNCHANGED <<canvas, replies>>
        /\ todo' = [directives |-> IF IsModerator(Speaker) THEN Response.directives
                                                           ELSE <<>>,
                    forks |-> <<>>, consults |-> Response.consults]
    BY <1>4 DEF TakeTurn, AtResponse
  <2>2. Response.directives \in Seq(SessionDirectives)
    BY <2>1, ResponseIsReply, DirectivesOfReplies
  <2> QED
    BY <2>1, <2>2
<1>5. CASE \/ ExecuteClose \/ ExecuteInvite \/ ExecuteRelease \/ ExecuteRequestApproval
           \/ ExecuteAdjustBudget \/ ExecuteSetModel \/ ExecuteForkConsultation
           \/ ExecuteSwitchCanvas
  <2>1. /\ pc = "respond" /\ UNCHANGED <<pc, canvas, replies>> /\ todo.directives # <<>>
        /\ \/ todo' = [todo EXCEPT !.directives = Tail(@)]
           \/ todo' = [todo EXCEPT !.directives = Tail(@),
                                   !.forks = Append(@, ThisDirective.who)]
    BY <1>5 DEF Execute, ExecuteClose, ExecuteInvite, ExecuteRelease,
       ExecuteRequestApproval, ExecuteAdjustBudget, ExecuteSetModel,
       ExecuteForkConsultation, ExecuteSwitchCanvas, DirectiveDone
  <2>2. Tail(todo.directives) \in Seq(SessionDirectives)
    BY <2>1
  <2>3. DOMAIN todo' = DOMAIN todo /\ todo'.directives = Tail(todo.directives)
    BY <2>1
  <2> QED
    BY <2>1, <2>2, <2>3
<1>6. ASSUME \/ \E answered \in BOOLEAN : ForkReturns(answered)
             \/ \E tokens \in ConsultCosts : ConsultAnswers(tokens)
             \/ ConsultFails
      PROVE  ResponseInv'
  <2>1. UNCHANGED <<pc, canvas, replies>>
    BY <1>6 DEF ForkReturns, ConsultAnswers, ConsultFails, CallReturns
  <2>2. \/ todo' = [todo EXCEPT !.forks = Tail(@)]
        \/ todo' = [todo EXCEPT !.consults = @ - 1]
    BY <1>6 DEF ForkReturns, ConsultAnswers, ConsultFails
  <2>3. DOMAIN todo' = DOMAIN todo /\ todo'.directives = todo.directives
    BY <2>2
  <2> QED
    BY <2>1, <2>3
<1>7. CASE SkipFailedDispatch \/ RefuseTurn \/ EndTurn \/ AllCollected
  <2>1. /\ UNCHANGED <<canvas, replies, todo>>
        /\ \/ pc' \in {pc, "roundEnd"}
           \/ pc = "respond" /\ pc' = "collect"
    BY <1>7 DEF SkipFailedDispatch, RefuseTurn, EndTurn, AllCollected
  <2> QED
    BY <2>1
<1>8. CASE EndRound
  <2>1. pc' \in {"extract", "boundary"} /\ todo' = NothingTodo
    BY <1>8 DEF EndRound
  <2> QED
    BY <2>1 DEF NothingTodo
<1>9. CASE \/ Start \/ RoundsExhausted \/ Extract \/ SelectScope \/ Boundary \/ Poll
           \/ Decide \/ Synthesize \/ SynthesisFails \/ EmitOutput \/ SaveGraph
           \/ TransportFails
  <2>1. UNCHANGED todo /\ pc' \notin {"dispatch", "collect", "respond"}
    BY <1>9 DEF Start, RoundsExhausted, Extract, SelectScope, Boundary, Poll, Received,
       Decide, Synthesize, SynthesisFails, EmitOutput, SaveGraph, TransportFails, Goto
  <2> QED
    BY <2>1
<1>10. CASE UNCHANGED <<pc, canvas, replies, todo>>
  BY <1>10
<1> QED
  BY <1>1, <1>2, <1>3, <1>4, <1>5, <1>6, <1>7, <1>8, <1>9, <1>10
  DEF Next, EngineStep, RunnerStep, CallStep, HumanSends, Stopped, vars

\* A charge of a turn or a consultation and an [ADJUST_BUDGET] are steps of the
\* ledger, whether granted or refused; nothing else touches it.
LEMMA StepOnLedger == ResponseInv /\ [Next]_vars => [Charges!Next]_pools
<1> SUFFICES ASSUME ResponseInv, [Next]_vars, pools' # pools
             PROVE  Charges!Next
  OBVIOUS
<1>1. CASE TakeTurn
  <2>1. /\ AtResponse /\ replies[Speaker] # Failed
        /\ CanCharge(pools, "main_session", Response.tokens)
        /\ pools' = Charged(pools, "main_session", Response.tokens)
    BY <1>1 DEF TakeTurn, Affordable
  <2>2. Response.tokens \in {r.tokens : r \in Replies}
    BY <2>1, ResponseIsReply
  <2>3. Charges!Charge("main_session", Response.tokens)
    BY <2>1 DEF Charges!Charge, Charges!CanCharge, CanCharge, Charges!Charged, Charged,
       Charges!Remaining, Remaining
  <2> QED
    BY <2>2, <2>3 DEF Charges!Next, Charges!PoolName
<1>2. ASSUME NEW tokens \in ConsultCosts, ConsultAnswers(tokens)
      PROVE  Charges!Next
  <2>1. CanCharge(pools, "main_session", tokens)
        /\ pools' = Charged(pools, "main_session", tokens)
    BY <1>2 DEF ConsultAnswers, Charged
  <2>2. Charges!Charge("main_session", tokens)
    BY <2>1 DEF Charges!Charge, Charges!CanCharge, CanCharge, Charges!Charged, Charged,
       Charges!Remaining, Remaining
  <2> QED
    BY <2>2 DEF Charges!Next, Charges!PoolName
<1>3. CASE ExecuteAdjustBudget
  <2> DEFINE p == ThisDirective.pool
             delta == ThisDirective.delta
  <2>1. /\ todo.directives # <<>> /\ ThisDirective.kind = "adjust"
        /\ p \in PoolName
        /\ pools' = Adjusted(pools, p, delta, Counterpart(p), -delta)
    BY <1>3 DEF ExecuteAdjustBudget, Execute, Rebalanced
  <2>2. ThisDirective \in SessionDirectives
    BY <2>1 DEF ResponseInv, ThisDirective
  <2>3. delta \in {d.delta : d \in {e \in SessionDirectives : e.kind = "adjust"}}
    BY <2>1, <2>2
  <2>4. CanAdjust(pools, p, delta)
    BY <2>1 DEF Adjusted
  <2>5. Charges!Adjust(p, delta)
    BY <2>1, <2>4 DEF Charges!Adjust, Charges!CanAdjust, CanAdjust, Charges!Adjusted,
       Adjusted, Charges!Counterpart, Counterpart, Charges!Larger, Larger
  <2> HIDE DEF p, delta
  <2> QED
    BY <2>1, <2>3, <2>5 DEF Charges!Next, Charges!PoolName, PoolName
<1> QED
  BY <1>1, <1>2, <1>3
  DEF Next, EngineStep, RunnerStep, CallStep, HumanSends, Stopped, vars, roundVars,
      JoinAll, SkipFailedDispatch, RefuseTurn, Execute, ExecuteClose, ExecuteInvite,
      ExecuteRelease, ExecuteRequestApproval, ExecuteSetModel,
      ExecuteForkConsultation, ExecuteSwitchCanvas, EndTurn, AllCollected, Complete,
      DispatchAnswers, DispatchFails, ForkReturns, ConsultFails, Start, StartRound,
      BeginRound, RoundsExhausted, EndRound, Extract, SelectScope, Boundary, Poll,
      Received, Decide, Synthesize, SynthesisFails, EmitOutput, SaveGraph,
      TransportFails, Goto

\* A session uses its ledger only as BudgetLedger allows.
THEOREM LedgerImplemented == Spec => ImplementsLedger
<1>1. Init => ResponseInv
  BY DEF Init, ResponseInv, NothingTodo
<1>2. Init => Charges!Init
  BY DEF Init, Charges!Init, NewLedger, Charges!NewLedger, PoolName, Charges!PoolName
<1> QED
  BY <1>1, <1>2, StepResponse, StepOnLedger, PTL DEF Spec, ImplementsLedger, Charges!Spec

\* What a session charges and adjusts meets the assumptions of BudgetLedger, so
\* that its theorems hold of every session.
THEOREM LedgerAssumptionsMet ==
    /\ Canvas[Home].pools \in [PoolName -> Word]
    /\ {r.tokens : r \in Replies} \cup ConsultCosts \subseteq Word
    /\ {d.delta : d \in {e \in SessionDirectives : e.kind = "adjust"}} \subseteq Delta
<1>1. Canvas[Home] \in CanvasDef
  BY CanvasAssumption
<1>2. \A r \in Replies : r.tokens \in Word
  BY RepliesAssumption DEF Reply
<1>3. \A e \in SessionDirectives : e \in Directive
  <2>1. \A r \in Replies : ToSet(r.directives) \subseteq Directive
    BY RepliesAssumption DEF Reply, ToSet
  <2> QED
    BY <2>1 DEF SessionDirectives
<1>4. \A e \in Directive : e.kind = "adjust" => e.delta \in Delta
  BY DEF Directive
<1> QED
  BY <1>1, <1>2, <1>3, <1>4, RepliesAssumption DEF CanvasDef
=============================================================================
