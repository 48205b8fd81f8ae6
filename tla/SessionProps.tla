---------------------------- MODULE SessionProps ----------------------------
(***************************************************************************)
(* What a session guarantees, and what its documentation says of it that   *)
(* the code does not do (the section "Documented").                        *)
(***************************************************************************)
EXTENDS Session

RoundPcs == {"dispatch", "collect", "respond", "roundEnd", "extract", "select"}
AfterRoundPcs == {"boundary", "approval", "decide"}
EndPcs == {"synthesize", "output", "save", "done", "failed"}

TurnRecords == [agent : Address, round : Nat, index : Nat, tokens : Word]
Outcome == [close : BOOLEAN, approval : BOOLEAN, switch : CanvasIds \cup {"unknown", "none"},
            agentOps : Seq(Address), moderatorOps : Seq(Address),
            transcript : Seq(Address)]
Input == [kind : HumanInputs, answers : Nat]
Queues == [Address -> Seq([kind : {"reply", "failed", "sidebar"}, round : Nat])]

\* Every variable holds a value the code's types allow, and the participants
\* are those of the active canvas.
TypeOK ==
    /\ pc \in {"start", "head"} \cup RoundPcs \cup AfterRoundPcs \cup EndPcs
    /\ state \in {"Initializing", "Running", "AwaitingApproval", "Synthesizing"}
    /\ canvas \in CanvasIds
    /\ round \in Nat \ {0}
    /\ participants \in [Ids(canvas) -> [turns : Nat, model : Models \cup {Default}]]
    /\ pools \in Ledger
    /\ transcript \in Seq(TurnRecords)
    /\ whispers \in Queues
    /\ graph \in [version : Nat, nodes : SUBSET NodeKinds]
    /\ nextScope \in Nat
    /\ DOMAIN prompts \in {{}, Ids(canvas)} /\ DOMAIN replies = DOMAIN prompts
    /\ cursor \in Nat
    /\ todo \in [directives : Seq(Directive), forks : Seq(Address), consults : Nat]
    /\ result \in Outcome
    /\ inbox \in Seq(Input) /\ Len(inbox) <= InboxCap
    /\ stored \in Nat \cup {Nothing}
    /\ spoken \in Seq(TurnRecords)
    /\ told \in Queues /\ due \in Queues
    /\ verdict \in {"none", "due", "given", "early"} /\ hasty \in BOOLEAN
-----------------------------------------------------------------------------
(* Rounds and their end. *)

\* A round runs only within the maximum of the canvas it runs on, also after
\* a hot switch to a canvas that allows fewer rounds.
RoundWithinCanvas == pc \in RoundPcs => round <= Canvas[canvas].max

\* Once the moderator has closed the session, or the budget has refused a
\* turn, no further round begins, whatever the human answers to an approval
\* and whichever canvas was switched to.
CloseIsFinal == [][result.close => round' = round /\ result'.close]_vars

\* Once an approval has been requested no further round and no synthesis begins
\* before a verdict is received.
AwaitsVerdict ==
    verdict = "due"
      => pc \in (RoundPcs \ {"dispatch"}) \cup {"boundary", "approval", "failed"}

\* And that verdict was sent in answer to this very request, neither to an earlier
\* one nor twice, as long as the human sends no verdict unasked.  (One that was
\* sent before the request waits in the channel and is taken for its answer.)
ApprovalGatesProgress ==
    AwaitsVerdict /\ (verdict = "early" => hasty)

\* A round is over at its boundary; until then it has not closed anything.
PastBoundary == pc \in {"approval", "decide"}
ClosedByRound == result.close /\ (PastBoundary \/ state = "Synthesizing")
RoundsOver == IF PastBoundary \/ ClosedByRound THEN round ELSE round - 1

Lifecycle == INSTANCE SessionLifecycle
    WITH RoundLimits <- {Canvas[c].max : c \in CanvasIds},
         phase <- CASE pc = "done" -> "Complete"
                    [] pc = "failed" -> "Failed"
                    [] OTHER -> state,
         rounds <- RoundsOver,
         closed <- ClosedByRound

\* Rounds, approvals, synthesis and failure succeed each other as in the life
\* cycle, from every interleaving of replies, human input and errors.
ImplementsLifecycle == Lifecycle!LifecycleSpec

\* Every session ends, in output or in an error.
Termination == <>Ended
-----------------------------------------------------------------------------
(* Turns and what the prompts show of them. *)

\* Turns are recorded by round and, within a round, in seat order, at most
\* one per participant, in whatever order the concurrent dispatches finish.
SpokenInOrder ==
    \A i, j \in DOMAIN spoken :
        i < j => \/ spoken[i].round < spoken[j].round
                 \/ /\ spoken[i].round = spoken[j].round
                    /\ spoken[i].agent[2] < spoken[j].agent[2]

\* The context window holds the most recent turns of the session, no other
\* and none missing, across rounds and canvas switches.
WindowIsRecent == transcript = LastOf(spoken, Canvas[Home].window)

\* turns_taken counts a participant's recorded turns (no switch: a switch
\* seats everyone anew), so that turn_index numbers them from 0.
TurnsCounted ==
    /\ \A a \in Ids(canvas) :
         Library = {} =>
           participants[a].turns = Cardinality({i \in DOMAIN spoken : spoken[i].agent = a})
    /\ \A i, j \in DOMAIN spoken :
         Library = {} /\ i < j /\ spoken[i].agent = spoken[j].agent
           => spoken[i].index < spoken[j].index

\* Turns are recorded in the order they are taken, so that those of the rounds
\* before a round are the first.
SpokenBefore(r) ==
    SubSeq(spoken, 1, Cardinality({i \in DOMAIN spoken : spoken[i].round < r}))

\* All unsealed participants of a round are shown the same turns, those of
\* the rounds before it; a sealed one is shown no turns and no shared context.
\* The seal is not complete: a sealed participant with the aporia modifier, and
\* none without it, is still given the graph's open nodes in its preamble.
PromptIsolation ==
    \A a \in DOMAIN prompts :
        /\ prompts[a].turns =
             IF Sealed(a) THEN <<>> ELSE LastOf(SpokenBefore(round), Canvas[Home].window)
        /\ Sealed(a) => prompts[a].graph = "none"
        /\ prompts[a].preamble => Aporia(a)

\* Without a canvas switch a participant's prompt holds everything that was
\* whispered to it in the round before, in order, and nothing else: no whisper is
\* lost, late or shown twice.  (The prompt may still not be answered.)
WhispersTimely ==
    Library = {} => \A a \in DOMAIN prompts : prompts[a].whispers = due[a]

\* A scope selected from a round's responses is used in the next round or
\* never: no failure leaves an older selection in place.
ScopeIsFresh ==
    pc \in {"head"} \cup (RoundPcs \ {"select"})
        => nextScope \in {NoScope, round - 1}
-----------------------------------------------------------------------------
(* Tokens. *)

\* Of the turns whose text and proposals reach the graph at most one was not
\* paid for: the one that exhausted the budget, the last of its round, after
\* which the session closes.
ExtractedTurnsPaid ==
    pc \in RoundPcs \cup AfterRoundPcs =>
        \A i \in DOMAIN result.transcript :
            \/ \E t \in ToSet(spoken) :
                  t.agent = result.transcript[i] /\ t.round = round
            \/ i = Len(result.transcript) /\ result.close

\* The session touches its ledger only through charges and [ADJUST_BUDGET]:
\* it implements BudgetLedger, whose theorems therefore hold of it.
SessionDirectives == UNION {ToSet(r.directives) : r \in Replies}
Charges == INSTANCE BudgetLedger
    WITH ledger <- pools,
         Allocation <- Canvas[Home].pools,
         Costs <- {r.tokens : r \in Replies} \cup ConsultCosts,
         Deltas <- {d.delta : d \in {e \in SessionDirectives : e.kind = "adjust"}}

ImplementsLedger == Charges!Spec
-----------------------------------------------------------------------------
(* Documented, and not so. *)

\* README, canvas rounds: "session cannot close before this round".
ClosesAfterMinimum ==
    pc = "synthesize" => round >= Canvas[canvas].min

\* README, human input: "Approves a pending [REQUEST_APPROVAL]".
VerdictAnswersRequest == verdict # "early"

\* README, canvas budget: "hard limit -- engine enforced".
TotalIsHardLimit ==
    pools["main_session"].consumed + pools["consultations"].consumed
      + pools["mod_whisper"].consumed <= Canvas[Home].total
=============================================================================
