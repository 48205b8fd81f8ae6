# Amassada in TLA+

Models, model-checking runs and machine-checked proofs for `amassada-core`, the
library that runs structured sessions of language-model agents: canvases,
rounds, moderator directives, token budgets, whispers and consultations, a
shared context graph that outlives a session, missions made of several sessions,
and governance sessions for changes that carry a risk. Paths below are under
`src/crates/amassada-core/src/` unless they start with `src/`.

* [Inventory](#inventory) — the system's parts, their state and their hazards
* [Modules](#modules) — which module models what, and how
* [Runs](#runs) — what TLC checks, with which bounds
* [Fairness](#fairness)
* [Proofs](#proofs) — what TLAPS proves and how
* [Where the code and its documents disagree](#where-the-code-and-its-documents-disagree)
* [Not modelled](#not-modelled)
* [Plan](#plan)

## Inventory

| Part | State it keeps | Operations | What makes it correct |
|---|---|---|---|
| Session engine, `session.rs` | active canvas, round number, `SessionState`, `next_scope_ids`, graph | `new`, `load`, `with_*`, `run` | rounds stay within the canvas in force; a close is final; an approval that was requested is waited for; the run ends |
| Round runner, `round.rs` | requests, spawned dispatches, `RoundResult` | `run`: build all requests, dispatch concurrently, process responses in order | nobody sees a turn of the running round; turns are recorded in seat order, paid for, and counted |
| Moderator executor, `moderator.rs` | none (works on participants and ledger) | eight directives | directives change exactly what they name |
| Budget ledger, `budget.rs` | three pools of two `u32` | `charge`, `adjust` | no overflow, no overdraft |
| Whisper queue, `channels/whisper.rs` | a FIFO queue per agent id | `enqueue`, `drain` | a prompt holds what was whispered in the round before, all of it and nothing else |
| Consultation channel, `channels/consult.rs` | none | request, response | answered or a failure notice |
| Context builder, `context.rs` | a window of `TurnRecord`s | `push_turn`, `build_for`, `build_for_sealed` | the window is the most recent turns |
| Transport, `transport/` | event list, human input channel | `broadcast`, `consult`, `whisper`, `recv_human`, `emit_output` | — (environment of the session) |
| Session graph, `graph/mod.rs` | four layers of nodes, edges, vias, a version | `apply_delta`, `retrieve`, `serialize` | nothing is forgotten; a moderator's proposals win in their layer; a context is one hop from its scope |
| Extractor, `graph/extractor.rs` | none | `extract_delta`, `select_scope_from_response` | never fatal, never stale |
| Block parser, `blocks.rs` | none | `parse_blocks` | directives only from a moderator, every op in one proposal |
| Dispatch, `dispatch.rs` | none | `dispatch`, `dispatch_to_endpoint` | a response or an error |
| Canvas, `canvas.rs`, `canvas_library.rs` | a canvas definition, a library | parse, `get`, `select` | — |
| Synthesis, `synthesis.rs` | none | `synthesize_artifacts` | all sections or an error |
| Farga, `farga.rs` | the stored graph (in another service) | `save_graph`, `load_graph` | never fatal; what a session builds on is not lost by it |
| Mission engine, `mission/engine.rs`, `mission/types.rs` | sub-objectives, `MissionBudget`, `replan_counts`, `sessions_run` | `run`, `do_replan` | the loop ends; what sessions report is bounded; what is reported complete has evidence |
| Mission collaborators, `mission/meta.rs`, `evaluator.rs`, `session_runner.rs`, `envelope.rs` | none | `strategize`, `replan`, `complete`, `check`, `run`, `scale_canvas_budget`, `build_mission_envelope` | an unclear answer counts as no; a replan is asked for with its reason; a scaled canvas keeps its shape |
| Governance, `governance/` | a risk score, a composition, rooms or a pending budget | `compute_risk_score`, `compose_session`, `check_constitution`, `init_governance_state` | floors hold; seats follow the tier; rooms open on enough budget |
| Persona resolution, `fondament.rs` | none | reads files | — |

How they interact. `MissionEngine::run` calls a `SessionRunner` for each plan;
the production runner makes a `SessionEngine` and runs it. `SessionEngine::run`
lends participants, window, whisper queue, ledger and graph to a `RoundRunner`
each round and keeps what the runner did to them. The runner spawns one task per
participant; everything else in a session is one task, which awaits model calls,
the transport and Farga one after the other. A human writes to the transport at
any time, and the session reads only while it waits for an approval.

What is hard. Dispatches finish in any order and fail one by one; whispers,
scopes and participants are carried from round to round across failures and hot
switches; one reply may carry several directives whose effects meet at the round
boundary; human input is buffered and may be older than the question; the ledger
mixes `u32` counters with `i64` deltas out of a model's text; a transport error
leaves `run()` from the middle of a turn; a round's proposals meet on the same
nodes; a graph travels through a store that answers late or not at all; the
mission loop is fed by a meta-moderator that may answer any plans; governance
compares floats, scores and thresholds, that may be NaN, and leaves its
composition open to edits after the check. `PROJECT.json` lists each hazard with
its line and the properties that would catch it.

## Modules

```
Budget ─┬─ BudgetLemmas ───────┬─ (SessionTurnProofs)
        ├─ BudgetLedger ─(INSTANCE)─────────────────────┐
        │     └────────────────┴─ BudgetProofs          │
        ├─ SessionState ── Round ── Session ── SessionProps ─┬─ MCSession
        │      │               SessionLifecycle ──(INSTANCE)─┤
        │      │                                             └─ SessionProofs ── SessionTurnProofs
        │  GraphSummary
        │      │
        │  GraphRounds ── GraphProps ─┬─ MCGraph
        │      │                      └─ GraphProofs
        │    Blocks ── SessionGraph
        └─ Scaling ── Governance ─┬─ MCGovernance
                                  └─ GovernanceProofs
GraphStore ──(INSTANCE GraphRegister)──┬─ MCGraphStore
                                       └─ GraphStoreProofs
Mission ─┬─ MCMission
         └─ MissionProofs
```

**Budget** — `PoolName`, pools, `charge` (`CanCharge`, `Charged`) and `adjust`
(`CanAdjust`, `Adjusted`) as operators on a ledger value. `adjust` computes in
`i64` and casts with `as u32`: the model takes the result modulo `U32`, the
number of values a `u32` has. `Delta` holds the deltas whose sum with a total and
whose negation are in `i64`; the 2^33 or so at either end of it, which panic or wrap
(`budget.rs:91` and `97`, `moderator.rs:74`), are left out. The sum of `charge` is not reduced: that it never
needs to be is what `TypeOK` of BudgetLedger says. **BudgetLemmas** has what these
operators return, for the proofs of the ledger and of the session. **BudgetLedger** is the
ledger as a state machine under any sequence of calls, and the abstract
specification of what a session does to its ledger.

**SessionState** — the data both engines share. An agent id, the string
`"{persona}-{index}"`, is the pair `<<persona, seat>>`; a bare persona name, which
directives use as an address too, is `<<persona, 0>>`. The participants of a canvas
are the seats that no human takes (`Seats`), in the roster's order. A model's reply is a record
of what `parse_blocks` gets out of it: tokens, directives, how many consultations,
whether it proposes graph updates. `spoken` (all turns), `told` and `due` (what was
whispered to whom since the round began, and in the round before), `verdict` (what
became of the last request for approval: due, given, or given early) and `hasty` (has
the human sent a verdict unasked?) are history variables: they are kept beside the
program's state and no guard reads them. A verdict in the channel carries the round
whose request it was sent for, or 0.

**Round** — `RoundRunner::run`. Phase 1 and the spawning of phase 2 are one action
(`BeginRound`: nothing else runs in between that the code could observe); each
dispatch completes in an action of its own, in any order (`DispatchAnswers`,
`DispatchFails`); `JoinAll` is `join_all`. Phase 3 takes the responses in roster
order (`SeatAfter` a seat is the next one): `SkipFailedDispatch`, `RefuseTurn` (budget exhausted) or `TakeTurn`, then
one action per moderator directive, then forks and consultations one by one, each
answered or failed, then `EndTurn`.

**Session** — `SessionEngine::run` around it: `StartRound`/`RoundsExhausted` are
the `while` condition, `EndRound` applies agents' then moderator's proposals,
`Extract` and `SelectScope` the two calls after it, `Boundary` the hot switch and
the entry of the approval loop, `Poll` one iteration that finds input (one that
finds none changes nothing), `Decide` the close test and the increment, then
synthesis, output and save. `TransportFails` is an `Err` that `?` carries out of
`run()`. `HumanSends` is the environment.

**SessionLifecycle** — the abstract specification of a session for an observer:
the phases of `SessionState` in `types.rs`, rounds counted and within what some canvas
allows, nothing after a round that closed. **SessionProps** states the session's properties and the mappings to
SessionLifecycle and BudgetLedger.

**GraphSummary** is the interface of the two views of a session. Session asks its
graph three things only — its version, has it Frontier nodes, has it open ones —
and works on this summary. **SessionGraph** is the graph itself: nodes by layer,
edges, vias, `apply_delta`, `proposals_to_delta`, the conversion of what a model
writes, `retrieve` with its two sections and its thresholds. Weights are
hundredths; `Keep` stands for a field an update does not name, and a weight may be
`NaN`. The loops of the code that push onto vectors and insert into maps are folds
over a named step each (`Pushed`, `Inserted`, `Updated`, `PushOp`, `PushBlock`,
`Extended`). `IsGraph` says what a graph made by deltas looks like. **Blocks** is `parse_blocks` over abstract lines (a header, a directive, an
op, text). **GraphRounds** runs rounds on the graph: a reply is a sequence of
lines, its proposals are what Blocks makes of them, agents' and moderator's ops
are applied, extraction and scope selection answer anything, and the next round's
context is `retrieve`. Dispatch, tokens and humans are left to Session: a turn
answers, fails or is the last one. **GraphProps** has the properties, and with
`AsSummarised` the bridge: every step of the graph is one Session allows for its
summary, and a round shares a context exactly when `ContextKind` says so.

**GraphStore** — the same graph between runs: any number of engines of one
`session_id`, made by `load()` or fresh, `run()` any number of times, that fail,
crash or finish, with Farga's key-value store behind them. A `PUT` is taken while
its client waits, after it gave up (`late`) or never, and the answer may be lost.
A graph that holds a weight that is not a number of JSON is stored but cannot be
parsed back. Its grain is a round, whose effect (version up by two or three, work
added, weights finite or not) is what `GraphGrows` guarantees. **GraphRegister**
is the abstract specification: a register that only ever holds a graph some
finished run published.

**Mission** — `MissionEngine::run` and `do_replan`; meta-moderator, evaluator and
runner answer anything or fail; how their answers are read (`check`,
`parse_farga_verdict`) is modelled, as is the envelope a replan is asked with. A
session is reduced to the tokens it reports: 0, as the runner of this repository
always does (`session.rs:339`), its slice or more; one that fails reports none
(`mission/engine.rs:106`). `guarded` is the history of what was reported by sessions
of a slice that is not empty. The engine
outlives a run, so `RunAgain` calls `run()` again with what its fields keep.

**Scaling** — `scale_canvas_budget` with `f64` rounding and the saturating cast,
used by missions and governance. **Governance** — from the assessment of a change
to its rooms: score and floors, composition, constitutional check, budget gate and
rooms as actions, in the order a caller makes them; between them the composition's
public fields are edited, before and after the check and each of them, sessions spend
and budgets are topped up. Scores and thresholds are hundredths or `NaN`. An `Option`
is the set of what it holds, so that a counter-session that seats nobody (`{<<>>}`)
is not a missing one (`{}`). `edited` and `late` record which fields were edited
before and after the check, `granted` and `claimed` what happened to the budget since
the shortfall was computed.

Correspondence of variables to fields is given by the comments at their
declarations, that of definitions to lines by `map` in `PROJECT.json`. Operators
whose comment starts with "Mutant:" are faulty versions of the definition that
follows; each property fails when its mutant replaces the original.

## Runs

| Run | Checks | Instance |
|---|---|---|
| MCBudgetLedger | `TypeOK`, `SpentWithinTotal`, `StaysSolvent` | counters of 8 values, deltas -9…7: refusals, clamping, minting and truncation all occur |
| SessionTalk | `WindowIsRecent`, `TurnsCounted`, `WhispersTimely`, `ScopeIsFresh`, `SpokenInOrder`, `ExtractedTurnsPaid`, `ImplementsLedger` | moderator and agent, 3 rounds, window of 2, 5 tokens in main_session; replies that propose, consult, adjust, close; fresh or loaded graph |
| SessionSteer | `TypeOK`, `RoundWithinCanvas`, `PromptIsolation`, `ApprovalGatesProgress`, `CloseIsFinal`, `ImplementsLifecycle`, `Termination` | a moderator alone (2 to 3 rounds) that switches to a canvas of 1 to 2 rounds with an evaluator both sealed and aporia, a human and an aporia moderator; models, forks, consultations, invites, releases; approvals alone, with a close, with a switch, to an unknown canvas too; `Btw`, `Approve`, `Reject` at any time; Farga attached |
| Graph | `LayersByType`, `ModeratorPrevails`, `OpsAttributed`, `ContextAsSummarised`, `FrontierShown`, `ContextIsOneHop`, `GraphGrows`, `AsSummarised` | moderator and agent, 2 rounds, every reply of up to three of five lines whose ops conflict on one node; fresh or resumed graph, the latter with settled and open nodes of both layers; scopes with ids the graph does not know |
| Store | `AcknowledgedIsKept`, `NoLostWork`, `ImplementsRegister` | two engines, two pieces of work, one late PUT at a time, versions up to 5 |
| Mission | `ReplansBounded`, `CompleteHasEvidence`, `SatisfiedSessionsMet`, `ReplanIsInformed`, `WithinDeployable`, `RunEnds` | two objectives, an unknown id and canvas, plans of cost 0, 1 and 2, sessions that report 0, their slice or 1 more, two runs |
| Governance | `FloorsReachRooms`, `RiskMonotone`, `ProjectsSeatedOnce`, `FundedPrimary`, `PoolsNearTotal`, `ShortfallSuffices` | five configurations (consistent, cap below the minimum, unordered thresholds and an overflow, critical or high threshold NaN), five scores and NaN, up to four projects, three base canvases, two budgets, two moves: edits of any field before or after the check, payments, grants |
| DocMinimum, DocApproval, DocHardLimit, DocPrecedence, DocRoundtrip | one property each, expected to fail | see [below](#where-the-code-and-its-documents-disagree) |

What they show.

* *Turns.* Whatever order dispatches finish or fail in, turns are recorded in
  seat order, at most one per participant and round; the window is exactly the
  most recent turns; unsealed participants of a round are all shown the same,
  whole past rounds; a sealed one no turn and no shared context, though with the aporia
  modifier the graph's open nodes. `turns_taken` counts recorded turns.
* *Whispers.* Without a switch a prompt holds all that was whispered to its
  participant in the round before, in order, and nothing else. (A switch may delay
  whispers; a prompt whose dispatch fails is not answered.)
* *Tokens.* The ledger never leaves its width; of what reaches the graph at most
  the one turn that exhausted the budget is unpaid, and the session then closes.
* *Progress.* Close is final and survives switch and verdict; after a requested
  approval nothing goes on before a verdict, which is one to this very request unless
  the human sent one unasked (DocApproval shows that one); the session passes through the documented phases and
  ends; a mission run ends, with at most two replans per objective, each asked for
  with the session and the judgment that made it necessary.
* *Graph.* An op belongs to the nearest header above it and to no other proposal;
  within a layer, whatever agents propose, the moderator's type and weights are what a
  round leaves on a node; a node's type tells its layer; a round's context lists, of
  its scope and what is one followed edge or strong via away, the causal and the open
  nodes, no more and no less, and unless a scope
  was selected no Frontier node is missing from it.
* *Persistence.* A `PUT` that finds in the store what its session built on loses
  nothing of it; with runs that follow each other undisturbed, acknowledged work
  stays stored through failures, crashes, lost answers and late `PUT`s.
* *Mission budget.* What sessions of a non-empty slice report never passes the
  deployable budget by more than one session's excess. That is all the code holds:
  tokens that nobody reports are counted nowhere.
* *Governance.* A change that is org-wide or irreversible is decided with a counter
  room whatever its score, NaN included, if the floor's threshold is a number and no
  edit took the room away; a change no less severe gets no lower tier, but for a floor
  that is lost to a NaN critical threshold; the projects and the override reach their
  seats; rooms never open below the minimum, and what a waiting session has to be
  granted is exactly the reported shortfall plus what that leaves out.

Bounds. All values are small because the code tests them only against each other:
2–3 rounds with a window of 2 are enough for the window to overflow and for a
switch to land below, at and above the new canvas's maximum; three seats allow a
response before, at and after another; a budget of 5 is exhausted in the first or
second round; `U32 = 256` in session runs is never reached (there truncation
belongs to MCBudgetLedger, and DocHardLimit shows minting without it); a human
channel of capacity 1 already holds a stale verdict, the only thing a longer one
could add more of. Graph: a conflict needs an op of each role on one node, three
lines hold a header between two ops, a second round shows the context of the first.
Store: two engines make every order of two loads, works and saves, one late `PUT`
already lands after a later session's; work of two kinds tells whose was lost.
`MaxRuns = 2` of Mission lets counts and budgets of one run meet the next.
Governance's `U32 = 64` lets one configuration double its minimum beyond it; two moves
are an edit on either side of the check, an edit and a payment, or a payment before
the shortfall is computed and a grant after it. SessionTalk,
Graph, Store, Mission and Governance have between one and two and a half million
distinct states each, SessionSteer about 350 000, MCBudgetLedger some thousands.

`CompleteHasEvidence` speaks of the first run that has not failed: an evaluator
error does leave Complete objectives whose session is on no record
(`mission/engine.rs:132` returns before line 155). `FundedPrimary` assumes a
minimum below the cap whose double fits a `u32`, which nothing in the code checks;
the run has configurations without, whose rooms are given less. `NoLostWork` speaks of
a `PUT` that finds what its session built on, `AcknowledgedIsKept` of runs that begin
undisturbed: two engines at work at once, a load that failed, a graph that did not
parse and a `PUT` that lands after a later session's do lose work. Weights and scores in hundredths
tell all comparisons with the code's thresholds apart; rounding matters only in
`Scaling`, where a quotient that is exactly an integer may come out one below.

## Fairness

`Session!FairSpec` has weak fairness of the engine's own steps (the executor keeps
polling a task that is ready), weak fairness of outstanding calls (each answers or
fails), and strong fairness of a human's verdict while an approval is pending
(strong because the channel may be full and is emptied again by polling). The last
two are assumptions about the environment and are needed: `dispatch.rs` and
`farga.rs` set no timeout, and the approval loop (`session.rs:288-304`) has
neither a time limit nor a test for a closed channel, so without a human who
answers a session that asked for approval polls for ever.
`Mission!FairSpec` has weak fairness of `RunStep`: every call of a collaborator
answers or fails. No fairness is put on errors, on what a reply contains or on
which verdict is given. GraphRounds, GraphStore and Governance state no liveness:
the rounds' end is Session's, nothing makes Farga answer, and nobody has to top up
a budget.

## Proofs

All proofs hold for every value of the constants that meets the named
assumptions, which are those the code's types give: allocations and costs are
`u32`, deltas are `i64` as in `Delta`, canvases have finite rosters, replies are finite lists of
lines, plans, projects and extracted ops are finite lists, a round adds two or three
deltas, minimums are `u32`, thresholds and scores are numbers or NaN. One assumption is about what the program
did before: the graphs a resumed session starts from are graphs as rounds leave them
(`LoadedAssumption`). `GraphKept` proves that what a session leaves is one again.

Every safety invariant, action property and refinement that a passing run checks is
stated by a theorem.

**BudgetLemmas, BudgetProofs.** `ChargedType` and `AdjustedType` say what one call does to a
ledger of the right type. `TypeCorrect`: `TypeOK` is inductive, so
`consumed += tokens` never overflows. `SpendingCovered`: no step overspends, even
after a truncated total. `PoolsStaySolvent` and `PoolsSolvent`: without truncation
the check on one pool and the clamp on the other keep both solvent; the range from
`TypeOK` is what makes `% U32` vanish.

**SessionProofs.** `RoundsWithinCanvas` needs no strengthening: the canvas changes
only at `Boundary`, outside `RoundPcs`, and the next `StartRound` tests the new
one. `ClosesForGood` needs `ResultInv`: a result that closes
occurs only where no round can start, and a verdict is due only while the result
still carries the request; without it `StartRound` could reset a close and `Decide`
could pass a request by. Its preservation is split by phase
(`CollectFlags`, `ExecuteFlags`), directive by directive. `ApprovalAwaited` adds
`VerdictInv`: a verdict sent for a request is in the channel only while that request
waits, before every other verdict, so that it is the one taken; any other verdict in
the channel shows that the human was hasty. `ScopeNeverStale` needs
what a selection may be at the boundary, too (`ScopeInv`): there it is of the round
that is over, and `Decide` counts on. These four theorems use no assumption on
`Canvas` or `Replies`. `LedgerImplemented` is the refinement of the ledger: with
`ResponseInv` (the response processed, and what is left to execute of it, come out of
a model's reply) every step is a charge or an adjustment of BudgetLedger, or leaves
the ledger alone; `LedgerAssumptionsMet` shows that the assumptions of BudgetLedger
hold of a session, and so do its theorems.

**SessionTurnProofs.** `SessionTyped`: `TypeInv` — the types, a round's shape
(`RoundShape`: prompts are those of the seats of the canvas while a round dispatches and
collects and of nobody outside of it, and while a response is processed the cursor
stands at a seat) and `ResponseInv` — with `EngineTypes` is inductive, by a lemma per
step that adds a turn, queues a whisper or moves money. `StepKinds` sorts the steps
by what they do to the turns, and the other proofs are by these kinds.
`WindowFollowsTurns`: dropping the oldest turns before or after one is added makes no
difference (`WindowSlides`). `TurnsInOrder` needs `OrderInv`: turns of the running
round are of seats before the cursor, up to it while a response is processed, and no
turn is of a later round; so the next is of a later seat or round. `PromptsIsolated`
rests on it: what was recorded when the round began is what is of earlier rounds
(`PastAtStart`) and stays so while turns are added (`PastIsFixed`).
`WhispersInTime` needs `WhisperInv`: without a switch a participant's queue is at all
times what was whispered to it since the round began, and `StartRound` drains it into
the prompt. `TurnsNumbered` needs `CountInv` (every recorded
index is below its speaker's count). `TurnsPaid` is inductive with the
types and `ResultInv`: while the result does not close, everything collected is paid. `LifecycleImplemented` is the refinement: with
`PhaseInv`, which ties `SessionState` to the point the run has reached, every step
from every interleaving of replies, inputs and errors is a step of SessionLifecycle or
a stutter.

**GraphProofs.** Deltas, blocks and ops are folds, and the prover has neither
induction over data nor operators as parameters of theorems. The first section gets
around both: by the definition of `FoldLeft` a fold is the last state of a run of its
steps (`FoldRuns`, from `FoldsExist`), and what holds of every state of a run follows
from the least state that would break it (`Induct`, from the well-foundedness of the
naturals), once for each of the model's six steps. On this rest what a delta holds
(`DeltaSelects`: the ops of each kind in their order), what inserting and updating
leave (`LayersInserted`, `LayersUpdated`), and which lines a reply's ops are
(`ProposedTaken`). `GraphInv` — the graph is one, the proposals of the round are lists
of ops — is inductive and gives `LayersFollowTypes`, `GraphKept`, and with
`DeltaKeeps` `NothingForgotten`. `OpsInProposals` names the increasing positions of
the op lines that a reply's ops come from. `ModeratorWins` needs `MergedInv`: before the
extraction the graph is what the moderator's delta left of some graph; `DeltaPrevails`
then says that the last NEW and the last update of a delta have their way, the update
in the first layer that holds the id. `FrontierKept`, `ContextOneHop` and
`SummaryTellsContext` follow from `ContextInv`: while turns run, the context is the one
of the graph as it is. `SummaryTellsContext` supposes that Frontier nodes are among the
kinds the summary tells (`"frontier" \in NodeKinds`), as they are in the runs: without
them a session's control could not know of any. `SummaryFollows` is what lets the
session's theorems be read as theorems about sessions on real graphs: the summary of
every change is one that Session's graph may make.

**MissionProofs.** `TypeCorrect`. `DeployableHeld` strengthens with `GuardInv`
(`guarded <= spent`: what sessions of a non-empty slice reported was added to
`deployable_spent`): the guard compares a plan's slice with what is left by that
count, and a session reports at most its slice and the excess. `ReplansHeld` counts:
to each replan belongs a slot `<<o, k>>` with `k < Limit`, the value an objective's
count had reached when the replan was asked for; `SlotsCover` says that replans are no
more than the slots taken, and slots are taken once because counts only grow.
Hence at most `(Limit - 1) * |Objectives|` replans for any number of objectives.
`CompletenessEvident`, `SatisfiedMeansMet` and `ReplanInformed` follow from
`EvidenceInv`: while a session is judged, each objective whose turn is over is Complete
or has the reason why not (`JudgedInv`), which `RecordSession` turns into a record and
`RecordedInv` keeps until the replan; `TargetJudged` says that one step judges one
target, however often a plan names it.

**GraphStoreProofs.** `StoreTyped`. `PutsLoseNothing`: `Lineage` — every engine's
graph, and that of every late `PUT`, extends the stored graph it descends from — is
inductive, and a `PUT` that finds its base in the store therefore extends the store.
`AcknowledgedStays` strengthens with `InTurn`, under the condition that no run was
disturbed: at most one engine is busy, it builds on all that was acknowledged, and
no `PUT` is late while it works; an undisturbed `Run` begins when no other is busy and
nothing is late, which is what re-establishes it. `StoreIsRegister`: with `Published`
(what is being saved, or is late, is the graph of a finished run) every step of the
store is a step of GraphRegister or a stutter.

**GovernanceProofs.** `TypeCorrect`, `FloorsDecide` from `GovInv`, whose parts say that
the tier is that of the request (`TierAssessed`), the composition that of the tier in
every field not edited (`CompositionMade`, `TierMade`), that past the check a contested
composition has a counter-session unless it was struck out later (`Constitutional`), and
that open rooms seat what the composition says (`RoomsSeated`). `EditWrites` says what
an edit of one field leaves alone. `SeverityRaisesTier` is a case split on thresholds and NaN, with
no order assumed among the thresholds, any of which may be NaN. `PrimaryFunded` and `PoolsFollowTotal` rest on
`RescaledBound` — a pool's scaled size times the old total is at most pool times new
total, unless it is the one token every pool keeps — and on `ScaledSum`, which adds
the three up and divides by the total (`CancelFactor`). `ProjectsInPlace`: the
moderator's slot is the template's last (`ModeratorSlotIsLast`), so that projects and
the slots they take are in step (`ProjectOfSlot`), and what is edited afterwards keeps
them (`ProjectsKept`). `ShortfallExact` from `FundInv`, which relates shortfall,
grants, and what was overspent, spent or asked for since, to the budget
(`ShortfallOwed`), and rooms to the budget they opened on (`OpenedOnMinimum`).

Model-checked only: the two liveness properties, `Termination` and `RunEnds` (fairness
and ENABLED are outside the prover), and the five runs that refute a document, whose
counterexamples are the result. `MCSession`, `MCGraph` and the other instances bind the
constants; that they meet the assumptions is checked by TLC in every run.

Some definitions have their form for the prover's sake, which changes nothing of what
they mean: sequences are filtered by folds, since `SelectSeq` is opaque to it, maps are
extended by a function over the larger domain instead of `@@`, and nested `EXCEPT`s
name what they change.

## Where the code and its documents disagree

Each of these has a run whose counterexample shows it.

| Run | Document | Code |
|---|---|---|
| DocMinimum | `src/README.md:264`: `min`: "session cannot close before this round" | a close breaks the loop in any round (`session.rs:307-309`) |
| DocApproval | `src/README.md:435`: `Approve`: "Approves a pending `[REQUEST_APPROVAL]`" | the approval loop takes the first verdict in the channel, also one sent before the request (`session.rs:289`) |
| DocHardLimit | `src/README.md:243`: `total_tokens`: "hard limit — engine enforced" | `adjust` clamps the losing side and so creates tokens (`budget.rs:98`); the ledger's total is never read |
| DocPrecedence | `session.rs:211-212`: applying the moderator last "gives moderator precedence on any conflicting node/edge update" | true of nodes within a layer (`ModeratorPrevails`); edges are appended and none is replaced (`graph/mod.rs:387-389`), so an agent's edge is followed beside the moderator's `dead` one |
| DocRoundtrip | `session.rs:64-65`: a fresh graph "if Farga is unreachable or the session has no prior graph" | also if the stored graph holds a weight that is `NaN` or infinite: `blocks.rs:191` parses one, it is stored as `null` and cannot be read back (`farga.rs:122`) |

Read in the code while modelling, visible in the actions, and given no run of
their own:

* Session. `Modify` does not end an
  approval (`session.rs:300`; `src/README.md:150`). `[RELEASE]` does not take an
  agent out of the rotation (`moderator.rs:52`; `src/README.md:463`). A consultation
  is answered when nothing can pay for it (`round.rs:329`; `src/README.md:417`), and is
  charged to main_session, not to the consultations pool. A reply that is whispered
  back "so it is available on the next turn" (`round.rs:286-287`) is lost if that
  turn's dispatch fails. A sealed participant is to see "only moderator whispers, never the
  session transcript or shared graph context" (`canvas.rs:47-50`), but one that has the
  aporia modifier too is given the graph's open nodes in its preamble
  (`round.rs:79-106`); `PromptIsolation` says so, and SessionSteer seats one.
  No error sets `SessionState::Failed` (`src/README.md:159-160`).
* Graph. The design of 2026-06-27 writes a new node as `NEW N9: type=…` (line 217), the
  parser reads `NEW node: id=…`; it persists the graph after each round (line 82), the
  code at the session's end. The `round:` of a serialised context is the graph's
  version, which counts deltas. That of 2026-07-01 describes the Frontier by thresholds
  of the weights (lines 129-130), the code by the node's type. "Scope nodes always
  included" (`graph/mod.rs:314`) holds of causal nodes; a settled node of the semantic layer is
  listed in no section though it is selected, and a via is followed forward only, where
  the design of 2026-06-27 (line 47) pulls its source in as well (`ContextIsOneHop`).
  An id the agent creates as Supporting and the moderator as another type, or the other
  way round, stands in both layers, each copy of its creator's type, and an update of it,
  the moderator's too, reaches the causal copy only (`graph/mod.rs:376-415`), against the precedence that
  `session.rs:211-212` and line 222 of that design claim.
* Persistence. `with_farga` says that the graph is loaded at session start
  (`session.rs:54-56`); only `load()` loads, `run()` does not.
* Mission. `do_replan` counts "all failed objectives" (`mission/engine.rs:262`), but
  takes every objective of the plan and demotes met ones. An empty replan is to mark the
  objective out of scope (`mission/meta.rs:40`); it marks nothing. The reason
  `do_replan` is given is dropped (`_reason`, line 257); the envelope carries it
  (`ReplanIsInformed`). The completion check does not ask whether every objective is
  resolved (`mission/engine.rs:173-180`; design of 2026-06-17, line 272), and the
  hard ceiling (same document, lines 57 and 290) binds what is reported only: the
  production runner reports 0 (`session.rs:339`), and the tokens of a session that
  failed are lost with its error (`mission/engine.rs:106`). After three failures that
  design still asks the meta-moderator (lines 253-256); the code, and its test
  (`mission/engine.rs:487-489`), give the objective up without asking.
* Governance. `check_constitution` asks for a counter-session, not for anybody in it:
  one that is present and empty passes (`composition.rs:105`) and opens an empty room.
  A composition's fields may be edited after the check and are opened as they are
  (`state.rs:24`). Thresholds are read unchecked (`config.rs:42-51`): one that is NaN
  removes its floor, and with a NaN critical threshold an irreversible change that is
  org-wide as well keeps its raw score (`risk.rs:61-77`). The shortfall leaves out what
  was overspent when it was computed (`state.rs:31-34`). Two rooms are opened on a budget
  that covers the primary's minimum; together they may be given more than remains. A
  base canvas whose total is 0 is not scaled, and its rooms get no token.

## Not modelled

Text: prompts, the text inside a parsed line, JSON, HTTP bodies, YAML, display and
logging. The `human` configuration of a canvas, `convergence_modifier` and the
`consultation` limits are read by no code. `MainSessionChannel` has no caller.
Discretionary counters of a mission are compared with nothing. That an endpoint
participant's request leaves out the shared context (`dispatch.rs:177`) is below the
abstraction of a prompt. Canvas selection by keywords, the built-in canvases and
persona resolution are pure functions of files. `serialize` of a whole graph has no
caller in the library; `retrieve` is what sessions use. Different sessions' keys in
Farga are taken to differ. The weighted sum of a risk score is one number.

## Plan

1. Done: the ledger, the session with its rounds, the mission, the graph with its
   parser, its persistence, governance and budget scaling; their runs, and a theorem
   for each of their safety properties.
2. Proofs: that GraphRounds refines the part of Session that runs on the summary as one
   refinement, not only step by step (`AsSummarised`); that GraphStore's rounds are
   what `GraphGrows` allows.
3. A mission composed with the ledger its sessions run on, so that the excess a
   session may use is derived from Scaling and Budget and not a constant.
