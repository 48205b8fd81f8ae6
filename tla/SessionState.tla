---------------------------- MODULE SessionState ----------------------------
(***************************************************************************)
(* What SessionEngine::run (session.rs) and the RoundRunner it calls every *)
(* round (round.rs) share: the canvases, the participants, the ledger, the *)
(* transcript window, the whisper queues and the session graph.            *)
(*                                                                         *)
(* An agent id is the string "{persona}-{index}".  It is modelled as the   *)
(* pair <<persona, seat>>, seats counting from 1; a bare persona name,     *)
(* which directives also use as an address, is <<persona, 0>>.             *)
(***************************************************************************)
EXTENDS Budget, GraphSummary, FiniteSets, SequencesExt

CONSTANTS
    Personas, Moderator, Human,   \* Moderator and Human are two of the Personas
    CanvasIds, Home, Library,     \* the engine's canvas, and canvas_library
    Canvas,                       \* [CanvasIds -> CanvasDef]
    MaxSeats,                     \* no canvas seats more participants
    Models,                       \* the models [MODEL ...] may name
    Replies,                      \* what a model call may answer to a turn
    ConsultCosts,                 \* tokens a consultation may cost
    Resumed,                      \* may the engine come from load()?
    Farga,                        \* is a Farga base URL attached?
    HumanInputs, InboxCap         \* what a human sends; capacity of the channel

Default == "default"              \* DEFAULT_MODEL; never in Models

\* aporia: its system prompt names the graph's open, active nodes.
Seat == [persona : Personas, sealed : BOOLEAN, aporia : BOOLEAN]

CanvasDef == [roster : Seq(Seat), min : Nat, max : Nat, window : Nat,
              sections : Nat, total : Word, pools : [PoolName -> Word]]

Address == Personas \X (0 .. MaxSeats)

\* One [DIRECTIVE] of a moderator's reply.
Directive ==
    [kind : {"close", "approval"}]
        \cup [kind : {"invite", "release", "fork"}, who : Address]
        \cup [kind : {"adjust"}, pool : PoolName \cup {"unknown"}, delta : Delta]
        \cup [kind : {"model"}, who : Address, model : Models]
        \cup [kind : {"switch"}, canvas : CanvasIds \cup {"unknown"}]

\* A parsed reply: its cost, whether it proposes graph updates, the directives
\* it holds (executed only for a moderator) and how many agents it consults.
Reply == [tokens : Word, proposes : BOOLEAN,
          directives : Seq(Directive), consults : Nat]

ASSUME PersonasAssumption == {Moderator, Human} \subseteq Personas
ASSUME CanvasAssumption ==
    /\ Canvas \in [CanvasIds -> CanvasDef]
    /\ Home \in CanvasIds
    /\ Library \subseteq CanvasIds
    /\ MaxSeats \in Nat
    /\ \A c \in CanvasIds : Len(Canvas[c].roster) <= MaxSeats
ASSUME RepliesAssumption == Replies \subseteq Reply /\ ConsultCosts \subseteq Word
ASSUME EnvironmentAssumption ==
    /\ Resumed \in BOOLEAN /\ Farga \in BOOLEAN
    /\ Resumed => Farga
    /\ InboxCap \in Nat \ {0}
    /\ HumanInputs \subseteq {"Btw", "Call", "Approve", "Reject", "Modify"}

VARIABLES
    pc,             \* where the run is
    state,          \* SessionState (types.rs)
    canvas,         \* active_canvas
    round,          \* current_round
    participants,   \* ActiveParticipant by agent id: turns_taken and model
    pools,          \* the BudgetLedger
    transcript,     \* ContextBuilder's window of TurnRecords
    whispers,       \* WhisperQueue: a FIFO queue per address
    graph,          \* SessionGraph, as GraphSummary sums it up
    nextScope,      \* next_scope_ids: the round they were selected from
    prompts,        \* the TurnRequests of the running round
    replies,        \* the results of its spawned dispatches
    cursor,         \* the seat whose response phase 3 processes
    todo,           \* what is left to do of the current response
    result,         \* RoundResult
    inbox,          \* human input not received yet, a verdict with the round
                    \* whose request it was sent in answer to, or 0
    stored          \* the graph version Farga holds, or Nothing

\* History variables: never read by an action's guard.
VARIABLES
    spoken,         \* every TurnRecord of the session
    told,           \* what has been whispered to whom since the round began
    due,            \* and what was in the round before it
    verdict,        \* what became of the last request for approval
    hasty           \* has a verdict been sent when none was asked for?

roundVars == <<prompts, replies, cursor, todo, result>>
approvalVars == <<verdict, hasty>>
historyVars == <<spoken, told, due, approvalVars>>
vars == <<pc, state, canvas, round, participants, pools, transcript, whispers,
          graph, nextScope, prompts, replies, cursor, todo, result, inbox,
          stored, historyVars>>
-----------------------------------------------------------------------------
Verdict == {"Approve", "Reject"}    \* the inputs that end a wait for approval
Nothing == -1                       \* no stored graph
NoScope == 0                        \* next_scope_ids is None or empty
Pending == [status |-> "pending"]   \* the spawned task still runs
Failed == [status |-> "failed"]     \* a dispatch or join error

Answered(reply) == [status |-> "ok", reply |-> reply]

IsModerator(a) == a[1] = Moderator

\* participant_ids: everyone but the human, in canvas order.
Seats(c) == {i \in DOMAIN Canvas[c].roster : Canvas[c].roster[i].persona # Human}

Occupant(i) == <<Canvas[canvas].roster[i].persona, i>>

Ids(c) == {<<Canvas[c].roster[i].persona, i>> : i \in Seats(c)}

Sealed(a) == Canvas[canvas].roster[a[2]].sealed

Aporia(a) == Canvas[canvas].roster[a[2]].aporia

\* The participants of a canvas as they join it.
Seated(c) == [a \in Ids(c) |-> [turns |-> 0, model |-> Default]]

NoWhispers == [a \in Address |-> <<>>]

NoResult == [close |-> FALSE, approval |-> FALSE, switch |-> "none",
             agentOps |-> <<>>, moderatorOps |-> <<>>, transcript |-> <<>>]

NothingTodo == [directives |-> <<>>, forks |-> <<>>, consults |-> 0]

\* The state between new() or load() and the first line of run().  load() takes
\* the stored graph, or an empty one when Farga does not answer.
Init ==
    /\ pc = "start" /\ state = "Initializing"
    /\ canvas = Home /\ round = 1
    /\ participants = Seated(Home)
    /\ pools = NewLedger(Canvas[Home].pools)
    /\ transcript = <<>>
    /\ whispers = NoWhispers
    /\ \/ graph = EmptyGraph /\ stored = Nothing
       \/ /\ Resumed /\ stored = 1
          /\ graph \in {EmptyGraph} \cup [version : {1}, nodes : SUBSET NodeKinds]
    /\ nextScope = NoScope
    /\ prompts = <<>> /\ replies = <<>> /\ cursor = 0
    /\ todo = NothingTodo /\ result = NoResult
    /\ inbox = <<>>
    /\ spoken = <<>> /\ told = NoWhispers /\ due = NoWhispers
    /\ verdict = "none" /\ hasty = FALSE
=============================================================================
