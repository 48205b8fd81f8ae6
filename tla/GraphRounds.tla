---------------------------- MODULE GraphRounds -----------------------------
(***************************************************************************)
(* A session's rounds as its graph sees them (session.rs, round.rs): what  *)
(* of the graph the prompts share, the replies parsed in seat order, the   *)
(* agents' and the moderator's proposals, the extraction, the scope of the *)
(* next round.  Dispatch, tokens and humans are in Session; here a turn    *)
(* answers, fails, or is the last one of the session.                      *)
(***************************************************************************)
EXTENDS Blocks, GraphSummary

CONSTANTS
    Seats,          \* the roster: who of them is a moderator
    MaxRounds,      \* the canvas's maximum
    Loaded,         \* graphs a resumed session may start from
    Replies,        \* what a model may write, by is_moderator
    Extractions,    \* raw ops an extraction may answer
    Scopes          \* node ids a scope selection may answer

ASSUME SeatsAssumption == Seats \in Seq(BOOLEAN)
ASSUME MaxRoundsAssumption == MaxRounds \in Nat \ {0}
ASSUME ScopesAssumption == {} \notin Scopes

\* What a run of these rounds stored.
ASSUME LoadedAssumption == \A g \in Loaded : IsGraph(g)

\* Lists of lines, some of them ops, and of ops.
ASSUME RepliesAssumption ==
    \A role \in {"agent", "moderator"} : \A lines \in Replies[role] :
        /\ lines \in Seq(ToSet(lines))
        /\ \A line \in ToSet(lines) : line.kind = "op" => IsOp(line.raw)
ASSUME ExtractionsAssumption ==
    \A ops \in Extractions : ops \in Seq(ToSet(ops)) /\ \A o \in ToSet(ops) : IsOp(o)

VARIABLES
    pc,         \* where the round is
    round,      \* current_round
    graph,      \* SessionGraph
    scope,      \* next_scope_ids; {} for None and for an empty selection
    context,    \* shared_context of the running round: {} or one text
    seat,       \* whose response is processed
    reply,      \* the last response processed, as lines
    result      \* RoundResult: proposed ops by role, close, anything said?

vars == <<pc, round, graph, scope, context, seat, reply, result>>

NoResult == [agent |-> <<>>, moderator |-> <<>>, close |-> FALSE, heard |-> FALSE]

Init ==
    /\ pc = "head" /\ round = 1
    /\ graph \in {NewGraph} \cup Loaded
    /\ scope = {} /\ context = {}
    /\ seat = 1 /\ reply = <<>> /\ result = NoResult

\* Mutant: only Frontier nodes that are still open.
OpenFrontierScope ==
    {n.id : n \in {m \in Range(graph.layers["causal"]) : IsFrontier(m) /\ IsOpen(m)}}

\* The static scope: Frontier nodes of the causal layer.
FrontierScope ==
    {n.id : n \in {m \in Range(graph.layers["causal"]) : IsFrontier(m)}}

\* Mutant: round 1 of a resumed session shares nothing.
SharedContextFromRound2 ==
    LET ids == IF scope # {} THEN scope ELSE FrontierScope
    IN  IF round = 1 \/ ids = {} THEN {} ELSE {retrieve(graph, ids, 1)}

SharedContext ==
    LET ids == IF scope # {} THEN scope ELSE FrontierScope
    IN  IF (round = 1 /\ graph.version = 0) \/ ids = {} THEN {}
        ELSE {retrieve(graph, ids, 1)}

StartRound ==
    /\ pc = "head"
    /\ round <= MaxRounds
    /\ context' = SharedContext
    /\ result' = NoResult
    /\ seat' = 1
    /\ pc' = "turns"
    /\ UNCHANGED <<round, graph, scope, reply>>

RoundsExhausted ==
    /\ pc = "head"
    /\ round > MaxRounds
    /\ pc' = "done"
    /\ UNCHANGED <<round, graph, scope, context, seat, reply, result>>
-----------------------------------------------------------------------------
(* The turns. *)

AtTurn == pc = "turns" /\ seat <= Len(Seats)

Role == IF Seats[seat] THEN "moderator" ELSE "agent"

Closes(lines) ==
    \E d \in ToSet(moderator_actions(lines, Seats[seat])) : d.kind = "close"

\* Proposals are collected before the turn is charged; refused: main_session
\* cannot pay for it.
TurnAnswers(lines, refused) ==
    /\ AtTurn
    /\ reply' = lines
    /\ result' = [result EXCEPT ![Role] = @ \o ProposedOps(lines),
                                !.close = refused \/ Closes(lines),
                                !.heard = TRUE]
    /\ IF result'.close
       THEN pc' = "apply" /\ UNCHANGED seat
       ELSE seat' = seat + 1 /\ UNCHANGED pc
    /\ UNCHANGED <<round, graph, scope, context>>

TurnFails ==
    /\ AtTurn
    /\ seat' = seat + 1
    /\ UNCHANGED <<pc, round, graph, scope, context, reply, result>>

TurnsOver ==
    /\ pc = "turns"
    /\ seat > Len(Seats)
    /\ pc' = "apply"
    /\ UNCHANGED <<round, graph, scope, context, seat, reply, result>>
-----------------------------------------------------------------------------
(* The round boundary. *)

\* Mutant: the moderator's delta is applied first.
MergedModeratorFirst ==
    apply_delta(apply_delta(graph, proposals_to_delta(result.moderator)),
                proposals_to_delta(result.agent))

\* The agents' delta, then the moderator's.
Merged ==
    apply_delta(apply_delta(graph, proposals_to_delta(result.agent)),
                proposals_to_delta(result.moderator))

ApplyProposals ==
    /\ pc = "apply"
    /\ graph' = Merged
    /\ IF result.heard
       THEN pc' = "extract" /\ UNCHANGED scope
       ELSE pc' = "decide" /\ scope' = {}
    /\ reply' = <<>> /\ context' = {} /\ seat' = 1
    /\ UNCHANGED <<round, result>>

Extracted(ops) ==
    apply_delta(graph, proposals_to_delta([i \in DOMAIN ops |-> Converted(ops[i])]))

\* No key, a request or an answer that does not parse: not fatal.
Extract ==
    /\ pc = "extract"
    /\ graph' \in {graph} \cup {Extracted(ops) : ops \in Extractions}
    /\ pc' = "select"
    /\ result' = [NoResult EXCEPT !.close = result.close]
    /\ UNCHANGED <<round, scope, context, seat, reply>>

\* The model is shown the causal nodes and answers any ids; without nodes it is
\* not asked.  A failure and an empty answer have the same effect.
SelectScope ==
    /\ pc = "select"
    /\ scope' \in {{}} \cup (IF DOMAIN graph.layers["causal"] = {} THEN {} ELSE Scopes)
    /\ pc' = "decide"
    /\ UNCHANGED <<round, graph, context, seat, reply, result>>

Decide ==
    /\ pc = "decide"
    /\ IF result.close
       THEN pc' = "done" /\ UNCHANGED round
       ELSE pc' = "head" /\ round' = round + 1
    /\ UNCHANGED <<graph, scope, context, seat, reply, result>>

Finished == pc = "done" /\ UNCHANGED vars

Next ==
    \/ StartRound \/ RoundsExhausted
    \/ /\ AtTurn
       /\ \E lines \in Replies[Role], refused \in BOOLEAN :
             TurnAnswers(lines, refused)
    \/ TurnFails \/ TurnsOver
    \/ ApplyProposals \/ Extract \/ SelectScope \/ Decide
    \/ Finished

Spec == Init /\ [][Next]_vars
=============================================================================
