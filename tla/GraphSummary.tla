---------------------------- MODULE GraphSummary ----------------------------
(***************************************************************************)
(* What a session's control asks of its graph: the version (is it a fresh  *)
(* one?), has it Frontier nodes, which feed the shared context, and has it *)
(* open ones, which feed an aporia participant's preamble.  Session works  *)
(* on this summary, GraphRounds on the graph itself.                       *)
(***************************************************************************)
EXTENDS Integers

CONSTANT NodeKinds      \* kinds of nodes a graph update may leave

ASSUME NodeKindsAssumption == NodeKinds \subseteq {"frontier", "open"}

EmptyGraph == [version |-> 0, nodes |-> {}]

\* The graphs apply_delta may leave: any delta counts as a version, and one
\* with updates may add or overwrite nodes of any kind.
DeltaApplied(g, updates) ==
    {[version |-> g.version + 1, nodes |-> n] :
        n \in IF updates THEN SUBSET NodeKinds ELSE {g.nodes}}

\* Those the agents' delta and then the moderator's may leave.
ProposalsApplied(g, agents, moderator) ==
    UNION {DeltaApplied(h, moderator) : h \in DeltaApplied(g, agents)}

\* What of the graph a round's unsealed prompts carry; scoped: did the round
\* before select a scope?
ContextKind(round, g, scoped) ==
    IF round = 1 /\ g.version = 0 THEN "none"
    ELSE IF scoped THEN "scope"
    ELSE IF "frontier" \in g.nodes THEN "frontier" ELSE "none"
=============================================================================
