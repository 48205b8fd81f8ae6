------------------------------- MODULE MCGraph ------------------------------
(***************************************************************************)
(* A moderator and an agent, two rounds; every reply of up to three lines  *)
(* out of five, whose ops conflict on one node N.                          *)
(***************************************************************************)
EXTENDS GraphProps

Line(kind) == [kind |-> kind, whole |-> TRUE]
Broken(kind) == [kind |-> kind, whole |-> FALSE]
Op(raw) == [kind |-> "op", raw |-> raw]

New(id, type, layer, aw, ep) ==
    [op |-> "node", id |-> id, type |-> type, layer |-> layer, aw |-> aw, ep |-> ep]
Update(id, aw, ep) == [op |-> "update", id |-> id, aw |-> aw, ep |-> ep]
Edge(from, to, type) ==
    [op |-> "edge", from |-> from, to |-> to, type |-> type, weight |-> 100]
Via(from, to, strength) ==
    [op |-> "via", from |-> from, to |-> to, strength |-> strength]

MCSeats == <<TRUE, FALSE>>

UpTo(n, lines) == UNION {[1 .. k -> lines] : k \in 0 .. n}

AgentLines ==
    {Line("proposal"), Line("main"), Broken("fork"),
     Op(New("N", "frontier", "", 90, 20)), Op(Update("N", 80, Keep))}
ModeratorLines ==
    {Line("proposal"), Line("close"), Op(New("N", "resolved", "causal", 50, 50)),
     Op(New("N", "question", "semantic", 50, 50)), Op(Update("N", 10, 95))}

Conflicting ==
    [role \in {"agent", "moderator"} |->
       UpTo(3, IF role = "agent" THEN AgentLines ELSE ModeratorLines)]

\* The moderator declares the agent's edge dead.
OnEdges ==
    [role \in {"agent", "moderator"} |->
       {<<>>, <<Line("proposal"),
                Op(Edge("N", "Q", IF role = "agent" THEN "leads_to" ELSE "dead"))>>}]

Question == <<New("Q", "question", "causal", 70, 20), Edge("N", "Q", "relates_to"),
              Via("Q", "N", 60), Update("N", Keep, 30)>>
Nothing == <<>>
MCExtractions == {Question, Nothing}

\* T: a settled Supporting node.
MCScopes == {{"Q", "T"}, {"unknown"}}

\* What a first session of one silent agent left: two deltas.
Earlier ==
    apply_delta(apply_delta(NewGraph, proposals_to_delta(<<>>)), proposals_to_delta(
        <<New("N", "frontier", "causal", 70, 60), New("S", "supporting", "semantic", 70, 10),
          New("R", "resolved", "causal", 50, 90), New("T", "supporting", "semantic", 50, 90),
          Via("N", "S", 70), Via("N", "T", 70), Via("R", "N", 70),
          Edge("N", "Q", "supersedes")>>))
MCLoaded == {Earlier}
=============================================================================
