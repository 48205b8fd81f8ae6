---------------------------- MODULE SessionGraph ----------------------------
(***************************************************************************)
(* The session graph (graph/mod.rs), the delta that is applied to it and   *)
(* the conversion of what a model wrote into one (graph/extractor.rs,      *)
(* blocks.rs).  Operators only: GraphRounds runs a session's rounds on it. *)
(*                                                                         *)
(* Weights are f32, modelled in hundredths.  A text may also hold NaN or   *)
(* inf, which Rust parses as a float.  What is only displayed (summaries,  *)
(* farga_ref, the type and the layers of a via) is left out.               *)
(***************************************************************************)
EXTENDS Integers, SequencesExt

LayerKind == {"causal", "epistemic", "semantic", "economic"}
NodeType == {"axiom", "resolved", "question", "supporting", "frontier", "dead"}
OpKind == {"node", "edge", "via", "update"}
EdgeType == {"leads_to", "supports", "supersedes", "challenges", "dead"}

IsOp(o) == "op" \in DOMAIN o /\ o.op \in OpKind

NaN == -1
Infinity == 1000
Keep == -2          \* None: an update leaves this weight alone

\* Every comparison with NaN is false.
Above(w, bound) == w # NaN /\ w > bound
Below(w, bound) == w # NaN /\ w < bound
AtLeast(w, bound) == w # NaN /\ w >= bound

\* serde_json writes any other float as null.
Finite(w) == w \notin {NaN, Infinity}

EmptyLayer == [id \in {} |-> NaN]

\* SessionGraph::new.  Only the causal layer ever gets edges.
NewGraph ==
    [version |-> 0, layers |-> [l \in LayerKind |-> EmptyLayer],
     edges |-> <<>>, vias |-> <<>>]

\* A graph as deltas make it from a new one: nodes are keyed by their id, and a
\* node's type tells its layer.
IsGraph(g) ==
    /\ g.version \in Nat
    /\ g.edges \in Seq(ToSet(g.edges)) /\ g.vias \in Seq(ToSet(g.vias))
    /\ DOMAIN g.layers = LayerKind
    /\ \A l \in LayerKind : \A id \in DOMAIN g.layers[l] :
          LET n == g.layers[l][id]
          IN  /\ DOMAIN n = {"id", "type", "aw", "ep"} /\ n.id = id
              /\ l = IF n.type = "supporting" THEN "semantic" ELSE "causal"

NodeIds(g) == UNION {DOMAIN g.layers[l] : l \in LayerKind}

\* all_nodes: two layers may hold nodes of one id.
AllNodes(g) == UNION {Range(g.layers[l]) : l \in LayerKind}

IdsWhere(g, Test(_)) == {n.id : n \in {m \in AllNodes(g) : Test(m)}}

IsFrontier(n) == n.type = "frontier"
IsQuestion(n) == n.type = "question"

\* What an aporia participant's preamble names (round.rs).
IsOpen(n) == Above(n.aw, 60) /\ Below(n.ep, 50)
-----------------------------------------------------------------------------
(* From what a model wrote to a delta. *)

\* "semantic" is encoded as Supporting; an unknown type is a Frontier, an
\* unknown edge type LeadsTo.
NodeTypeOf(layer, type) ==
    CASE layer = "semantic" -> "supporting"
      [] layer # "semantic" /\ type \in NodeType -> type
      [] OTHER -> "frontier"

EdgeTypeOf(type) == IF type \in EdgeType THEN type ELSE "leads_to"

Converted(raw) ==
    CASE raw.op = "node" -> [raw EXCEPT !.type = NodeTypeOf(raw.layer, @)]
      [] raw.op = "edge" -> [raw EXCEPT !.type = EdgeTypeOf(@)]
      [] OTHER -> raw

NoDelta == [new_nodes |-> <<>>, new_edges |-> <<>>, new_vias |-> <<>>, updates |-> <<>>]

ListOf == [node |-> "new_nodes", edge |-> "new_edges", via |-> "new_vias",
           update |-> "updates"]

Pushed(delta, o) == [delta EXCEPT ![ListOf[o.op]] = Append(@, o)]

\* The order between ops of different kinds is lost.
proposals_to_delta(ops) == FoldLeft(Pushed, NoDelta, ops)
-----------------------------------------------------------------------------
(* apply_delta *)

\* Mutant: a node stays in the layer it was first put in.
RoutedOnce(layers, n) ==
    IF n.type = "supporting" \/ n.id \in DOMAIN layers["semantic"]
    THEN "semantic" ELSE "causal"

Routed(layers, n) == IF n.type = "supporting" THEN "semantic" ELSE "causal"

NodeOf(n) == [id |-> n.id, type |-> n.type, aw |-> n.aw, ep |-> n.ep]

\* HashMap::insert: a node of the same id in the same layer is replaced.
Put(nodes, n) ==
    [id \in {n.id} \cup DOMAIN nodes |-> IF id = n.id THEN NodeOf(n) ELSE nodes[id]]

Inserted(layers, n) == [layers EXCEPT ![Routed(layers, n)] = Put(@, n)]

\* The layers are searched in this order.
SearchOrder == <<"causal", "semantic", "epistemic", "economic">>

Holders(layers, id) == {i \in DOMAIN SearchOrder : id \in DOMAIN layers[SearchOrder[i]]}

FirstHolder(layers, id) == SearchOrder[Min(Holders(layers, id))]

Reweighted(n, u) ==
    [n EXCEPT !.aw = IF u.aw = Keep THEN @ ELSE u.aw,
              !.ep = IF u.ep = Keep THEN @ ELSE u.ep]

\* An update of an unknown id is dropped.
Updated(layers, u) ==
    IF Holders(layers, u.id) = {} THEN layers
    ELSE [layers EXCEPT ![FirstHolder(layers, u.id)][u.id] = Reweighted(@, u)]

\* Nodes are inserted first, then updated.
LayersAfter(g, d) ==
    FoldLeft(Updated, FoldLeft(Inserted, g.layers, d.new_nodes), d.updates)

\* Mutant: an empty delta is no version.
apply_delta_if_any(g, d) ==
    LET n == IF d.new_nodes \o d.new_edges \o d.new_vias \o d.updates = <<>>
             THEN 0 ELSE 1
    IN  [version |-> g.version + n, layers |-> LayersAfter(g, d),
         edges |-> g.edges \o d.new_edges, vias |-> g.vias \o d.new_vias]

\* Mutant: an edge replaces those between the same nodes.
apply_delta_edges_replaced(g, d) ==
    LET New(e) == \E f \in ToSet(d.new_edges) : <<f.from, f.to>> = <<e.from, e.to>>
    IN  [version |-> g.version + 1, layers |-> LayersAfter(g, d),
         edges |-> SelectSeq(g.edges, LAMBDA e : ~New(e)) \o d.new_edges,
         vias |-> g.vias \o d.new_vias]

\* Edges and vias are appended, never replaced; any delta counts as a version.
apply_delta(g, d) ==
    [version |-> g.version + 1, layers |-> LayersAfter(g, d),
     edges |-> g.edges \o d.new_edges, vias |-> g.vias \o d.new_vias]
-----------------------------------------------------------------------------
(* retrieve *)

Followed(e) == e.type \in {"leads_to", "supports"}

AlongEdges(g, from) ==
    {e.to : e \in {f \in ToSet(g.edges) : f.from \in from /\ Followed(f)}}

\* Mutant: vias are followed in either direction.
AlongViasBothWays(g, from) ==
    LET strong == {v \in ToSet(g.vias) : Above(v.strength, 50)}
    IN  {v.to : v \in {w \in strong : w.from \in from}}
          \cup {v.from : v \in {w \in strong : w.to \in from}}

AlongVias(g, from) ==
    {v.to : v \in {w \in ToSet(g.vias) : w.from \in from /\ Above(w.strength, 50)}}

\* The scope, the causal edges' targets, the strong vias' targets and, for two
\* hops, the targets of their vias.
Retrieved(g, scope, via_hops) ==
    LET firstHop == AlongVias(g, scope)
    IN  scope \cup AlongEdges(g, scope) \cup firstHop
          \cup IF via_hops = 2 THEN AlongVias(g, firstHop) ELSE {}

\* serialize_subset: what the text names, by section.
Shown(g, ids) ==
    LET Among(Test(_)) == ids \cap IdsWhere(g, Test)
    IN  [version    |-> g.version,
         causal     |-> ids \cap DOMAIN g.layers["causal"],
         open       |-> Among(LAMBDA n : Below(n.ep, 80)),
         frontier   |-> Among(IsFrontier),
         unresolved |-> Among(IsQuestion),
         vias       |-> {v \in ToSet(g.vias) : /\ AtLeast(v.strength, 30)
                                               /\ {v.from, v.to} \cap ids # {}}]

retrieve(g, scope, via_hops) == Shown(g, Retrieved(g, scope, via_hops))

\* The graph survives the JSON it is stored as (farga.rs).
Readable(g) ==
    /\ \A n \in AllNodes(g) : Finite(n.aw) /\ Finite(n.ep)
    /\ \A e \in ToSet(g.edges) : Finite(e.weight)
    /\ \A v \in ToSet(g.vias) : Finite(v.strength)
=============================================================================
