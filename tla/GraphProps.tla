----------------------------- MODULE GraphProps -----------------------------
(***************************************************************************)
(* What the rounds guarantee of the session graph, and what the code says  *)
(* of it that does not hold (the section "Documented").                    *)
(***************************************************************************)
EXTENDS GraphRounds

AllIds == NodeIds(graph)

\* A node's type tells its layer, whatever is created, created again under
\* another type, updated or extracted: Supporting nodes are the semantic layer,
\* all others the causal one, and nothing ever reaches the other two.
LayersByType ==
    \A l \in LayerKind : \A n \in Range(graph.layers[l]) :
        l = IF n.type = "supporting" THEN "semantic" ELSE "causal"
-----------------------------------------------------------------------------
(* Proposals. *)

\* The last op of the moderator in this round that passes the test.
LastByModerator(Test(_)) == SelectLastInSeq(result.moderator, Test)

\* The value the moderator's ops ask for: that of its last update that names
\* one, else that of its last NEW; any value if it asked for none.
Asked(value, field, id, layer) ==
    LET new == LastByModerator(LAMBDA o : /\ o.op = "node" /\ o.id = id
                                          /\ (o.type = "supporting") <=> (layer = "semantic"))
        upd == LastByModerator(LAMBDA o : o.op = "update" /\ o.id = id /\ o[field] # Keep)
        updated == upd # 0 /\ FirstHolder(graph.layers, id) = layer
    IN  CASE updated -> value = result.moderator[upd][field]
          [] ~updated /\ new # 0 -> value = result.moderator[new][field]
          [] OTHER -> TRUE

\* In each layer, where agents and the moderator propose for the same id, the
\* moderator's type and weights are what the round leaves: not an agent's update of
\* a node the moderator creates, nor an agent's node of that id in that layer.  An
\* update ranks above a NEW wherever the two stand in the reply.  Across layers the
\* moderator does not prevail: an id created as Supporting by the one and as another
\* type by the other stands in both layers, each copy as its creator made it, and an
\* update, the moderator's too, reaches the causal copy only.
ModeratorPrevails ==
    pc = "extract" =>
        \A l \in {"causal", "semantic"} : \A id \in DOMAIN graph.layers[l] :
            LET n == graph.layers[l][id]
                new == LastByModerator(LAMBDA o : /\ o.op = "node" /\ o.id = id
                                                  /\ (o.type = "supporting") <=> (l = "semantic"))
            IN  /\ new # 0 => n.type = result.moderator[new].type
                /\ Asked(n.aw, "aw", id, l)
                /\ Asked(n.ep, "ep", id, l)

\* A line of a reply is an op exactly if the nearest header above it, of
\* whatever kind, opens a proposal: none is counted twice, none reaches past a
\* directive, also one the speaker may not give.
HeadersAbove(lines, i) == {h \in 1 .. i - 1 : IsHeader(lines[h])}
InProposal(lines, i) ==
    /\ HeadersAbove(lines, i) # {}
    /\ lines[Max(HeadersAbove(lines, i))].kind = "proposal"

OpsAttributed ==
    \E at \in [DOMAIN ProposedOps(reply) -> DOMAIN reply] :
        /\ \A j, k \in DOMAIN at : j < k => at[j] < at[k]
        /\ Range(at) = {i \in DOMAIN reply : reply[i].kind = "op" /\ InProposal(reply, i)}
        /\ \A k \in DOMAIN at : ProposedOps(reply)[k] = Converted(reply[at[k]].raw)

\* Nothing is forgotten: ids, edges and vias stay, versions count up.  This is
\* what GraphStore takes a graph to be.
Grown(g, h) ==
    /\ NodeIds(g) \subseteq NodeIds(h)
    /\ IsPrefix(g.edges, h.edges) /\ IsPrefix(g.vias, h.vias)
    /\ g.version <= h.version

GraphGrows == [][Grown(graph, graph')]_vars
-----------------------------------------------------------------------------
(* What the session's control sees. *)

Summary(g) ==
    [version |-> g.version,
     nodes |-> {k \in NodeKinds :
                  CASE k = "frontier" ->
                         \E n \in Range(g.layers["causal"]) : IsFrontier(n)
                    [] k = "open" -> \E n \in AllNodes(g) : IsOpen(n)}]

\* The steps of the graph are those Session takes on its summary: two deltas at
\* every round's end, empty ones too, which then change no kind of node; one
\* more if the extraction answers.
AsSummarised ==
    [][/\ pc = "apply" /\ pc' # "apply" =>
            Summary(graph') \in ProposalsApplied(Summary(graph),
                result.agent # <<>>, result.moderator # <<>>)
       /\ pc # "apply" /\ graph' # graph =>
            Summary(graph') \in DeltaApplied(Summary(graph), TRUE)]_vars

\* A round shares a context exactly when the summary says so: never in the
\* first round of a fresh session, always where an earlier round or run left a
\* scope or a Frontier node.
ContextAsSummarised ==
    pc = "turns" =>
        (context # {} <=> ContextKind(round, Summary(graph), scope # {}) # "none")

\* No open thread is dropped: unless a scope was selected, every Frontier node
\* of any layer is named in the round's context, of a resumed session from
\* round 1 on.
FrontierShown ==
    pc = "turns" /\ scope = {} /\ graph.version > 0 =>
        \A id \in IdsWhere(graph, IsFrontier) :
            \E c \in context : id \in c.frontier \cap c.causal

OneHop(a, b) ==
    \/ a = b
    \/ \E e \in ToSet(graph.edges) : <<e.from, e.to>> = <<a, b>> /\ Followed(e)
    \/ \E v \in ToSet(graph.vias) : <<v.from, v.to>> = <<a, b>> /\ Above(v.strength, 50)

\* What a context starts from, and the nodes at most one hop from there.
Start == IF scope # {} THEN scope ELSE IdsWhere(graph, IsFrontier)
Reached == {id \in NodeIds(graph) : \E s \in Start : OneHop(s, id)}

\* A node of the causal layer is listed whatever its weights, one of another layer
\* while it is open.
Listable(id) ==
    \/ id \in DOMAIN graph.layers["causal"]
    \/ \E n \in AllNodes(graph) : n.id = id /\ Below(n.ep, 80)

\* The nodes a context lists, of whatever layer, are those of its scope and those
\* one edge or one strong via away from it, followed forward only, and no others:
\* every causal one of them and every open one.  A settled Supporting node is not
\* listed even if the scope selects it, an id the graph does not know shows nothing.
ContextIsOneHop ==
    pc = "turns" =>
        \A c \in context : c.causal \cup c.open = {id \in Reached : Listable(id)}
-----------------------------------------------------------------------------
(* Documented, and not so. *)

\* session.rs, at the round boundary: "applying moderator last gives moderator
\* precedence on any conflicting node/edge update".  An edge the moderator
\* declares dead is not followed any more.
EdgePrecedence ==
    pc = "extract" =>
        \A i \in DOMAIN result.moderator :
            LET e == result.moderator[i]
            IN  e.op = "edge" /\ ~Followed(e) => e.to \notin AlongEdges(graph, {e.from})
=============================================================================
