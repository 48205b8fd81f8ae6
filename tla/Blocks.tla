------------------------------- MODULE Blocks -------------------------------
(***************************************************************************)
(* parse_blocks (blocks.rs): a model's reply, line by line.  A line is a   *)
(* block's header, a directive, an op of a graph proposal, or text; what a *)
(* header or directive is about is left out, except for the malformed ones *)
(* that are dropped.                                                       *)
(***************************************************************************)
EXTENDS SessionGraph

AgentHeader == {"main", "btw", "consult", "leave", "proposal"}
DirectiveHeader == {"invite", "release", "close", "request_approval", "adjust",
                    "model", "fork", "switch"}

\* An op line of a proposal carries the op as it is written; a line that is no
\* valid op is a text line.
IsHeader(line) == line.kind \in AgentHeader \cup DirectiveHeader

\* Mutant: only the headers this reply is parsed for end a block.
CollectedForAgent(lines, start) ==
    LET ends == {j \in start .. Len(lines) : lines[j].kind \in AgentHeader}
    IN  SubSeq(lines, start, IF ends = {} THEN Len(lines) ELSE Min(ends) - 1)

\* Any header ends a block, also a directive that an agent may not give.
collect_until_next_block(lines, start) ==
    LET ends == {j \in start .. Len(lines) : IsHeader(lines[j])}
    IN  SubSeq(lines, start, IF ends = {} THEN Len(lines) ELSE Min(ends) - 1)

PushOp(ops, line) ==
    IF line.kind = "op" THEN Append(ops, Converted(line.raw)) ELSE ops

parse_graph_proposal_content(content) == FoldLeft(PushOp, <<>>, content)

Block(lines, i) ==
    [block |-> lines[i].kind,
     ops   |-> IF lines[i].kind = "proposal"
               THEN parse_graph_proposal_content(collect_until_next_block(lines, i + 1))
               ELSE <<>>]

PushBlock(lines, blocks, i) ==
    IF lines[i].kind \in AgentHeader THEN Append(blocks, Block(lines, i)) ELSE blocks

agent_blocks(lines) ==
    FoldLeft(LAMBDA blocks, i : PushBlock(lines, blocks, i), <<>>, [i \in DOMAIN lines |-> i])

\* Only a moderator's; ADJUST_BUDGET without a comma, MODEL without "for:" and
\* FORK_CONSULTATION with fewer than three parts are skipped.
moderator_actions(lines, is_moderator) ==
    IF is_moderator
    THEN SelectSeq(lines, LAMBDA line : line.kind \in DirectiveHeader /\ line.whole)
    ELSE <<>>

Extended(ops, block) == ops \o block.ops

\* All ops of a reply's proposals (round.rs).
ProposedOps(lines) == FoldLeft(Extended, <<>>, agent_blocks(lines))
=============================================================================
