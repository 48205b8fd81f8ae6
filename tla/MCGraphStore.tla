---------------------------- MODULE MCGraphStore ----------------------------
(***************************************************************************)
(* Two engines of one session_id; a round adds work, or other work and a   *)
(* weight JSON cannot hold; at most two rounds build on each other.        *)
(***************************************************************************)
EXTENDS GraphStore, TLC

MCRounds ==
    {[deltas |-> 2, work |-> {"w1"}, finite |-> TRUE],
     [deltas |-> 3, work |-> {"w2"}, finite |-> FALSE]}

AnyEngine == Permutations(Engines)
=============================================================================
