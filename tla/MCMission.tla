----------------------------- MODULE MCMission ------------------------------
(***************************************************************************)
(* Two objectives, an unknown id, and plans that name one objective, both, *)
(* one twice or an unknown one.                                            *)
(***************************************************************************)
EXTENDS Mission

For(objectives, slice) ==
    [objectives |-> objectives, slice |-> slice, known |-> TRUE]
Misplaced == [objectives |-> <<"A">>, slice |-> 0, known |-> FALSE]

MCAnswers ==
    {<<>>, <<For(<<"A", "B">>, 1)>>, <<For(<<"B">>, 2), For(<<"A", "X">>, 0)>>,
     <<For(<<"B", "B">>, 0)>>, <<Misplaced>>}
=============================================================================
