---------------------------- MODULE MCGovernance ----------------------------
(***************************************************************************)
(* A consistent configuration, one whose cap is below its minimums, one    *)
(* with unordered thresholds and a minimum whose double overflows, and two *)
(* with thresholds that are NaN.                                           *)
(***************************************************************************)
EXTENDS Governance

Minimums(low, medium, high, critical) ==
    [Low |-> low, Medium |-> medium, High |-> high, Critical |-> critical]

Default ==
    [medium |-> 30, high |-> 55, critical |-> 80, minimum |-> Minimums(2, 5, 8, 12),
     cap |-> 15, counterCap |-> 10]

MCConfigs ==
    {Default, [Default EXCEPT !.cap = 4],
     [Default EXCEPT !.high = 90, !.minimum = Minimums(2, 5, 8, 40)],
     [Default EXCEPT !.critical = NaN], [Default EXCEPT !.high = NaN]}

MCScores == {10, 40, 60, 85, 95}

MCInvolved == {<<>>, <<"p">>, <<"p", "q", "r", "s">>}

Pools(main, consult, whisper) ==
    [main_session |-> main, consultations |-> consult, mod_whisper |-> whisper]

MCBases ==
    {[total |-> 50, pools |-> Pools(40, 8, 2)], [total |-> 15, pools |-> Pools(5, 5, 5)],
     [total |-> 0, pools |-> Pools(0, 0, 0)]}

\* Nobody, and a list with two moderators and a project.
MCRosters ==
    {<<>>, <<Address("stances", "moderator"), Address("p", "realist"),
             Address("stances", "moderator")>>}

\* Nothing at all, and more than was recommended.
MCEnvelopes ==
    {[recommended |-> 0, minimum |-> 0], [recommended |-> 20, minimum |-> 13]}
=============================================================================
