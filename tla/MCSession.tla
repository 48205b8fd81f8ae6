----------------------------- MODULE MCSession ------------------------------
(***************************************************************************)
(* Instances of Session.  One persona of each kind, at most four seats.    *)
(***************************************************************************)
EXTENDS SessionProps

MCPersonas == {"dev", "judge", "moderator", "human"}

Open(p) == [persona |-> p, sealed |-> FALSE, aporia |-> FALSE]
Seal(p) == [Open(p) EXCEPT !.sealed = TRUE]
Seeking(seat) == [seat EXCEPT !.aporia = TRUE]

Pools(main, consult, whisper) ==
    [p \in PoolName |-> CASE p = "main_session" -> main
                          [] p = "consultations" -> consult
                          [] p = "mod_whisper" -> whisper]

Def(roster, min, max, window, main) ==
    [roster |-> roster, min |-> min, max |-> max, window |-> window,
     sections |-> 1, total |-> main + 3, pools |-> Pools(main, 2, 1)]

\* A moderator speaking before an agent.
Pair(main) == Def(<<Open("moderator"), Open("dev")>>, 2, 3, 2, main)

\* A moderator alone.
Solo == Def(<<Open("moderator")>>, 2, 3, 2, 40)

\* Fewer rounds and other seats, the target of a hot switch: an evaluator both
\* sealed and aporia, a human, an aporia moderator.
Small == Def(<<Seeking(Seal("judge")), Open("human"), Seeking(Open("moderator"))>>,
             1, 2, 2, 40)

Rich == [c \in {"pair"} |-> Pair(40)]
Poor == [c \in {"pair"} |-> Pair(5)]
Switching == [c \in {"solo", "small"} |-> IF c = "solo" THEN Solo ELSE Small]

Says(tokens, consults, directives) ==
    [tokens |-> tokens, proposes |-> FALSE, directives |-> directives,
     consults |-> consults]
Proposes(tokens) == [Says(tokens, 0, <<>>) EXCEPT !.proposes = TRUE]

Close == [kind |-> "close"]
Approval == [kind |-> "approval"]
Switch(c) == [kind |-> "switch", canvas |-> c]
Adjust(p, delta) == [kind |-> "adjust", pool |-> p, delta |-> delta]
About(kind, p, seat) == [kind |-> kind, who |-> <<p, seat>>]
UseModel(p, seat) == [kind |-> "model", who |-> <<p, seat>>, model |-> "haiku"]

\* Replies for each question a run asks.
Converse ==
    {Proposes(1), Says(2, 1, <<>>), Says(1, 0, <<Close>>),
     Says(1, 0, <<Adjust("consultations", 2)>>),
     Says(1, 0, <<Adjust("main_session", -4), Adjust("unknown", 1)>>)}
Steer == {Says(1, 0, <<About("invite", "judge", 0), About("release", "dev", 2)>>),
          Says(1, 0, <<Approval, Switch("unknown"), About("fork", "dev", 1)>>),
          Says(1, 0, <<Approval, Close>>),
          Proposes(1),
          Says(1, 1, <<Switch("small"), UseModel("moderator", 0)>>),
          Says(1, 0, <<Approval, Switch("small")>>)}
Ask == {Says(1, 0, <<>>), Says(1, 0, <<Approval>>)}
Mint == {Says(3, 0, <<>>),
         Says(1, 0, <<Adjust("consultations", 40), Adjust("consultations", -40)>>)}

AnyInput == {"Btw", "Approve", "Reject"}
NoInput == {}
=============================================================================
