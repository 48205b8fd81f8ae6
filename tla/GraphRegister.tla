--------------------------- MODULE GraphRegister ---------------------------
(***************************************************************************)
(* What Farga's key graphs/<session_id> amounts to for the sessions: a     *)
(* register that holds the fresh graph or one that a session published at  *)
(* its end; a publication takes effect at any later time, or never.        *)
(***************************************************************************)
CONSTANT Fresh

VARIABLES register, published

Init == register = Fresh /\ published = {Fresh}

Publish ==
    /\ published \subseteq published'
    /\ UNCHANGED register

TakeEffect ==
    /\ register' \in published
    /\ UNCHANGED published

Next == Publish \/ TakeEffect

RegisterSpec == Init /\ [][Next]_<<register, published>>
=============================================================================
