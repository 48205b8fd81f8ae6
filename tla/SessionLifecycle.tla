-------------------------- MODULE SessionLifecycle --------------------------
(***************************************************************************)
(* What a session promises to whoever watches it, abstracting from turns,  *)
(* budgets and graphs: the phases of SessionState (types.rs), how many     *)
(* rounds are over, and whether the last of them closed the session.       *)
(***************************************************************************)
EXTENDS Naturals

CONSTANT RoundLimits    \* how many rounds each canvas allows

VARIABLES phase, rounds, closed

lifecycle == <<phase, rounds, closed>>

LifecycleInit == phase = "Initializing" /\ rounds = 0 /\ closed = FALSE

Begin ==
    /\ phase = "Initializing"
    /\ phase' = "Running"
    /\ UNCHANGED <<rounds, closed>>

\* A round ends; it may have closed the session, and it may have asked for
\* an approval.  No round follows one that closed, and none lies beyond what
\* every canvas allows.
RoundOver ==
    /\ phase = "Running"
    /\ ~closed
    /\ \E limit \in RoundLimits : rounds < limit
    /\ rounds' = rounds + 1
    /\ closed' \in BOOLEAN
    /\ phase' \in {"Running", "AwaitingApproval"}

VerdictGiven ==
    /\ phase = "AwaitingApproval"
    /\ phase' = "Running"
    /\ UNCHANGED <<rounds, closed>>

BeginSynthesis ==
    /\ phase = "Running"
    /\ phase' = "Synthesizing"
    /\ UNCHANGED <<rounds, closed>>

Finish ==
    /\ phase = "Synthesizing"
    /\ phase' = "Complete"
    /\ UNCHANGED <<rounds, closed>>

\* Nothing can go wrong while the session only waits for a human.
GiveUp ==
    /\ phase \in {"Initializing", "Running", "Synthesizing"}
    /\ phase' = "Failed"
    /\ UNCHANGED <<rounds, closed>>

LifecycleNext ==
    Begin \/ RoundOver \/ VerdictGiven \/ BeginSynthesis \/ Finish \/ GiveUp

LifecycleSpec == LifecycleInit /\ [][LifecycleNext]_lifecycle
=============================================================================
